--------------------------- MODULE Scripts_proofs ---------------------------
(***************************************************************************)
(* Theorems about Scripts, for any number of runs and sandboxes, any warm  *)
(* sizes and any ids of snapshots.                                         *)
(***************************************************************************)
EXTENDS Scripts, SequenceTheorems, TLAPS

-----------------------------------------------------------------------------
(* The text of the scripts.  Nest is the blocks of a script, from without; *)
(* Depth says how many of them a call is in, and Has which variables       *)
(* then name a sandbox the script has.  Behind the last call comes one     *)
(* entry more.                                                             *)

Block(kind, v) == [kind |-> kind, v |-> v]
Leasing == {"egress_demo", "write", "read", "both", "console", "insights", "code_act"}

Nest(name) ==
    CASE name \in {"warm_pool", "introspect", "discard"} -> <<Block("pool", NoName)>>
      [] name \in Leasing -> <<Block("pool", NoName), Block("lease", "a")>>
      [] name = "egress_audit" -> <<Block("pool", NoName), Block("try", "a")>>
      [] name = "install" -> <<Block("manager", NoName), Block("session", "a")>>
      [] name = "volume_probe" ->
            <<Block("pool", NoName), Block("manager", NoName), Block("session", "a")>>

Depth(name) ==
    CASE name = "warm_pool" -> <<0, 1, 1, 1, 1, 1, 1, 1, 1, 1, 1, 1, 0>>
      [] name = "egress_demo" -> <<0, 1, 2, 2, 2, 2, 1, 2, 2, 2, 2, 1, 0>>
      [] name = "write" -> <<0, 1, 1, 2, 2, 1, 0>>
      [] name = "read" -> <<0, 1, 2, 2, 1, 0>>
      [] name = "both" -> <<0, 1, 1, 2, 2, 1, 0, 1, 2, 2, 1, 0>>
      [] name = "install" -> <<0, 1, 2, 2, 2, 1, 0>>
      [] name = "discard" -> <<0, 1, 1, 0>>
      [] name \in {"console", "insights", "code_act"} -> <<0, 1, 2, 2, 2, 2, 1, 0>>
      [] name = "introspect" -> <<0, 1, 1, 1, 1, 1, 1, 1, 1, 1, 1, 1, 1, 0>>
      [] name = "egress_audit" -> <<0, 1, 2, 2, 2, 2, 2, 1, 2, 2, 2, 2, 2, 1, 0>>
      [] name = "volume_probe" -> <<0, 1, 2, 2, 3, 3, 2, 3, 3, 2, 2, 1, 0>>

Has(name, i, v) ==
    \/ name = "warm_pool" /\ (\/ v = "a" /\ i \in 4..9
                              \/ v = "b" /\ i \in 5..10
                              \/ v = "c" /\ i \in 6..11)
    \/ name = "introspect" /\ (\/ v = "a" /\ i \in 3..7
                               \/ v = "b" /\ i \in 10..13)
    \/ name = "egress_audit" /\ v = "a" /\ i \in (4..7) \cup (10..13)
    \/ /\ name \notin {"warm_pool", "introspect", "egress_audit", "discard"}
       /\ v = "a" /\ Depth(name)[i] = Len(Nest(name))

Getting == {"acquire", "lease", "session", "track"}
Using == {"exec", "write", "read", "snapshot", "release"}
Caught == {"exec", "write", "read", "drop"}
Plain == {"wait", "ensure", "rehydrate", "drop", "discard"}

\* What the i-th call of a script is, and how it moves in these tables.
Fits(name, i, x, n, d, e) ==
    /\ x.do \in Entering \cup Getting \cup Using \cup Plain \cup {"end"}
    /\ d \in 0..Len(n) /\ e \in 0..Len(n)
    /\ x.do \in Entering => e = d + 1 /\ n[e] = Block(x.do, x.v)
    /\ x.do = "end" => d = e + 1
    /\ x.do \notin Entering \cup {"end"} => e = d /\ d > 0
    /\ x.do \in Getting \cup Using \cup {"rehydrate"} => x.v \in {"a", "b", "c"}
    /\ x.do \in Getting \cup {"rehydrate"} => ~Has(name, i, x.v)
    /\ x.do \in Using => Has(name, i, x.v)
    /\ x.do = "end" /\ n[d].kind \in {"lease", "session", "try"} => n[d].v = "a"
    /\ \A j \in 1..d : n[j].kind \in {"lease", "session"} => Has(name, i, n[j].v)
    /\ \A v \in Variables : Has(name, i + 1, v) =>
          \/ Has(name, i, v) /\ ~(x.do = "release" /\ x.v = v)
                /\ (x.do = "end" => n[d].kind \notin {"pool", "manager"} /\ n[d].v # v)
          \/ x.do \in Getting /\ x.v = v
    /\ x.do = "end" /\ n[d].kind = "manager" => \A v \in Variables : ~Has(name, i, v)
    /\ x.do \in {"release", "rehydrate", "track"} => Len(n) = 1 /\ n[1].kind = "pool"
    /\ x.do \in Getting /\ name = "egress_audit" => x.do = "acquire" /\ d = 2
    /\ x.over \in Nat /\ (x.quiet => x.do \in Caught)
    /\ (x.do = "track") = (name = "introspect" /\ i = 9)
    /\ (x.do = "rehydrate") = (name = "introspect" /\ i = 8)
    /\ name = "introspect" /\ i \in {8, 9} => x.v = "b"
    /\ x.do = "try" => name = "egress_audit" /\ i + x.over \in {8, 14}

\* Pools and managers come outermost, and one block in them.
Shaped(name, n) ==
    /\ Len(n) \in 1..3 /\ n[1].kind \in {"pool", "manager"}
    /\ \A j \in 1..Len(n) :
          /\ n[j].kind \in Entering /\ n[j].v \in Variables \cup {NoName}
          /\ n[j].kind \in {"lease", "session", "try"} => j = Len(n) /\ j > 1 /\ n[j].v = "a"
          /\ n[j].kind = "pool" => j = 1
          /\ n[j].kind = "session" => n[j - 1].kind = "manager"
          /\ n[j].kind = "try" => name = "egress_audit"
          /\ n[j].kind = "manager" => \A k \in 1..Len(n) : n[k].kind \notin {"lease", "try"}

Fitting(name) ==
    \A i \in 1..Len(Code(name)) :
        Fits(name, i, Code(name)[i], Nest(name), Depth(name)[i], Depth(name)[i + 1])

Sound(name) ==
    /\ Len(Code(name)) \in Nat \ {0}
    /\ Depth(name)[1] = 0 /\ Depth(name)[Len(Code(name)) + 1] = 0
    /\ \A v \in Variables : ~Has(name, 1, v)
    /\ Shaped(name, Nest(name))
    /\ Fitting(name)

\* A call of a script, as far as the tables are concerned.
Word(x, do, v) ==
    /\ x.do = do /\ x.v = v /\ x.over \in Nat /\ (x.quiet => do \in Caught)
    /\ x.sizes \subseteq Nat

LEMMA Words ==
  ASSUME NEW v, NEW n, NEW k \in Nat, NEW S \in SUBSET Nat
  PROVE  /\ Word(Pool(S), "pool", NoName) /\ Word(Manager(S), "manager", NoName)
         /\ Word(Try(v, k), "try", v) /\ Try(v, k).over = k
         /\ Word(Lease(v), "lease", v) /\ Word(On(n, Lease(v)), "lease", v)
         /\ Word(Session(v), "session", v) /\ Word(On(n, Session(v)), "session", v)
         /\ Word(Acquire(v), "acquire", v) /\ Word(On(n, Acquire(v)), "acquire", v)
         /\ Word(Release(v), "release", v)
         /\ Word(Exec(v), "exec", v) /\ Word(Quietly(Exec(v)), "exec", v)
         /\ Word(Agent(v), "exec", v)
         /\ Word(Quietly(Write(v)), "write", v) /\ Word(Write(v), "write", v)
         /\ Word(Checked(On(n, Write(v))), "write", v)
         /\ Word(Quietly(Read(v)), "read", v) /\ Word(Checked(On(n, Read(v))), "read", v)
         /\ Word(Take(v), "snapshot", v) /\ Word(Rehydrate(v), "rehydrate", v)
         /\ Word(Track(v), "track", v) /\ Word(Quietly(Drop), "drop", NoName)
         /\ Word(Ensure(n), "ensure", NoName) /\ Word(WaitWarm, "wait", NoName)
         /\ Word(Discard, "discard", NoName) /\ Word(End, "end", NoName)
BY DEF Word, Caught, Ins, Quietly, Checked, On, Pool, Manager, Try, Lease, Session,
       Acquire, Release, Exec, Agent, Write, Read, Take, Rehydrate, Track, Drop, Ensure,
       WaitWarm, Discard, End

LEMMA FixedSizes == {0} \in SUBSET Nat /\ {2} \in SUBSET Nat
OBVIOUS

LEMMA WarmPoolText ==
  LET c == Code("warm_pool")
  IN  /\ Len(c) = 12 /\ Word(c[1], "pool", NoName)
      /\ Word(c[2], "wait", NoName) /\ Word(c[3], "acquire", "a")
      /\ Word(c[4], "acquire", "b") /\ Word(c[5], "acquire", "c")
      /\ Word(c[6], "exec", "a") /\ Word(c[7], "exec", "b")
      /\ Word(c[8], "exec", "c") /\ Word(c[9], "release", "a")
      /\ Word(c[10], "release", "b") /\ Word(c[11], "release", "c")
      /\ Word(c[12], "end", NoName)
BY Words, FixedSizes DEF Code, WarmPool

LEMMA WarmPoolFits == Sound("warm_pool")
<1> DEFINE c == Code("warm_pool")
           n == Nest("warm_pool")
           d == Depth("warm_pool")
           At(i) == Fits("warm_pool", i, c[i], n, d[i], d[i + 1])
<1>1. /\ Len(n) = 1 /\ n[1] = Block("pool", NoName)
  BY DEF Nest, Leasing
<1>2. /\ d[1] = 0 /\ d[2] = 1 /\ d[3] = 1 /\ d[4] = 1 /\ d[5] = 1 /\ d[6] = 1
      /\ d[7] = 1 /\ d[8] = 1 /\ d[9] = 1 /\ d[10] = 1 /\ d[11] = 1
      /\ d[12] = 1 /\ d[13] = 0
  BY DEF Depth
<1>3. Len(c) = 12
  BY WarmPoolText DEF c
<1>4. \A i, v : Has("warm_pool", i, v) <=>
         \/ v = "a" /\ i \in 4..9
         \/ v = "b" /\ i \in 5..10
         \/ v = "c" /\ i \in 6..11
  BY DEF Has
<1> HIDE DEF c, d, n
<1> USE DEF Word, Fits, Entering, Block, Getting, Using, Plain, Caught, Variables
<1>5. At(1) /\ At(2) /\ At(3)
  BY WarmPoolText, <1>1, <1>2, <1>4 DEF c
<1>6. At(4) /\ At(5) /\ At(6)
  BY WarmPoolText, <1>1, <1>2, <1>4 DEF c
<1>7. At(7) /\ At(8) /\ At(9)
  BY WarmPoolText, <1>1, <1>2, <1>4 DEF c
<1>8. At(10) /\ At(11) /\ At(12)
  BY WarmPoolText, <1>1, <1>2, <1>4 DEF c
<1> HIDE DEF At, Fits, Word
<1>9. \A i \in 1..12 : At(i)
  BY <1>5, <1>6, <1>7, <1>8
<1>10. \A v \in Variables : ~Has("warm_pool", 1, v)
  BY <1>1, <1>2, <1>4
<1>11. Shaped("warm_pool", n)
  BY <1>1 DEF Shaped, Entering, Block, Variables
<1>12. Len(c) \in Nat \ {0} /\ d[1] = 0 /\ d[Len(c) + 1] = 0
  BY <1>2, <1>3
<1>13. \A i \in 1..Len(c) : At(i)
  BY <1>3, <1>9
<1> QED
  BY <1>10, <1>11, <1>12, <1>13 DEF At, Sound, Fitting, c, d, n

\* The calls of the scripts whose text is put together of parts.
Calls == {Pool({0}), On("cold", Lease("a")), On("demo", Lease("a")), Exec("a"),
          AuditLog("a"), Ensure("demo"), Checked(On("demo", Write("a"))),
          Checked(On("demo", Read("a"))), Try("a", 6), On("cold", Acquire("a")), End}

Text(c, n) == c \in Seq(Calls) /\ Len(c) = n

Joined(w, s, t, m, n) ==
    /\ Text(w, m + n)
    /\ \A i \in 1..m : w[i] = s[i]
    /\ \A i \in 1..n : w[m + i] = t[i]

LEMMA Join ==
  ASSUME NEW s, NEW t, NEW m \in Nat, NEW n \in Nat, Text(s, m), Text(t, n)
  PROVE  Joined(s \o t, s, t, m, n)
<1>1. s \in Seq(Calls) /\ t \in Seq(Calls) /\ Len(s) = m /\ Len(t) = n
  BY DEF Text
<1>2. /\ s \o t \in Seq(Calls) /\ Len(s \o t) = m + n
      /\ \A i \in 1..(m + n) : (s \o t)[i] = IF i <= m THEN s[i] ELSE t[i - m]
  BY <1>1, ConcatProperties
<1>3. Text(s \o t, m + n)
  BY <1>2 DEF Text
<1> DEFINE w == s \o t
<1>4. \A i \in 1..(m + n) : w[i] = IF i <= m THEN s[i] ELSE t[i - m]
  BY <1>2
<1> HIDE DEF w
<1>5. \A i \in 1..m : w[i] = s[i]
  BY <1>4
<1>6. \A i \in 1..n : w[m + i] = t[i]
  <2> TAKE i \in 1..n
  <2>1. m + i \in 1..(m + n) /\ ~(m + i <= m) /\ m + i - m = i
    OBVIOUS
  <2> QED
    BY <2>1, <1>4
<1> QED
  BY <1>3, <1>5, <1>6 DEF Joined, w

LEMMA EgressVariantCalls ==
  LET c == EgressVariant
  IN  /\ Text(c, 5) /\ c[1] = On("cold", Lease("a")) /\ c[2] = Exec("a")
      /\ c[3] = Exec("a") /\ c[4] = AuditLog("a") /\ c[5] = End
<1> DEFINE s == <<On("cold", Lease("a"))>>
           t == Workload("a")
           u == <<AuditLog("a"), End>>
           w1 == s \o t
           w2 == w1 \o u
<1>1. Text(s, 1)
  BY DEF Calls, Text
<1>2. /\ s[1] = On("cold", Lease("a"))
  BY DEF Calls
<1>3. Text(t, 2)
  BY DEF Calls, Workload, Text
<1>4. /\ t[1] = Exec("a") /\ t[2] = Exec("a")
  BY DEF Calls, Workload
<1>5. Text(u, 2)
  BY DEF Calls, Text
<1>6. /\ u[1] = AuditLog("a") /\ u[2] = End
  BY DEF Calls
<1>7. EgressVariant = w2
  BY DEF EgressVariant
<1> HIDE DEF s, t, u
<1>8. Joined(w1, s, t, 1, 2)
  BY <1>1, <1>3, Join
<1> HIDE DEF w1
<1>9. Text(w1, 3)
  BY <1>8 DEF Joined
<1>10. /\ w1[1] = On("cold", Lease("a")) /\ w1[2] = Exec("a")
      /\ w1[3] = Exec("a")
  BY <1>8, <1>2, <1>4 DEF Joined
<1>11. Joined(w2, w1, u, 3, 2)
  BY <1>9, <1>5, Join
<1> HIDE DEF w2
<1>12. Text(w2, 5)
  BY <1>11 DEF Joined
<1>13. /\ w2[1] = On("cold", Lease("a")) /\ w2[2] = Exec("a")
      /\ w2[3] = Exec("a") /\ w2[4] = AuditLog("a") /\ w2[5] = End
  BY <1>11, <1>10, <1>6 DEF Joined
<1> QED
  BY <1>7, <1>12, <1>13

LEMMA EgressDemoCalls ==
  LET c == EgressDemo
  IN  /\ Text(c, 12) /\ c[1] = Pool({0}) /\ c[2] = On("cold", Lease("a"))
      /\ c[3] = Exec("a") /\ c[4] = Exec("a") /\ c[5] = AuditLog("a")
      /\ c[6] = End /\ c[7] = On("cold", Lease("a")) /\ c[8] = Exec("a")
      /\ c[9] = Exec("a") /\ c[10] = AuditLog("a") /\ c[11] = End
      /\ c[12] = End
<1> DEFINE s == <<Pool({0})>>
           t == EgressVariant
           u == EgressVariant
           x == <<End>>
           w1 == s \o t
           w2 == w1 \o u
           w3 == w2 \o x
<1>1. Text(s, 1)
  BY DEF Calls, Text
<1>2. /\ s[1] = Pool({0})
  BY DEF Calls
<1>3. Text(t, 5)
  BY EgressVariantCalls
<1>4. /\ t[1] = On("cold", Lease("a")) /\ t[2] = Exec("a") /\ t[3] = Exec("a")
      /\ t[4] = AuditLog("a") /\ t[5] = End
  BY EgressVariantCalls
<1>5. Text(u, 5)
  BY EgressVariantCalls
<1>6. /\ u[1] = On("cold", Lease("a")) /\ u[2] = Exec("a") /\ u[3] = Exec("a")
      /\ u[4] = AuditLog("a") /\ u[5] = End
  BY EgressVariantCalls
<1>7. Text(x, 1)
  BY DEF Calls, Text
<1>8. /\ x[1] = End
  BY DEF Calls
<1>9. EgressDemo = w3
  BY DEF EgressDemo
<1> HIDE DEF s, t, u, x
<1>10. Joined(w1, s, t, 1, 5)
  BY <1>1, <1>3, Join
<1> HIDE DEF w1
<1>11. Text(w1, 6)
  BY <1>10 DEF Joined
<1>12. /\ w1[1] = Pool({0}) /\ w1[2] = On("cold", Lease("a"))
      /\ w1[3] = Exec("a") /\ w1[4] = Exec("a") /\ w1[5] = AuditLog("a")
      /\ w1[6] = End
  BY <1>10, <1>2, <1>4 DEF Joined
<1>13. Joined(w2, w1, u, 6, 5)
  BY <1>11, <1>5, Join
<1> HIDE DEF w2
<1>14. Text(w2, 11)
  BY <1>13 DEF Joined
<1>15. /\ w2[1] = Pool({0}) /\ w2[2] = On("cold", Lease("a"))
      /\ w2[3] = Exec("a") /\ w2[4] = Exec("a") /\ w2[5] = AuditLog("a")
      /\ w2[6] = End /\ w2[7] = On("cold", Lease("a")) /\ w2[8] = Exec("a")
      /\ w2[9] = Exec("a") /\ w2[10] = AuditLog("a") /\ w2[11] = End
  BY <1>13, <1>12, <1>6 DEF Joined
<1>16. Joined(w3, w2, x, 11, 1)
  BY <1>14, <1>7, Join
<1> HIDE DEF w3
<1>17. Text(w3, 12)
  BY <1>16 DEF Joined
<1>18. /\ w3[1] = Pool({0}) /\ w3[2] = On("cold", Lease("a"))
      /\ w3[3] = Exec("a") /\ w3[4] = Exec("a") /\ w3[5] = AuditLog("a")
      /\ w3[6] = End /\ w3[7] = On("cold", Lease("a")) /\ w3[8] = Exec("a")
      /\ w3[9] = Exec("a") /\ w3[10] = AuditLog("a") /\ w3[11] = End
      /\ w3[12] = End
  BY <1>16, <1>15, <1>8 DEF Joined
<1> QED
  BY <1>9, <1>17, <1>18

LEMMA EgressDemoText ==
  LET c == Code("egress_demo")
  IN  /\ Len(c) = 12 /\ Word(c[1], "pool", NoName) /\ Word(c[2], "lease", "a")
      /\ Word(c[3], "exec", "a") /\ Word(c[4], "exec", "a")
      /\ Word(c[5], "exec", "a") /\ Word(c[6], "end", NoName)
      /\ Word(c[7], "lease", "a") /\ Word(c[8], "exec", "a")
      /\ Word(c[9], "exec", "a") /\ Word(c[10], "exec", "a")
      /\ Word(c[11], "end", NoName) /\ Word(c[12], "end", NoName)
BY EgressDemoCalls, Words, FixedSizes DEF Text, Code, AuditLog

LEMMA EgressDemoFits == Sound("egress_demo")
<1> DEFINE c == Code("egress_demo")
           n == Nest("egress_demo")
           d == Depth("egress_demo")
           At(i) == Fits("egress_demo", i, c[i], n, d[i], d[i + 1])
<1>1. /\ Len(n) = 2 /\ n[1] = Block("pool", NoName)
      /\ n[2] = Block("lease", "a")
  BY DEF Nest, Leasing
<1>2. /\ d[1] = 0 /\ d[2] = 1 /\ d[3] = 2 /\ d[4] = 2 /\ d[5] = 2 /\ d[6] = 2
      /\ d[7] = 1 /\ d[8] = 2 /\ d[9] = 2 /\ d[10] = 2 /\ d[11] = 2
      /\ d[12] = 1 /\ d[13] = 0
  BY DEF Depth
<1>3. Len(c) = 12
  BY EgressDemoText DEF c
<1>4. \A i, v : Has("egress_demo", i, v) <=> v = "a" /\ d[i] = Len(n)
  BY DEF Has
<1> HIDE DEF c, d, n
<1> USE DEF Word, Fits, Entering, Block, Getting, Using, Plain, Caught, Variables
<1>5. At(1) /\ At(2) /\ At(3)
  BY EgressDemoText, <1>1, <1>2, <1>4 DEF c
<1>6. At(4) /\ At(5) /\ At(6)
  BY EgressDemoText, <1>1, <1>2, <1>4 DEF c
<1>7. At(7) /\ At(8) /\ At(9)
  BY EgressDemoText, <1>1, <1>2, <1>4 DEF c
<1>8. At(10) /\ At(11) /\ At(12)
  BY EgressDemoText, <1>1, <1>2, <1>4 DEF c
<1> HIDE DEF At, Fits, Word
<1>9. \A i \in 1..12 : At(i)
  BY <1>5, <1>6, <1>7, <1>8
<1>10. \A v \in Variables : ~Has("egress_demo", 1, v)
  BY <1>1, <1>2, <1>4
<1>11. Shaped("egress_demo", n)
  BY <1>1 DEF Shaped, Entering, Block, Variables
<1>12. Len(c) \in Nat \ {0} /\ d[1] = 0 /\ d[Len(c) + 1] = 0
  BY <1>2, <1>3
<1>13. \A i \in 1..Len(c) : At(i)
  BY <1>3, <1>9
<1> QED
  BY <1>10, <1>11, <1>12, <1>13 DEF At, Sound, Fitting, c, d, n

LEMMA WriteTurnCalls ==
  LET c == WriteTurn
  IN  /\ Text(c, 6) /\ c[1] = Pool({0}) /\ c[2] = Ensure("demo")
      /\ c[3] = On("demo", Lease("a"))
      /\ c[4] = Checked(On("demo", Write("a"))) /\ c[5] = End /\ c[6] = End
<1> DEFINE s == <<Pool({0})>>
           t == <<Ensure("demo")>>
           u == <<On("demo", Lease("a"))>>
           x == <<Checked(On("demo", Write("a")))>>
           y == <<End, End>>
           w1 == s \o t
           w2 == w1 \o u
           w3 == w2 \o x
           w4 == w3 \o y
<1>1. Text(s, 1)
  BY DEF Calls, Text
<1>2. /\ s[1] = Pool({0})
  BY DEF Calls
<1>3. Text(t, 1)
  BY DEF Calls, Text
<1>4. /\ t[1] = Ensure("demo")
  BY DEF Calls
<1>5. Text(u, 1)
  BY DEF Calls, Text
<1>6. /\ u[1] = On("demo", Lease("a"))
  BY DEF Calls
<1>7. Text(x, 1)
  BY DEF Calls, Text
<1>8. /\ x[1] = Checked(On("demo", Write("a")))
  BY DEF Calls
<1>9. Text(y, 2)
  BY DEF Calls, Text
<1>10. /\ y[1] = End /\ y[2] = End
  BY DEF Calls
<1>11. WriteTurn = w4
  BY DEF WriteTurn, Turn
<1> HIDE DEF s, t, u, x, y
<1>12. Joined(w1, s, t, 1, 1)
  BY <1>1, <1>3, Join
<1> HIDE DEF w1
<1>13. Text(w1, 2)
  BY <1>12 DEF Joined
<1>14. /\ w1[1] = Pool({0}) /\ w1[2] = Ensure("demo")
  BY <1>12, <1>2, <1>4 DEF Joined
<1>15. Joined(w2, w1, u, 2, 1)
  BY <1>13, <1>5, Join
<1> HIDE DEF w2
<1>16. Text(w2, 3)
  BY <1>15 DEF Joined
<1>17. /\ w2[1] = Pool({0}) /\ w2[2] = Ensure("demo")
      /\ w2[3] = On("demo", Lease("a"))
  BY <1>15, <1>14, <1>6 DEF Joined
<1>18. Joined(w3, w2, x, 3, 1)
  BY <1>16, <1>7, Join
<1> HIDE DEF w3
<1>19. Text(w3, 4)
  BY <1>18 DEF Joined
<1>20. /\ w3[1] = Pool({0}) /\ w3[2] = Ensure("demo")
      /\ w3[3] = On("demo", Lease("a"))
      /\ w3[4] = Checked(On("demo", Write("a")))
  BY <1>18, <1>17, <1>8 DEF Joined
<1>21. Joined(w4, w3, y, 4, 2)
  BY <1>19, <1>9, Join
<1> HIDE DEF w4
<1>22. Text(w4, 6)
  BY <1>21 DEF Joined
<1>23. /\ w4[1] = Pool({0}) /\ w4[2] = Ensure("demo")
      /\ w4[3] = On("demo", Lease("a"))
      /\ w4[4] = Checked(On("demo", Write("a"))) /\ w4[5] = End /\ w4[6] = End
  BY <1>21, <1>20, <1>10 DEF Joined
<1> QED
  BY <1>11, <1>22, <1>23

LEMMA WriteTurnText ==
  LET c == Code("write")
  IN  /\ Len(c) = 6 /\ Word(c[1], "pool", NoName)
      /\ Word(c[2], "ensure", NoName) /\ Word(c[3], "lease", "a")
      /\ Word(c[4], "write", "a") /\ Word(c[5], "end", NoName)
      /\ Word(c[6], "end", NoName)
BY WriteTurnCalls, Words, FixedSizes DEF Text, Code

LEMMA WriteTurnFits == Sound("write")
<1> DEFINE c == Code("write")
           n == Nest("write")
           d == Depth("write")
           At(i) == Fits("write", i, c[i], n, d[i], d[i + 1])
<1>1. /\ Len(n) = 2 /\ n[1] = Block("pool", NoName)
      /\ n[2] = Block("lease", "a")
  BY DEF Nest, Leasing
<1>2. /\ d[1] = 0 /\ d[2] = 1 /\ d[3] = 1 /\ d[4] = 2 /\ d[5] = 2 /\ d[6] = 1
      /\ d[7] = 0
  BY DEF Depth
<1>3. Len(c) = 6
  BY WriteTurnText DEF c
<1>4. \A i, v : Has("write", i, v) <=> v = "a" /\ d[i] = Len(n)
  BY DEF Has
<1> HIDE DEF c, d, n
<1> USE DEF Word, Fits, Entering, Block, Getting, Using, Plain, Caught, Variables
<1>5. At(1) /\ At(2) /\ At(3)
  BY WriteTurnText, <1>1, <1>2, <1>4 DEF c
<1>6. At(4) /\ At(5) /\ At(6)
  BY WriteTurnText, <1>1, <1>2, <1>4 DEF c
<1> HIDE DEF At, Fits, Word
<1>7. \A i \in 1..6 : At(i)
  BY <1>5, <1>6
<1>8. \A v \in Variables : ~Has("write", 1, v)
  BY <1>1, <1>2, <1>4
<1>9. Shaped("write", n)
  BY <1>1 DEF Shaped, Entering, Block, Variables
<1>10. Len(c) \in Nat \ {0} /\ d[1] = 0 /\ d[Len(c) + 1] = 0
  BY <1>2, <1>3
<1>11. \A i \in 1..Len(c) : At(i)
  BY <1>3, <1>7
<1> QED
  BY <1>8, <1>9, <1>10, <1>11 DEF At, Sound, Fitting, c, d, n

LEMMA ReadTurnCalls ==
  LET c == ReadTurn
  IN  /\ Text(c, 5) /\ c[1] = Pool({0}) /\ c[2] = On("demo", Lease("a"))
      /\ c[3] = Checked(On("demo", Read("a"))) /\ c[4] = End /\ c[5] = End
<1> DEFINE s == <<Pool({0})>>
           t == <<>>
           u == <<On("demo", Lease("a"))>>
           x == <<Checked(On("demo", Read("a")))>>
           y == <<End, End>>
           w1 == s \o t
           w2 == w1 \o u
           w3 == w2 \o x
           w4 == w3 \o y
<1>1. Text(s, 1)
  BY DEF Calls, Text
<1>2. /\ s[1] = Pool({0})
  BY DEF Calls
<1>3. Text(t, 0)
  BY DEF Calls, Text
<1>4. Text(u, 1)
  BY DEF Calls, Text
<1>5. /\ u[1] = On("demo", Lease("a"))
  BY DEF Calls
<1>6. Text(x, 1)
  BY DEF Calls, Text
<1>7. /\ x[1] = Checked(On("demo", Read("a")))
  BY DEF Calls
<1>8. Text(y, 2)
  BY DEF Calls, Text
<1>9. /\ y[1] = End /\ y[2] = End
  BY DEF Calls
<1>10. ReadTurn = w4
  BY DEF ReadTurn, Turn
<1> HIDE DEF s, t, u, x, y
<1>11. Joined(w1, s, t, 1, 0)
  BY <1>1, <1>3, Join
<1> HIDE DEF w1
<1>12. Text(w1, 1)
  BY <1>11 DEF Joined
<1>13. /\ w1[1] = Pool({0})
  BY <1>11, <1>2, <1>3 DEF Joined
<1>14. Joined(w2, w1, u, 1, 1)
  BY <1>12, <1>4, Join
<1> HIDE DEF w2
<1>15. Text(w2, 2)
  BY <1>14 DEF Joined
<1>16. /\ w2[1] = Pool({0}) /\ w2[2] = On("demo", Lease("a"))
  BY <1>14, <1>13, <1>5 DEF Joined
<1>17. Joined(w3, w2, x, 2, 1)
  BY <1>15, <1>6, Join
<1> HIDE DEF w3
<1>18. Text(w3, 3)
  BY <1>17 DEF Joined
<1>19. /\ w3[1] = Pool({0}) /\ w3[2] = On("demo", Lease("a"))
      /\ w3[3] = Checked(On("demo", Read("a")))
  BY <1>17, <1>16, <1>7 DEF Joined
<1>20. Joined(w4, w3, y, 3, 2)
  BY <1>18, <1>8, Join
<1> HIDE DEF w4
<1>21. Text(w4, 5)
  BY <1>20 DEF Joined
<1>22. /\ w4[1] = Pool({0}) /\ w4[2] = On("demo", Lease("a"))
      /\ w4[3] = Checked(On("demo", Read("a"))) /\ w4[4] = End /\ w4[5] = End
  BY <1>20, <1>19, <1>9 DEF Joined
<1> QED
  BY <1>10, <1>21, <1>22

LEMMA ReadTurnText ==
  LET c == Code("read")
  IN  /\ Len(c) = 5 /\ Word(c[1], "pool", NoName) /\ Word(c[2], "lease", "a")
      /\ Word(c[3], "read", "a") /\ Word(c[4], "end", NoName)
      /\ Word(c[5], "end", NoName)
BY ReadTurnCalls, Words, FixedSizes DEF Text, Code

LEMMA ReadTurnFits == Sound("read")
<1> DEFINE c == Code("read")
           n == Nest("read")
           d == Depth("read")
           At(i) == Fits("read", i, c[i], n, d[i], d[i + 1])
<1>1. /\ Len(n) = 2 /\ n[1] = Block("pool", NoName)
      /\ n[2] = Block("lease", "a")
  BY DEF Nest, Leasing
<1>2. /\ d[1] = 0 /\ d[2] = 1 /\ d[3] = 2 /\ d[4] = 2 /\ d[5] = 1 /\ d[6] = 0
  BY DEF Depth
<1>3. Len(c) = 5
  BY ReadTurnText DEF c
<1>4. \A i, v : Has("read", i, v) <=> v = "a" /\ d[i] = Len(n)
  BY DEF Has
<1> HIDE DEF c, d, n
<1> USE DEF Word, Fits, Entering, Block, Getting, Using, Plain, Caught, Variables
<1>5. At(1) /\ At(2) /\ At(3)
  BY ReadTurnText, <1>1, <1>2, <1>4 DEF c
<1>6. At(4) /\ At(5)
  BY ReadTurnText, <1>1, <1>2, <1>4 DEF c
<1> HIDE DEF At, Fits, Word
<1>7. \A i \in 1..5 : At(i)
  BY <1>5, <1>6
<1>8. \A v \in Variables : ~Has("read", 1, v)
  BY <1>1, <1>2, <1>4
<1>9. Shaped("read", n)
  BY <1>1 DEF Shaped, Entering, Block, Variables
<1>10. Len(c) \in Nat \ {0} /\ d[1] = 0 /\ d[Len(c) + 1] = 0
  BY <1>2, <1>3
<1>11. \A i \in 1..Len(c) : At(i)
  BY <1>3, <1>7
<1> QED
  BY <1>8, <1>9, <1>10, <1>11 DEF At, Sound, Fitting, c, d, n

LEMMA BothTurnsCalls ==
  LET c == BothTurns
  IN  /\ Text(c, 11) /\ c[1] = Pool({0}) /\ c[2] = Ensure("demo")
      /\ c[3] = On("demo", Lease("a"))
      /\ c[4] = Checked(On("demo", Write("a"))) /\ c[5] = End /\ c[6] = End
      /\ c[7] = Pool({0}) /\ c[8] = On("demo", Lease("a"))
      /\ c[9] = Checked(On("demo", Read("a"))) /\ c[10] = End /\ c[11] = End
<1> DEFINE s == WriteTurn
           t == ReadTurn
           w1 == s \o t
<1>1. Text(s, 6)
  BY WriteTurnCalls
<1>2. /\ s[1] = Pool({0}) /\ s[2] = Ensure("demo")
      /\ s[3] = On("demo", Lease("a"))
      /\ s[4] = Checked(On("demo", Write("a"))) /\ s[5] = End /\ s[6] = End
  BY WriteTurnCalls
<1>3. Text(t, 5)
  BY ReadTurnCalls
<1>4. /\ t[1] = Pool({0}) /\ t[2] = On("demo", Lease("a"))
      /\ t[3] = Checked(On("demo", Read("a"))) /\ t[4] = End /\ t[5] = End
  BY ReadTurnCalls
<1>5. BothTurns = w1
  BY DEF BothTurns
<1> HIDE DEF s, t
<1>6. Joined(w1, s, t, 6, 5)
  BY <1>1, <1>3, Join
<1> HIDE DEF w1
<1>7. Text(w1, 11)
  BY <1>6 DEF Joined
<1>8. /\ w1[1] = Pool({0}) /\ w1[2] = Ensure("demo")
      /\ w1[3] = On("demo", Lease("a"))
      /\ w1[4] = Checked(On("demo", Write("a"))) /\ w1[5] = End /\ w1[6] = End
      /\ w1[7] = Pool({0}) /\ w1[8] = On("demo", Lease("a"))
      /\ w1[9] = Checked(On("demo", Read("a"))) /\ w1[10] = End /\ w1[11] = End
  BY <1>6, <1>2, <1>4 DEF Joined
<1> QED
  BY <1>5, <1>7, <1>8

LEMMA BothTurnsText ==
  LET c == Code("both")
  IN  /\ Len(c) = 11 /\ Word(c[1], "pool", NoName)
      /\ Word(c[2], "ensure", NoName) /\ Word(c[3], "lease", "a")
      /\ Word(c[4], "write", "a") /\ Word(c[5], "end", NoName)
      /\ Word(c[6], "end", NoName) /\ Word(c[7], "pool", NoName)
      /\ Word(c[8], "lease", "a") /\ Word(c[9], "read", "a")
      /\ Word(c[10], "end", NoName) /\ Word(c[11], "end", NoName)
BY BothTurnsCalls, Words, FixedSizes DEF Text, Code

LEMMA BothTurnsFits == Sound("both")
<1> DEFINE c == Code("both")
           n == Nest("both")
           d == Depth("both")
           At(i) == Fits("both", i, c[i], n, d[i], d[i + 1])
<1>1. /\ Len(n) = 2 /\ n[1] = Block("pool", NoName)
      /\ n[2] = Block("lease", "a")
  BY DEF Nest, Leasing
<1>2. /\ d[1] = 0 /\ d[2] = 1 /\ d[3] = 1 /\ d[4] = 2 /\ d[5] = 2 /\ d[6] = 1
      /\ d[7] = 0 /\ d[8] = 1 /\ d[9] = 2 /\ d[10] = 2 /\ d[11] = 1
      /\ d[12] = 0
  BY DEF Depth
<1>3. Len(c) = 11
  BY BothTurnsText DEF c
<1>4. \A i, v : Has("both", i, v) <=> v = "a" /\ d[i] = Len(n)
  BY DEF Has
<1> HIDE DEF c, d, n
<1> USE DEF Word, Fits, Entering, Block, Getting, Using, Plain, Caught, Variables
<1>5. At(1) /\ At(2) /\ At(3)
  BY BothTurnsText, <1>1, <1>2, <1>4 DEF c
<1>6. At(4) /\ At(5) /\ At(6)
  BY BothTurnsText, <1>1, <1>2, <1>4 DEF c
<1>7. At(7) /\ At(8) /\ At(9)
  BY BothTurnsText, <1>1, <1>2, <1>4 DEF c
<1>8. At(10) /\ At(11)
  BY BothTurnsText, <1>1, <1>2, <1>4 DEF c
<1> HIDE DEF At, Fits, Word
<1>9. \A i \in 1..11 : At(i)
  BY <1>5, <1>6, <1>7, <1>8
<1>10. \A v \in Variables : ~Has("both", 1, v)
  BY <1>1, <1>2, <1>4
<1>11. Shaped("both", n)
  BY <1>1 DEF Shaped, Entering, Block, Variables
<1>12. Len(c) \in Nat \ {0} /\ d[1] = 0 /\ d[Len(c) + 1] = 0
  BY <1>2, <1>3
<1>13. \A i \in 1..Len(c) : At(i)
  BY <1>3, <1>9
<1> QED
  BY <1>10, <1>11, <1>12, <1>13 DEF At, Sound, Fitting, c, d, n

LEMMA InstallText ==
  LET c == Code("install")
  IN  /\ Len(c) = 6 /\ Word(c[1], "manager", NoName)
      /\ Word(c[2], "session", "a") /\ Word(c[3], "write", "a")
      /\ Word(c[4], "exec", "a") /\ Word(c[5], "end", NoName)
      /\ Word(c[6], "end", NoName)
BY Words, SizeAssumption DEF Code, Install

LEMMA InstallFits == Sound("install")
<1> DEFINE c == Code("install")
           n == Nest("install")
           d == Depth("install")
           At(i) == Fits("install", i, c[i], n, d[i], d[i + 1])
<1>1. /\ Len(n) = 2 /\ n[1] = Block("manager", NoName)
      /\ n[2] = Block("session", "a")
  BY DEF Nest, Leasing
<1>2. /\ d[1] = 0 /\ d[2] = 1 /\ d[3] = 2 /\ d[4] = 2 /\ d[5] = 2 /\ d[6] = 1
      /\ d[7] = 0
  BY DEF Depth
<1>3. Len(c) = 6
  BY InstallText DEF c
<1>4. \A i, v : Has("install", i, v) <=> v = "a" /\ d[i] = Len(n)
  BY DEF Has
<1> HIDE DEF c, d, n
<1> USE DEF Word, Fits, Entering, Block, Getting, Using, Plain, Caught, Variables
<1>5. At(1) /\ At(2) /\ At(3)
  BY InstallText, <1>1, <1>2, <1>4 DEF c
<1>6. At(4) /\ At(5) /\ At(6)
  BY InstallText, <1>1, <1>2, <1>4 DEF c
<1> HIDE DEF At, Fits, Word
<1>7. \A i \in 1..6 : At(i)
  BY <1>5, <1>6
<1>8. \A v \in Variables : ~Has("install", 1, v)
  BY <1>1, <1>2, <1>4
<1>9. Shaped("install", n)
  BY <1>1 DEF Shaped, Entering, Block, Variables
<1>10. Len(c) \in Nat \ {0} /\ d[1] = 0 /\ d[Len(c) + 1] = 0
  BY <1>2, <1>3
<1>11. \A i \in 1..Len(c) : At(i)
  BY <1>3, <1>7
<1> QED
  BY <1>8, <1>9, <1>10, <1>11 DEF At, Sound, Fitting, c, d, n

LEMMA DiscardTurnText ==
  LET c == Code("discard")
  IN  /\ Len(c) = 3 /\ Word(c[1], "pool", NoName)
      /\ Word(c[2], "discard", NoName) /\ Word(c[3], "end", NoName)
BY Words, SizeAssumption DEF Code, DiscardTurn

LEMMA DiscardTurnFits == Sound("discard")
<1> DEFINE c == Code("discard")
           n == Nest("discard")
           d == Depth("discard")
           At(i) == Fits("discard", i, c[i], n, d[i], d[i + 1])
<1>1. /\ Len(n) = 1 /\ n[1] = Block("pool", NoName)
  BY DEF Nest, Leasing
<1>2. /\ d[1] = 0 /\ d[2] = 1 /\ d[3] = 1 /\ d[4] = 0
  BY DEF Depth
<1>3. Len(c) = 3
  BY DiscardTurnText DEF c
<1>4. \A i, v : ~Has("discard", i, v)
  BY DEF Has
<1> HIDE DEF c, d, n
<1> USE DEF Word, Fits, Entering, Block, Getting, Using, Plain, Caught, Variables
<1>5. At(1) /\ At(2) /\ At(3)
  BY DiscardTurnText, <1>1, <1>2, <1>4 DEF c
<1> HIDE DEF At, Fits, Word
<1>6. \A i \in 1..3 : At(i)
  BY <1>5
<1>7. \A v \in Variables : ~Has("discard", 1, v)
  BY <1>1, <1>2, <1>4
<1>8. Shaped("discard", n)
  BY <1>1 DEF Shaped, Entering, Block, Variables
<1>9. Len(c) \in Nat \ {0} /\ d[1] = 0 /\ d[Len(c) + 1] = 0
  BY <1>2, <1>3
<1>10. \A i \in 1..Len(c) : At(i)
  BY <1>3, <1>6
<1> QED
  BY <1>7, <1>8, <1>9, <1>10 DEF At, Sound, Fitting, c, d, n

LEMMA ConsoleTraceText ==
  LET c == Code("console")
  IN  /\ Len(c) = 7 /\ Word(c[1], "pool", NoName) /\ Word(c[2], "lease", "a")
      /\ Word(c[3], "exec", "a") /\ Word(c[4], "exec", "a")
      /\ Word(c[5], "exec", "a") /\ Word(c[6], "end", NoName)
      /\ Word(c[7], "end", NoName)
BY Words, SizeAssumption DEF Code, ConsoleTrace

LEMMA ConsoleTraceFits == Sound("console")
<1> DEFINE c == Code("console")
           n == Nest("console")
           d == Depth("console")
           At(i) == Fits("console", i, c[i], n, d[i], d[i + 1])
<1>1. /\ Len(n) = 2 /\ n[1] = Block("pool", NoName)
      /\ n[2] = Block("lease", "a")
  BY DEF Nest, Leasing
<1>2. /\ d[1] = 0 /\ d[2] = 1 /\ d[3] = 2 /\ d[4] = 2 /\ d[5] = 2 /\ d[6] = 2
      /\ d[7] = 1 /\ d[8] = 0
  BY DEF Depth
<1>3. Len(c) = 7
  BY ConsoleTraceText DEF c
<1>4. \A i, v : Has("console", i, v) <=> v = "a" /\ d[i] = Len(n)
  BY DEF Has
<1> HIDE DEF c, d, n
<1> USE DEF Word, Fits, Entering, Block, Getting, Using, Plain, Caught, Variables
<1>5. At(1) /\ At(2) /\ At(3)
  BY ConsoleTraceText, <1>1, <1>2, <1>4 DEF c
<1>6. At(4) /\ At(5) /\ At(6)
  BY ConsoleTraceText, <1>1, <1>2, <1>4 DEF c
<1>7. At(7)
  BY ConsoleTraceText, <1>1, <1>2, <1>4 DEF c
<1> HIDE DEF At, Fits, Word
<1>8. \A i \in 1..7 : At(i)
  BY <1>5, <1>6, <1>7
<1>9. \A v \in Variables : ~Has("console", 1, v)
  BY <1>1, <1>2, <1>4
<1>10. Shaped("console", n)
  BY <1>1 DEF Shaped, Entering, Block, Variables
<1>11. Len(c) \in Nat \ {0} /\ d[1] = 0 /\ d[Len(c) + 1] = 0
  BY <1>2, <1>3
<1>12. \A i \in 1..Len(c) : At(i)
  BY <1>3, <1>8
<1> QED
  BY <1>9, <1>10, <1>11, <1>12 DEF At, Sound, Fitting, c, d, n

LEMMA InsightsTraceText ==
  LET c == Code("insights")
  IN  /\ Len(c) = 7 /\ Word(c[1], "pool", NoName) /\ Word(c[2], "lease", "a")
      /\ Word(c[3], "exec", "a") /\ Word(c[4], "exec", "a")
      /\ Word(c[5], "exec", "a") /\ Word(c[6], "end", NoName)
      /\ Word(c[7], "end", NoName)
BY Words, FixedSizes DEF Code, InsightsTrace

LEMMA InsightsTraceFits == Sound("insights")
<1> DEFINE c == Code("insights")
           n == Nest("insights")
           d == Depth("insights")
           At(i) == Fits("insights", i, c[i], n, d[i], d[i + 1])
<1>1. /\ Len(n) = 2 /\ n[1] = Block("pool", NoName)
      /\ n[2] = Block("lease", "a")
  BY DEF Nest, Leasing
<1>2. /\ d[1] = 0 /\ d[2] = 1 /\ d[3] = 2 /\ d[4] = 2 /\ d[5] = 2 /\ d[6] = 2
      /\ d[7] = 1 /\ d[8] = 0
  BY DEF Depth
<1>3. Len(c) = 7
  BY InsightsTraceText DEF c
<1>4. \A i, v : Has("insights", i, v) <=> v = "a" /\ d[i] = Len(n)
  BY DEF Has
<1> HIDE DEF c, d, n
<1> USE DEF Word, Fits, Entering, Block, Getting, Using, Plain, Caught, Variables
<1>5. At(1) /\ At(2) /\ At(3)
  BY InsightsTraceText, <1>1, <1>2, <1>4 DEF c
<1>6. At(4) /\ At(5) /\ At(6)
  BY InsightsTraceText, <1>1, <1>2, <1>4 DEF c
<1>7. At(7)
  BY InsightsTraceText, <1>1, <1>2, <1>4 DEF c
<1> HIDE DEF At, Fits, Word
<1>8. \A i \in 1..7 : At(i)
  BY <1>5, <1>6, <1>7
<1>9. \A v \in Variables : ~Has("insights", 1, v)
  BY <1>1, <1>2, <1>4
<1>10. Shaped("insights", n)
  BY <1>1 DEF Shaped, Entering, Block, Variables
<1>11. Len(c) \in Nat \ {0} /\ d[1] = 0 /\ d[Len(c) + 1] = 0
  BY <1>2, <1>3
<1>12. \A i \in 1..Len(c) : At(i)
  BY <1>3, <1>8
<1> QED
  BY <1>9, <1>10, <1>11, <1>12 DEF At, Sound, Fitting, c, d, n

LEMMA CodeActText ==
  LET c == Code("code_act")
  IN  /\ Len(c) = 7 /\ Word(c[1], "pool", NoName) /\ Word(c[2], "lease", "a")
      /\ Word(c[3], "exec", "a") /\ Word(c[4], "exec", "a")
      /\ Word(c[5], "exec", "a") /\ Word(c[6], "end", NoName)
      /\ Word(c[7], "end", NoName)
BY Words, SizeAssumption DEF Code, CodeAct

LEMMA CodeActFits == Sound("code_act")
<1> DEFINE c == Code("code_act")
           n == Nest("code_act")
           d == Depth("code_act")
           At(i) == Fits("code_act", i, c[i], n, d[i], d[i + 1])
<1>1. /\ Len(n) = 2 /\ n[1] = Block("pool", NoName)
      /\ n[2] = Block("lease", "a")
  BY DEF Nest, Leasing
<1>2. /\ d[1] = 0 /\ d[2] = 1 /\ d[3] = 2 /\ d[4] = 2 /\ d[5] = 2 /\ d[6] = 2
      /\ d[7] = 1 /\ d[8] = 0
  BY DEF Depth
<1>3. Len(c) = 7
  BY CodeActText DEF c
<1>4. \A i, v : Has("code_act", i, v) <=> v = "a" /\ d[i] = Len(n)
  BY DEF Has
<1> HIDE DEF c, d, n
<1> USE DEF Word, Fits, Entering, Block, Getting, Using, Plain, Caught, Variables
<1>5. At(1) /\ At(2) /\ At(3)
  BY CodeActText, <1>1, <1>2, <1>4 DEF c
<1>6. At(4) /\ At(5) /\ At(6)
  BY CodeActText, <1>1, <1>2, <1>4 DEF c
<1>7. At(7)
  BY CodeActText, <1>1, <1>2, <1>4 DEF c
<1> HIDE DEF At, Fits, Word
<1>8. \A i \in 1..7 : At(i)
  BY <1>5, <1>6, <1>7
<1>9. \A v \in Variables : ~Has("code_act", 1, v)
  BY <1>1, <1>2, <1>4
<1>10. Shaped("code_act", n)
  BY <1>1 DEF Shaped, Entering, Block, Variables
<1>11. Len(c) \in Nat \ {0} /\ d[1] = 0 /\ d[Len(c) + 1] = 0
  BY <1>2, <1>3
<1>12. \A i \in 1..Len(c) : At(i)
  BY <1>3, <1>8
<1> QED
  BY <1>9, <1>10, <1>11, <1>12 DEF At, Sound, Fitting, c, d, n

LEMMA IntrospectText ==
  LET c == Code("introspect")
  IN  /\ Len(c) = 13 /\ Word(c[1], "pool", NoName)
      /\ Word(c[2], "acquire", "a") /\ Word(c[3], "write", "a")
      /\ Word(c[4], "exec", "a") /\ Word(c[5], "exec", "a")
      /\ Word(c[6], "snapshot", "a") /\ Word(c[7], "release", "a")
      /\ Word(c[8], "rehydrate", "b") /\ Word(c[9], "track", "b")
      /\ Word(c[10], "exec", "b") /\ Word(c[11], "read", "b")
      /\ Word(c[12], "drop", NoName) /\ Word(c[13], "end", NoName)
BY Words, SizeAssumption DEF Code, Introspect, Battery, SdkDump, MarkerProbe

LEMMA IntrospectFits == Sound("introspect")
<1> DEFINE c == Code("introspect")
           n == Nest("introspect")
           d == Depth("introspect")
           At(i) == Fits("introspect", i, c[i], n, d[i], d[i + 1])
<1>1. /\ Len(n) = 1 /\ n[1] = Block("pool", NoName)
  BY DEF Nest, Leasing
<1>2. /\ d[1] = 0 /\ d[2] = 1 /\ d[3] = 1 /\ d[4] = 1 /\ d[5] = 1 /\ d[6] = 1
      /\ d[7] = 1 /\ d[8] = 1 /\ d[9] = 1 /\ d[10] = 1 /\ d[11] = 1
      /\ d[12] = 1 /\ d[13] = 1 /\ d[14] = 0
  BY DEF Depth
<1>3. Len(c) = 13
  BY IntrospectText DEF c
<1>4. \A i, v : Has("introspect", i, v) <=>
         \/ v = "a" /\ i \in 3..7
         \/ v = "b" /\ i \in 10..13
  BY DEF Has
<1> HIDE DEF c, d, n
<1> USE DEF Word, Fits, Entering, Block, Getting, Using, Plain, Caught, Variables
<1>5. At(1) /\ At(2) /\ At(3)
  BY IntrospectText, <1>1, <1>2, <1>4 DEF c
<1>6. At(4) /\ At(5) /\ At(6)
  BY IntrospectText, <1>1, <1>2, <1>4 DEF c
<1>7. At(7) /\ At(8) /\ At(9)
  BY IntrospectText, <1>1, <1>2, <1>4 DEF c
<1>8. At(10) /\ At(11) /\ At(12)
  BY IntrospectText, <1>1, <1>2, <1>4 DEF c
<1>9. At(13)
  BY IntrospectText, <1>1, <1>2, <1>4 DEF c
<1> HIDE DEF At, Fits, Word
<1>10. \A i \in 1..13 : At(i)
  BY <1>5, <1>6, <1>7, <1>8, <1>9
<1>11. \A v \in Variables : ~Has("introspect", 1, v)
  BY <1>1, <1>2, <1>4
<1>12. Shaped("introspect", n)
  BY <1>1 DEF Shaped, Entering, Block, Variables
<1>13. Len(c) \in Nat \ {0} /\ d[1] = 0 /\ d[Len(c) + 1] = 0
  BY <1>2, <1>3
<1>14. \A i \in 1..Len(c) : At(i)
  BY <1>3, <1>10
<1> QED
  BY <1>11, <1>12, <1>13, <1>14 DEF At, Sound, Fitting, c, d, n

LEMMA AuditVariantCalls ==
  LET c == AuditVariant
  IN  /\ Text(c, 6) /\ c[1] = Try("a", 6) /\ c[2] = On("cold", Acquire("a"))
      /\ c[3] = Exec("a") /\ c[4] = Exec("a") /\ c[5] = Exec("a") /\ c[6] = End
<1> DEFINE s == <<Try("a", 6), On("cold", Acquire("a"))>>
           t == Requests("a")
           u == <<Exec("a"), End>>
           w1 == s \o t
           w2 == w1 \o u
<1>1. Text(s, 2)
  BY DEF Calls, Text
<1>2. /\ s[1] = Try("a", 6) /\ s[2] = On("cold", Acquire("a"))
  BY DEF Calls
<1>3. Text(t, 2)
  BY DEF Calls, Requests, Text
<1>4. /\ t[1] = Exec("a") /\ t[2] = Exec("a")
  BY DEF Calls, Requests
<1>5. Text(u, 2)
  BY DEF Calls, Text
<1>6. /\ u[1] = Exec("a") /\ u[2] = End
  BY DEF Calls
<1>7. AuditVariant = w2
  BY DEF AuditVariant
<1> HIDE DEF s, t, u
<1>8. Joined(w1, s, t, 2, 2)
  BY <1>1, <1>3, Join
<1> HIDE DEF w1
<1>9. Text(w1, 4)
  BY <1>8 DEF Joined
<1>10. /\ w1[1] = Try("a", 6) /\ w1[2] = On("cold", Acquire("a"))
      /\ w1[3] = Exec("a") /\ w1[4] = Exec("a")
  BY <1>8, <1>2, <1>4 DEF Joined
<1>11. Joined(w2, w1, u, 4, 2)
  BY <1>9, <1>5, Join
<1> HIDE DEF w2
<1>12. Text(w2, 6)
  BY <1>11 DEF Joined
<1>13. /\ w2[1] = Try("a", 6) /\ w2[2] = On("cold", Acquire("a"))
      /\ w2[3] = Exec("a") /\ w2[4] = Exec("a") /\ w2[5] = Exec("a")
      /\ w2[6] = End
  BY <1>11, <1>10, <1>6 DEF Joined
<1> QED
  BY <1>7, <1>12, <1>13

LEMMA EgressAuditCalls ==
  LET c == EgressAudit
  IN  /\ Text(c, 14) /\ c[1] = Pool({0}) /\ c[2] = Try("a", 6)
      /\ c[3] = On("cold", Acquire("a")) /\ c[4] = Exec("a")
      /\ c[5] = Exec("a") /\ c[6] = Exec("a") /\ c[7] = End
      /\ c[8] = Try("a", 6) /\ c[9] = On("cold", Acquire("a"))
      /\ c[10] = Exec("a") /\ c[11] = Exec("a") /\ c[12] = Exec("a")
      /\ c[13] = End /\ c[14] = End
<1> DEFINE s == <<Pool({0})>>
           t == AuditVariant
           u == AuditVariant
           x == <<End>>
           w1 == s \o t
           w2 == w1 \o u
           w3 == w2 \o x
<1>1. Text(s, 1)
  BY DEF Calls, Text
<1>2. /\ s[1] = Pool({0})
  BY DEF Calls
<1>3. Text(t, 6)
  BY AuditVariantCalls
<1>4. /\ t[1] = Try("a", 6) /\ t[2] = On("cold", Acquire("a"))
      /\ t[3] = Exec("a") /\ t[4] = Exec("a") /\ t[5] = Exec("a") /\ t[6] = End
  BY AuditVariantCalls
<1>5. Text(u, 6)
  BY AuditVariantCalls
<1>6. /\ u[1] = Try("a", 6) /\ u[2] = On("cold", Acquire("a"))
      /\ u[3] = Exec("a") /\ u[4] = Exec("a") /\ u[5] = Exec("a") /\ u[6] = End
  BY AuditVariantCalls
<1>7. Text(x, 1)
  BY DEF Calls, Text
<1>8. /\ x[1] = End
  BY DEF Calls
<1>9. EgressAudit = w3
  BY DEF EgressAudit
<1> HIDE DEF s, t, u, x
<1>10. Joined(w1, s, t, 1, 6)
  BY <1>1, <1>3, Join
<1> HIDE DEF w1
<1>11. Text(w1, 7)
  BY <1>10 DEF Joined
<1>12. /\ w1[1] = Pool({0}) /\ w1[2] = Try("a", 6)
      /\ w1[3] = On("cold", Acquire("a")) /\ w1[4] = Exec("a")
      /\ w1[5] = Exec("a") /\ w1[6] = Exec("a") /\ w1[7] = End
  BY <1>10, <1>2, <1>4 DEF Joined
<1>13. Joined(w2, w1, u, 7, 6)
  BY <1>11, <1>5, Join
<1> HIDE DEF w2
<1>14. Text(w2, 13)
  BY <1>13 DEF Joined
<1>15. /\ w2[1] = Pool({0}) /\ w2[2] = Try("a", 6)
      /\ w2[3] = On("cold", Acquire("a")) /\ w2[4] = Exec("a")
      /\ w2[5] = Exec("a") /\ w2[6] = Exec("a") /\ w2[7] = End
      /\ w2[8] = Try("a", 6) /\ w2[9] = On("cold", Acquire("a"))
      /\ w2[10] = Exec("a") /\ w2[11] = Exec("a") /\ w2[12] = Exec("a")
      /\ w2[13] = End
  BY <1>13, <1>12, <1>6 DEF Joined
<1>16. Joined(w3, w2, x, 13, 1)
  BY <1>14, <1>7, Join
<1> HIDE DEF w3
<1>17. Text(w3, 14)
  BY <1>16 DEF Joined
<1>18. /\ w3[1] = Pool({0}) /\ w3[2] = Try("a", 6)
      /\ w3[3] = On("cold", Acquire("a")) /\ w3[4] = Exec("a")
      /\ w3[5] = Exec("a") /\ w3[6] = Exec("a") /\ w3[7] = End
      /\ w3[8] = Try("a", 6) /\ w3[9] = On("cold", Acquire("a"))
      /\ w3[10] = Exec("a") /\ w3[11] = Exec("a") /\ w3[12] = Exec("a")
      /\ w3[13] = End /\ w3[14] = End
  BY <1>16, <1>15, <1>8 DEF Joined
<1> QED
  BY <1>9, <1>17, <1>18

LEMMA EgressAuditText ==
  LET c == Code("egress_audit")
  IN  /\ Len(c) = 14 /\ Word(c[1], "pool", NoName) /\ Word(c[2], "try", "a")
      /\ Word(c[3], "acquire", "a") /\ Word(c[4], "exec", "a")
      /\ Word(c[5], "exec", "a") /\ Word(c[6], "exec", "a")
      /\ Word(c[7], "end", NoName) /\ Word(c[8], "try", "a")
      /\ Word(c[9], "acquire", "a") /\ Word(c[10], "exec", "a")
      /\ Word(c[11], "exec", "a") /\ Word(c[12], "exec", "a")
      /\ Word(c[13], "end", NoName) /\ Word(c[14], "end", NoName)
<1>1. /\ Word(Pool({0}), "pool", NoName) /\ Word(Try("a", 6), "try", "a")
      /\ Word(On("cold", Acquire("a")), "acquire", "a")
      /\ Word(Exec("a"), "exec", "a") /\ Word(End, "end", NoName)
  BY Words, FixedSizes
<1> QED
  BY <1>1, EgressAuditCalls DEF Text, Code

LEMMA EgressAuditOver == Code("egress_audit")[2].over = 6 /\ Code("egress_audit")[8].over = 6
<1>1. Try("a", 6).over = 6
  BY Words
<1> QED
  BY <1>1, EgressAuditCalls DEF Code

LEMMA EgressAuditFits == Sound("egress_audit")
<1> DEFINE c == Code("egress_audit")
           n == Nest("egress_audit")
           d == Depth("egress_audit")
           At(i) == Fits("egress_audit", i, c[i], n, d[i], d[i + 1])
<1>1. /\ Len(n) = 2 /\ n[1] = Block("pool", NoName) /\ n[2] = Block("try", "a")
  BY DEF Nest, Leasing
<1>2. /\ d[1] = 0 /\ d[2] = 1 /\ d[3] = 2 /\ d[4] = 2 /\ d[5] = 2 /\ d[6] = 2
      /\ d[7] = 2 /\ d[8] = 1 /\ d[9] = 2 /\ d[10] = 2 /\ d[11] = 2
      /\ d[12] = 2 /\ d[13] = 2 /\ d[14] = 1 /\ d[15] = 0
  BY DEF Depth
<1>3. Len(c) = 14
  BY EgressAuditText DEF c
<1>4. \A i, v : Has("egress_audit", i, v) <=> v = "a" /\ i \in (4..7) \cup (10..13)
  BY DEF Has
<1> HIDE DEF c, d, n
<1> USE DEF Word, Fits, Entering, Block, Getting, Using, Plain, Caught, Variables
<1>5. At(1) /\ At(2) /\ At(3)
  BY EgressAuditText, <1>1, <1>2, <1>4, EgressAuditOver DEF c
<1>6. At(4) /\ At(5) /\ At(6)
  BY EgressAuditText, <1>1, <1>2, <1>4 DEF c
<1>7. At(7) /\ At(8) /\ At(9)
  BY EgressAuditText, <1>1, <1>2, <1>4, EgressAuditOver DEF c
<1>8. At(10) /\ At(11) /\ At(12)
  BY EgressAuditText, <1>1, <1>2, <1>4 DEF c
<1>9. At(13) /\ At(14)
  BY EgressAuditText, <1>1, <1>2, <1>4 DEF c
<1> HIDE DEF At, Fits, Word
<1>10. \A i \in 1..14 : At(i)
  BY <1>5, <1>6, <1>7, <1>8, <1>9
<1>11. \A v \in Variables : ~Has("egress_audit", 1, v)
  BY <1>1, <1>2, <1>4
<1>12. Shaped("egress_audit", n)
  BY <1>1 DEF Shaped, Entering, Block, Variables
<1>13. Len(c) \in Nat \ {0} /\ d[1] = 0 /\ d[Len(c) + 1] = 0
  BY <1>2, <1>3
<1>14. \A i \in 1..Len(c) : At(i)
  BY <1>3, <1>10
<1> QED
  BY <1>11, <1>12, <1>13, <1>14 DEF At, Sound, Fitting, c, d, n

LEMMA VolumeProbeText ==
  LET c == Code("volume_probe")
  IN  /\ Len(c) = 12 /\ Word(c[1], "pool", NoName)
      /\ Word(c[2], "manager", NoName) /\ Word(c[3], "ensure", NoName)
      /\ Word(c[4], "session", "a") /\ Word(c[5], "write", "a")
      /\ Word(c[6], "end", NoName) /\ Word(c[7], "session", "a")
      /\ Word(c[8], "read", "a") /\ Word(c[9], "end", NoName)
      /\ Word(c[10], "discard", NoName) /\ Word(c[11], "end", NoName)
      /\ Word(c[12], "end", NoName)
BY Words, SizeAssumption DEF Code, VolumeProbe

LEMMA VolumeProbeFits == Sound("volume_probe")
<1> DEFINE c == Code("volume_probe")
           n == Nest("volume_probe")
           d == Depth("volume_probe")
           At(i) == Fits("volume_probe", i, c[i], n, d[i], d[i + 1])
<1>1. /\ Len(n) = 3 /\ n[1] = Block("pool", NoName)
      /\ n[2] = Block("manager", NoName) /\ n[3] = Block("session", "a")
  BY DEF Nest, Leasing
<1>2. /\ d[1] = 0 /\ d[2] = 1 /\ d[3] = 2 /\ d[4] = 2 /\ d[5] = 3 /\ d[6] = 3
      /\ d[7] = 2 /\ d[8] = 3 /\ d[9] = 3 /\ d[10] = 2 /\ d[11] = 2
      /\ d[12] = 1 /\ d[13] = 0
  BY DEF Depth
<1>3. Len(c) = 12
  BY VolumeProbeText DEF c
<1>4. \A i, v : Has("volume_probe", i, v) <=> v = "a" /\ d[i] = Len(n)
  BY DEF Has
<1> HIDE DEF c, d, n
<1> USE DEF Word, Fits, Entering, Block, Getting, Using, Plain, Caught, Variables
<1>5. At(1) /\ At(2) /\ At(3)
  BY VolumeProbeText, <1>1, <1>2, <1>4 DEF c
<1>6. At(4) /\ At(5) /\ At(6)
  BY VolumeProbeText, <1>1, <1>2, <1>4 DEF c
<1>7. At(7) /\ At(8) /\ At(9)
  BY VolumeProbeText, <1>1, <1>2, <1>4 DEF c
<1>8. At(10) /\ At(11) /\ At(12)
  BY VolumeProbeText, <1>1, <1>2, <1>4 DEF c
<1> HIDE DEF At, Fits, Word
<1>9. \A i \in 1..12 : At(i)
  BY <1>5, <1>6, <1>7, <1>8
<1>10. \A v \in Variables : ~Has("volume_probe", 1, v)
  BY <1>1, <1>2, <1>4
<1>11. Shaped("volume_probe", n)
  BY <1>1 DEF Shaped, Entering, Block, Variables
<1>12. Len(c) \in Nat \ {0} /\ d[1] = 0 /\ d[Len(c) + 1] = 0
  BY <1>2, <1>3
<1>13. \A i \in 1..Len(c) : At(i)
  BY <1>3, <1>9
<1> QED
  BY <1>10, <1>11, <1>12, <1>13 DEF At, Sound, Fitting, c, d, n

LEMMA AllSound == \A name \in Scripts : Sound(name)
BY WarmPoolFits, EgressDemoFits, WriteTurnFits, ReadTurnFits, BothTurnsFits, InstallFits,
   DiscardTurnFits, ConsoleTraceFits, InsightsTraceFits, CodeActFits, IntrospectFits,
   EgressAuditFits, VolumeProbeFits DEF Scripts

LEMMA NoNameIsNoScript == NoName \notin Scripts /\ NoName \notin Variables
BY DEF NoName, Scripts, Variables

\* What is behind the try blocks of the audit.
LEMMA AuditLanding ==
  /\ Len(Code("egress_audit")) = 14
  /\ \A i \in {8, 14} : Depth("egress_audit")[i] = 1
  /\ \A i \in {8, 14}, v \in Variables : ~Has("egress_audit", i, v)
BY EgressAuditText DEF Depth, Has

-----------------------------------------------------------------------------
(* Where a script is.                                                      *)

\* The blocks entered are the outer ones of the script's, and between calls
\* those the next call is in.
Blocks ==
    /\ frames \in Seq([kind : Entering, v : Variables \cup {NoName}, after : Nat])
    /\ script = NoName => frames = <<>>
    /\ script # NoName =>
          /\ Len(frames) <= Len(Nest(script))
          /\ \A j \in 1..Len(frames) : /\ frames[j].kind = Nest(script)[j].kind
                                       /\ frames[j].v = Nest(script)[j].v
          /\ mode = "call" => Len(frames) = Depth(script)[at]

\* The call behind a try block that was entered.
Landing == \A j \in 1..Len(frames) : frames[j].kind = "try" => frames[j].after \in {8, 14}

Flow ==
    /\ script \in Scripts \cup {NoName} /\ mode \in {"idle", "call", "raise"}
    /\ (mode = "idle") <=> (script = NoName)
    /\ at \in 1..(IF script = NoName THEN 1 ELSE Len(Code(script)) + 1)
    /\ Blocks /\ Landing

\* The tables at the next call.
LEMMA Here ==
  ASSUME Flow, mode = "call", at <= Len(Code(script))
  PROVE  /\ script \in Scripts /\ at \in 1..Len(Code(script))
         /\ Len(Code(script)) \in Nat \ {0} /\ Shaped(script, Nest(script))
         /\ Fits(script, at, I, Nest(script), Len(frames), Depth(script)[at + 1])
<1>1. script \in Scripts /\ at \in Nat /\ at >= 1
  BY NoNameIsNoScript DEF Flow
<1>2. Sound(script)
  BY <1>1, AllSound
<1>3. Len(Code(script)) \in Nat \ {0} /\ Shaped(script, Nest(script)) /\ Fitting(script)
  BY <1>2 DEF Sound
<1>4. at \in 1..Len(Code(script))
  BY <1>1, <1>3
<1>5. Len(frames) = Depth(script)[at]
  BY <1>1, NoNameIsNoScript DEF Flow, Blocks
<1> QED
  BY <1>1, <1>3, <1>4, <1>5 DEF Fitting, I

\* A call that neither enters nor leaves a block.
LEMMA FlowOnward ==
  ASSUME Flow, NEW do, do \notin Entering \cup {"end"}, Call(do), Returns \/ Raises,
         UNCHANGED script
  PROVE  /\ Flow'
         /\ mode' = "call" => at' = at + 1
         /\ mode' \in {"call", "raise"} /\ frames' = frames
<1>1. mode = "call" /\ at <= Len(Code(script)) /\ I.do = do
  BY DEF Call
<1>2. /\ script \in Scripts /\ at \in 1..Len(Code(script)) /\ Len(Code(script)) \in Nat \ {0}
      /\ Fits(script, at, I, Nest(script), Len(frames), Depth(script)[at + 1])
  BY <1>1, Here
<1>3. Depth(script)[at + 1] = Len(frames)
  BY <1>1, <1>2 DEF Fits
<1>4. /\ frames' = frames
      /\ \/ at' = at + 1 /\ mode' = mode
         \/ at' = at /\ mode' = "raise"
  BY DEF Returns, Raises
<1>5. script # NoName
  BY <1>2, NoNameIsNoScript
<1>6. at' \in 1..(Len(Code(script)) + 1)
  BY <1>2, <1>4
<1>7. Blocks'
  BY <1>1, <1>3, <1>4, <1>5 DEF Flow, Blocks
<1>8. Landing'
  BY <1>4 DEF Flow, Landing
<1> QED
  BY <1>1, <1>4, <1>5, <1>6, <1>7, <1>8 DEF Flow

\* A block is entered.
LEMMA FlowEnter ==
  ASSUME Flow, NEW do \in Entering, Call(do), Enter(do), UNCHANGED script
  PROVE  /\ Flow' /\ mode' = "call" /\ at' = at + 1 /\ Len(frames') = Len(frames) + 1
         /\ \A j \in 1..Len(frames) : frames'[j] = frames[j]
         /\ frames'[Len(frames) + 1].kind = do /\ frames'[Len(frames) + 1].v = I.v
<1>1. mode = "call" /\ at <= Len(Code(script)) /\ I.do = do
  BY DEF Call
<1>2. /\ script \in Scripts /\ at \in 1..Len(Code(script)) /\ Len(Code(script)) \in Nat \ {0}
      /\ Shaped(script, Nest(script))
      /\ Fits(script, at, I, Nest(script), Len(frames), Depth(script)[at + 1])
  BY <1>1, Here
<1> DEFINE n == Nest(script)
           d == Len(frames)
           f == [kind |-> do, v |-> I.v, after |-> at + I.over]
<1>3. /\ d + 1 \in 1..Len(n) /\ d \in Nat /\ Len(n) \in Nat
      /\ n[d + 1] = Block(do, I.v) /\ Depth(script)[at + 1] = d + 1
      /\ I.over \in Nat /\ (do = "try" => at + I.over \in {8, 14})
  BY <1>1, <1>2 DEF Fits, Shaped
<1>4. n[d + 1].kind = do /\ n[d + 1].v = I.v
  BY <1>3 DEF Block
<1>5. I.v \in Variables \cup {NoName}
  BY <1>2, <1>3, <1>4 DEF Shaped
<1>6. frames' = Append(frames, f) /\ at' = at + 1 /\ mode' = "call"
  BY <1>1 DEF Enter
<1>7. f \in [kind : Entering, v : Variables \cup {NoName}, after : Nat]
  BY <1>2, <1>3, <1>5
<1>8. frames \in Seq([kind : Entering, v : Variables \cup {NoName}, after : Nat])
  BY DEF Flow, Blocks
<1>9. /\ frames' \in Seq([kind : Entering, v : Variables \cup {NoName}, after : Nat])
      /\ Len(frames') = d + 1 /\ frames'[d + 1] = f
      /\ \A j \in 1..d : frames'[j] = frames[j]
  BY <1>6, <1>7, <1>8, AppendProperties
<1>10. script # NoName
  BY <1>2, NoNameIsNoScript
<1>11. f.kind = do /\ f.v = I.v /\ f.after = at + I.over
  OBVIOUS
<1> HIDE DEF f
<1>12. \A j \in 1..(d + 1) : frames'[j].kind = n[j].kind /\ frames'[j].v = n[j].v
  <2> TAKE j \in 1..(d + 1)
  <2>1. CASE j = d + 1
    BY <2>1, <1>4, <1>9, <1>11
  <2>2. CASE j \in 1..d
    BY <2>2, <1>9, <1>10 DEF Flow, Blocks
  <2> QED
    BY <2>1, <2>2, <1>3
<1>13. Blocks'
  BY <1>3, <1>6, <1>9, <1>10, <1>12 DEF Blocks
<1>14. Landing'
  <2> SUFFICES ASSUME NEW j \in 1..(d + 1), frames'[j].kind = "try"
               PROVE  frames'[j].after \in {8, 14}
    BY <1>9 DEF Landing
  <2>1. CASE j = d + 1
    BY <2>1, <1>3, <1>9, <1>11
  <2>2. CASE j \in 1..d
    BY <2>2, <1>9 DEF Flow, Landing
  <2> QED
    BY <2>1, <2>2, <1>3
<1>15. at' \in 1..(Len(Code(script)) + 1)
  BY <1>2, <1>6
<1>16. Flow'
  BY <1>1, <1>6, <1>10, <1>13, <1>14, <1>15 DEF Flow
<1> QED
  BY <1>6, <1>9, <1>11, <1>16

\* The innermost block, when one is left.
LEMMA Top ==
  ASSUME Flow, NEW kind, Leaving(kind)
  PROVE  LET d == Len(frames)
             n == Nest(script)
         IN  /\ script \in Scripts /\ script # NoName /\ mode \in {"call", "raise"}
             /\ Shaped(script, n) /\ d \in 1..Len(n) /\ Len(n) \in Nat
             /\ F = frames[d] /\ F.kind = kind /\ n[d].kind = kind /\ n[d].v = F.v
             /\ kind = "try" => F.after \in {8, 14} /\ script = "egress_audit" /\ d = 2
             /\ mode = "call" =>
                   /\ at \in 1..Len(Code(script)) /\ Len(Code(script)) \in Nat /\ I.do = "end"
                   /\ Fits(script, at, I, n, d, Depth(script)[at + 1])
                   /\ Depth(script)[at + 1] = d - 1
<1> DEFINE d == Len(frames)
           n == Nest(script)
<1>1. mode \in {"call", "raise"} /\ frames # <<>> /\ frames[d].kind = kind
  BY DEF Leaving, Call
<1>2. script \in Scripts /\ script # NoName
  BY <1>1, NoNameIsNoScript DEF Flow
<1>3. Sound(script)
  BY <1>2, AllSound
<1>4. Shaped(script, n)
  BY <1>3 DEF Sound
<1>5. frames \in Seq([kind : Entering, v : Variables \cup {NoName}, after : Nat])
  BY DEF Flow, Blocks
<1>6. d \in Nat /\ d >= 1
  BY <1>1, <1>5
<1>7. d \in 1..Len(n) /\ Len(n) \in 1..3
  BY <1>2, <1>4, <1>6 DEF Flow, Blocks, Shaped
<1>8. n[d].kind = kind /\ n[d].v = frames[d].v
  BY <1>1, <1>2, <1>6 DEF Flow, Blocks
<1>9. kind = "try" => frames[d].after \in {8, 14} /\ script = "egress_audit"
  BY <1>1, <1>4, <1>6, <1>7, <1>8 DEF Flow, Landing, Shaped
<1>10. kind = "try" => d = 2
  <2> HAVE kind = "try"
  <2>1. d = Len(n)
    BY <1>4, <1>7, <1>8 DEF Shaped
  <2>2. Len(Nest("egress_audit")) = 2
    BY DEF Nest, Leasing
  <2> QED
    BY <2>1, <2>2, <1>9
<1>11. ASSUME mode = "call"
       PROVE  /\ at \in 1..Len(Code(script)) /\ Len(Code(script)) \in Nat /\ I.do = "end"
              /\ Fits(script, at, I, n, d, Depth(script)[at + 1])
  <2>1. at <= Len(Code(script)) /\ I.do = "end"
    BY <1>11 DEF Leaving, Call
  <2> QED
    BY <2>1, <1>11, Here
<1>12. mode = "call" => Depth(script)[at + 1] = d - 1
  BY <1>11, <1>6 DEF Fits
<1> QED
  BY <1>1, <1>2, <1>4, <1>7, <1>8, <1>9, <1>10, <1>11, <1>12 DEF F

\* The innermost block goes.
LEMMA Popped ==
  ASSUME Flow, frames # <<>>, Pop
  PROVE  /\ frames' \in Seq([kind : Entering, v : Variables \cup {NoName}, after : Nat])
         /\ Len(frames') = Len(frames) - 1 /\ Len(frames) \in Nat \ {0}
         /\ \A j \in 1..(Len(frames) - 1) : frames'[j] = frames[j]
<1>1. frames \in Seq([kind : Entering, v : Variables \cup {NoName}, after : Nat])
  BY DEF Flow, Blocks
<1>2. Len(frames) \in Nat \ {0}
  BY <1>1
<1>3. PICK k \in Nat : k = Len(frames) - 1 /\ frames' = SubSeq(frames, 1, k)
  BY <1>2 DEF Pop
<1> DEFINE T == [kind : Entering, v : Variables \cup {NoName}, after : Nat]
<1>0. frames \in Seq(T)
  BY <1>1
<1> HIDE DEF T
<1>4. \A i \in 1..k : frames[i] \in T
  BY <1>0, <1>2, <1>3
<1>5. /\ frames' \in Seq(T) /\ Len(frames') = IF 1 <= k THEN k - 1 + 1 ELSE 0
      /\ \A i \in 1..(k - 1 + 1) : frames'[i] = frames[1 + i - 1]
  BY <1>3, <1>4, SubSeqProperties
<1>6. Len(frames') = k /\ \A i \in 1..k : frames'[i] = frames[i]
  BY <1>5
<1> QED
  BY <1>2, <1>3, <1>5, <1>6 DEF T

LEMMA FlowPopped ==
  ASSUME Flow, NEW kind, Leaving(kind), Pop, UNCHANGED script,
         mode' \in {"call", "raise"}, at' \in 1..(Len(Code(script)) + 1),
         mode' = "call" => Depth(script)[at'] = Len(frames) - 1
  PROVE  Flow'
<1>1. frames # <<>> /\ script \in Scripts /\ script # NoName /\ Len(frames) <= Len(Nest(script))
      /\ Len(Nest(script)) \in Nat
  BY Top DEF Leaving
<1>2. /\ frames' \in Seq([kind : Entering, v : Variables \cup {NoName}, after : Nat])
      /\ Len(frames') = Len(frames) - 1 /\ Len(frames) \in Nat \ {0}
      /\ \A j \in 1..(Len(frames) - 1) : frames'[j] = frames[j]
  BY <1>1, Popped
<1>3. Blocks'
  BY <1>1, <1>2 DEF Flow, Blocks
<1>4. Landing'
  <2> SUFFICES ASSUME NEW j \in 1..(Len(frames) - 1), frames'[j].kind = "try"
               PROVE  frames'[j].after \in {8, 14}
    BY <1>2 DEF Landing
  <2>1. j \in 1..Len(frames) /\ frames'[j] = frames[j]
    BY <1>2
  <2> QED
    BY <2>1 DEF Flow, Landing
<1>5. mode' # "idle" /\ script' # NoName
  BY <1>1
<1> QED
  BY <1>1, <1>3, <1>4, <1>5 DEF Flow

LEMMA FlowLeft ==
  ASSUME Flow, NEW kind, Leaving(kind), NEW raised \in BOOLEAN, Left(raised), UNCHANGED script
  PROVE  /\ Flow' /\ mode' \in {"call", "raise"}
         /\ mode' = "call" => mode = "call" /\ at' = at + 1
<1>1. /\ Pop
      /\ \/ mode' = "raise" /\ at' = at
         \/ mode = "call" /\ mode' = "call" /\ at' = at + 1
  BY Top DEF Left
<1>2. /\ mode = "call" =>
            /\ at \in 1..Len(Code(script)) /\ Len(Code(script)) \in Nat
            /\ Depth(script)[at + 1] = Len(frames) - 1
      /\ script # NoName
  BY Top
<1>3. at' \in 1..(Len(Code(script)) + 1)
  BY <1>1, <1>2 DEF Flow
<1>4. mode' \in {"call", "raise"} /\ (mode' = "call" => Depth(script)[at'] = Len(frames) - 1)
  BY <1>1, <1>2
<1>5. Flow'
  BY <1>1, <1>3, <1>4, FlowPopped
<1> QED
  BY <1>1, <1>5

LEMMA FlowTried ==
  ASSUME Flow, Leaving("try"), Pop, mode' = "call", at' = F.after, UNCHANGED script
  PROVE  /\ Flow' /\ script = "egress_audit" /\ Len(frames) = 2 /\ Len(frames') = 1
         /\ \A v \in Variables : ~Has(script, at', v)
<1>1. script = "egress_audit" /\ at' \in {8, 14} /\ Len(frames) = 2 /\ frames # <<>>
  BY Top DEF Leaving
<1>2. at' \in 1..(Len(Code(script)) + 1)
  <2>1. Len(Code(script)) = 14
    BY <1>1, AuditLanding
  <2> QED
    BY <2>1, <1>1
<1>5. Depth(script)[at'] = Len(frames) - 1
  <2>1. Depth("egress_audit")[at'] = 1
    BY <1>1, AuditLanding
  <2> QED
    BY <2>1, <1>1
<1>3. Flow'
  BY <1>2, <1>5, FlowPopped
<1>4. Len(frames') = 1
  BY <1>1, Popped
<1> QED
  BY <1>1, <1>3, <1>4, AuditLanding

\* A block that is not entered, for an exception.
LEMMA FlowBarred ==
  ASSUME Flow, NEW do \in Entering, Call(do), Raises, UNCHANGED script
  PROVE  Flow' /\ mode' = "raise" /\ frames' = frames
<1>1. mode = "call" /\ at <= Len(Code(script)) /\ I.do = do
  BY DEF Call
<1>2. script \in Scripts /\ Fits(script, at, I, Nest(script), Len(frames), Depth(script)[at + 1])
  BY <1>1, Here
<1>3. ~I.quiet
  BY <1>1, <1>2 DEF Fits, Caught, Entering
<1>4. mode' = "raise" /\ at' = at /\ frames' = frames
  BY <1>3 DEF Raises
<1>5. script # NoName
  BY <1>2, NoNameIsNoScript
<1> QED
  BY <1>1, <1>4, <1>5 DEF Flow, Blocks, Landing

LEMMA FlowKept ==
  ASSUME Flow, UNCHANGED <<script, control>>
  PROVE  Flow'
BY DEF Flow, Blocks, Landing, control

LEMMA Idle ==
  ASSUME Flow, mode = "idle"
  PROVE  script = NoName /\ frames = <<>> /\ Len(frames) = 0
BY DEF Flow, Blocks

LEMMA FlowStart ==
  ASSUME Flow, NEW name \in Scripts, Start(name)
  PROVE  /\ Flow' /\ script = NoName /\ frames = <<>> /\ frames' = <<>>
         /\ \A v \in Variables : ~Has(name, 1, v)
<1>1. script' = name /\ at' = 1 /\ mode' = "call" /\ frames' = frames /\ mode = "idle"
  BY DEF Start
<1>2. script = NoName /\ frames = <<>> /\ Len(frames) = 0
  BY <1>1, Idle
<1>3. Sound(name)
  BY AllSound
<1>4. /\ Len(Code(name)) \in Nat \ {0} /\ Depth(name)[1] = 0 /\ Len(Nest(name)) \in 1..3
      /\ \A v \in Variables : ~Has(name, 1, v)
  BY <1>3 DEF Sound, Shaped
<1>5. name # NoName
  BY NoNameIsNoScript
<1>6. Blocks'
  BY <1>1, <1>2, <1>4, <1>5 DEF Blocks
<1>7. Landing'
  BY <1>1, <1>2 DEF Landing
<1> QED
  BY <1>1, <1>2, <1>4, <1>5, <1>6, <1>7 DEF Flow

LEMMA FlowFinish ==
  ASSUME Flow, Finish
  PROVE  Flow' /\ frames = <<>> /\ frames' = <<>> /\ mode' = "idle" /\ script' = NoName
<1>1. /\ mode' = "idle" /\ at' = 1 /\ script' = NoName /\ frames' = frames
      /\ \/ mode = "call" /\ at > Len(Code(script))
         \/ mode = "raise" /\ frames = <<>>
  BY DEF Finish
<1>2. frames = <<>>
  <2> SUFFICES ASSUME mode = "call", at > Len(Code(script))
               PROVE  frames = <<>>
    BY <1>1
  <2>1. script \in Scripts /\ script # NoName
    BY NoNameIsNoScript DEF Flow
  <2>2. Sound(script)
    BY <2>1, AllSound
  <2>3. Len(Code(script)) \in Nat /\ Depth(script)[Len(Code(script)) + 1] = 0
    BY <2>2 DEF Sound
  <2>4. at = Len(Code(script)) + 1
    BY <2>1, <2>3 DEF Flow
  <2>5. Len(frames) = 0 /\ frames \in Seq([kind : Entering, v : Variables \cup {NoName}, after : Nat])
    BY <2>1, <2>3, <2>4 DEF Flow, Blocks
  <2> QED
    BY <2>5
<1>3. Blocks' /\ Landing'
  BY <1>1, <1>2 DEF Blocks, Landing
<1> QED
  BY <1>1, <1>2, <1>3 DEF Flow

LEMMA FlowInit == Init => Flow
<1> SUFFICES ASSUME Init PROVE Flow
  OBVIOUS
<1>1. script = NoName /\ at = 1 /\ mode = "idle" /\ frames = <<>>
  BY DEF Init
<1>2. Blocks /\ Landing
  BY <1>1 DEF Blocks, Landing
<1> QED
  BY <1>1, <1>2 DEF Flow

LEMMA FlowNext == Flow /\ [Next]_vars => Flow'
<1> SUFFICES ASSUME Flow, [Next]_vars PROVE Flow'
  OBVIOUS
<1> USE DEF fixed
<1>1. ASSUME NEW name \in Scripts, Start(name) PROVE Flow'
  BY <1>1, FlowStart
<1>2. CASE Finish
  BY <1>2, FlowFinish
<1>3. CASE OpenPool
  <2>1. PICK do \in {"pool", "manager"} : Call(do)
    BY <1>3 DEF OpenPool
  <2>2. do \in Entering /\ I.do = do
    BY <2>1 DEF Entering, Call
  <2>3. Enter(do) \/ Raises
    BY <1>3, <2>2 DEF OpenPool
  <2> QED
    BY <1>3, <2>1, <2>2, <2>3, FlowEnter, FlowBarred DEF OpenPool
<1>4. CASE Warmer
  BY <1>4, FlowKept DEF Warmer
<1>5. CASE WaitForWarm
  BY <1>5, FlowOnward DEF WaitForWarm, Entering
<1>6. CASE EnsureVolume
  BY <1>6, FlowOnward DEF EnsureVolume, Entering
<1>7. CASE AcquireOne
  <2>1. CASE Call("acquire")
    <3>1. I.do # "lease"
      BY <2>1 DEF Call
    <3>2. Returns \/ Raises
      BY <1>7, <3>1 DEF AcquireOne
    <3> QED
      BY <1>7, <2>1, <3>2, FlowOnward DEF AcquireOne, Entering
  <2>2. CASE Call("lease")
    <3>1. I.do = "lease" /\ "lease" \in Entering
      BY <2>2 DEF Call, Entering
    <3>2. Enter("lease") \/ Raises
      BY <1>7, <3>1 DEF AcquireOne
    <3> QED
      BY <1>7, <2>2, <3>1, <3>2, FlowEnter, FlowBarred DEF AcquireOne
  <2> QED
    BY <1>7, <2>1, <2>2 DEF AcquireOne
<1>8. CASE ReleaseOne
  BY <1>8, FlowOnward DEF ReleaseOne, Entering
<1>9. CASE RehydrateOne
  BY <1>9, FlowOnward DEF RehydrateOne, Entering
<1>10. CASE TrackOne
  BY <1>10, FlowOnward DEF TrackOne, Entering
<1>11. CASE TakeSnapshot
  BY <1>11, FlowOnward DEF TakeSnapshot, Entering
<1>12. CASE DropSnapshot
  BY <1>12, FlowOnward DEF DropSnapshot, Entering
<1>13. CASE ExecOne
  BY <1>13, FlowOnward DEF ExecOne, Entering
<1>14. CASE WriteOne
  BY <1>14, FlowOnward DEF WriteOne, Entering
<1>15. CASE ReadOne
  BY <1>15, FlowOnward DEF ReadOne, Entering
<1>16. CASE OpenSession
  <2>1. Call("session") /\ "session" \in Entering /\ (Enter("session") \/ Raises)
    BY <1>16 DEF OpenSession, Entering
  <2> QED
    BY <1>16, <2>1, FlowEnter, FlowBarred DEF OpenSession
<1>17. CASE DiscardOne
  BY <1>17, FlowOnward DEF DiscardOne, Entering
<1>18. CASE EnterTry
  <2>1. Call("try") /\ "try" \in Entering /\ Enter("try")
    BY <1>18 DEF EnterTry, Entering
  <2> QED
    BY <1>18, <2>1, FlowEnter DEF EnterTry
<1>19. CASE LeaveLease
  BY <1>19, FlowLeft DEF LeaveLease
<1>20. CASE LeaveTry
  BY <1>20, FlowTried DEF LeaveTry
<1>21. CASE LeaveSession
  BY <1>21, FlowLeft DEF LeaveSession
<1>22. CASE LeaveManagerLive
  BY <1>22, FlowKept DEF LeaveManagerLive
<1>23. CASE LeavePool
  BY <1>23, FlowLeft DEF LeavePool
<1>24. CASE UNCHANGED vars
  BY <1>24, FlowKept DEF vars, control
<1> QED
  BY <1>1, <1>2, <1>3, <1>4, <1>5, <1>6, <1>7, <1>8, <1>9, <1>10, <1>11, <1>12, <1>13,
     <1>14, <1>15, <1>16, <1>17, <1>18, <1>19, <1>20, <1>21, <1>22, <1>23, <1>24 DEF Next

\* A script's calls and blocks are those of the tables.
THEOREM FlowAlways == Spec => []Flow
<1> QED
  BY FlowInit, FlowNext, PTL DEF Spec

-----------------------------------------------------------------------------
(* The stock of sandboxes: m made, D on the service, A in _active, S astray,*)
(* W queued, U made but not in _active yet.                                 *)

StockIs(m, D, A, S, W, U) ==
    /\ m \in Nat /\ D \subseteq 1..m
    /\ A \subseteq D /\ S \subseteq D \ A
    /\ D \subseteq A \cup S \cup U /\ U \subseteq D \ (A \cup S)
    /\ W \in Seq(A)
    /\ \A i, j \in 1..Len(W) : W[i] = W[j] => i = j

\* What is handed out: in _active and not queued.
Rented(A, W) == {s \in A : \A i \in 1..Len(W) : W[i] # s}

LEMMA StockLost ==
  ASSUME NEW m, NEW D, NEW A, NEW S, NEW W, NEW U, StockIs(m, D, A, S, W, U)
  PROVE  StockIs(m + 1, D \cup {m + 1}, A, S \cup {m + 1}, W, U)
<1>1. m \in Nat /\ m + 1 \notin 1..m /\ m + 1 \in Nat /\ 1..m \subseteq 1..(m + 1)
  BY DEF StockIs
<1> QED
  BY <1>1 DEF StockIs

LEMMA StockMade ==
  ASSUME NEW m, NEW D, NEW A, NEW S, NEW W, NEW U, StockIs(m, D, A, S, W, U)
  PROVE  /\ StockIs(m + 1, D \cup {m + 1}, A \cup {m + 1}, S, W, U)
         /\ Rented(A \cup {m + 1}, W) = Rented(A, W) \cup {m + 1}
         /\ m + 1 \notin Rented(A, W)
<1>1. m \in Nat /\ m + 1 \notin 1..m /\ m + 1 \in Nat /\ 1..m \subseteq 1..(m + 1)
  BY DEF StockIs
<1>2. W \in Seq(A \cup {m + 1}) /\ \A i \in 1..Len(W) : W[i] \in A
  BY DEF StockIs
<1>3. A \subseteq 1..m
  BY DEF StockIs
<1>4. StockIs(m + 1, D \cup {m + 1}, A \cup {m + 1}, S, W, U)
  BY <1>1, <1>2 DEF StockIs
<1>5. Rented(A \cup {m + 1}, W) = Rented(A, W) \cup {m + 1} /\ m + 1 \notin Rented(A, W)
  BY <1>1, <1>2, <1>3 DEF Rented
<1> QED
  BY <1>4, <1>5

LEMMA StockWarmed ==
  ASSUME NEW m, NEW D, NEW A, NEW S, NEW W, NEW U, StockIs(m, D, A, S, W, U)
  PROVE  /\ StockIs(m + 1, D \cup {m + 1}, A \cup {m + 1}, S, Append(W, m + 1), U)
         /\ Rented(A \cup {m + 1}, Append(W, m + 1)) = Rented(A, W)
<1>1. m \in Nat /\ m + 1 \notin 1..m /\ m + 1 \in Nat /\ 1..m \subseteq 1..(m + 1)
  BY DEF StockIs
<1>2. W \in Seq(A \cup {m + 1}) /\ W \in Seq(A) /\ A \subseteq 1..m
  BY DEF StockIs
<1> DEFINE V == Append(W, m + 1)
<1>3. /\ V \in Seq(A \cup {m + 1}) /\ Len(V) = Len(W) + 1 /\ V[Len(W) + 1] = m + 1
      /\ \A i \in 1..Len(W) : V[i] = W[i]
  BY <1>2, AppendProperties
<1>4. Len(W) \in Nat /\ \A i \in 1..Len(W) : W[i] \in A
  BY <1>2
<1> HIDE DEF V
<1>5. \A i \in 1..Len(V) : (i \in 1..Len(W) /\ V[i] = W[i]) \/ (i = Len(W) + 1 /\ V[i] = m + 1)
  BY <1>3, <1>4
<1>6. \A i, j \in 1..Len(V) : V[i] = V[j] => i = j
  <2> TAKE i, j \in 1..Len(V)
  <2> HAVE V[i] = V[j]
  <2>1. CASE i \in 1..Len(W) /\ j \in 1..Len(W)
    BY <2>1, <1>3 DEF StockIs
  <2>2. CASE i = Len(W) + 1 \/ j = Len(W) + 1
    BY <2>2, <1>1, <1>2, <1>3, <1>4, <1>5
  <2> QED
    BY <2>1, <2>2, <1>5
<1>7. StockIs(m + 1, D \cup {m + 1}, A \cup {m + 1}, S, V, U)
  BY <1>1, <1>3, <1>6 DEF StockIs
<1>8. Rented(A \cup {m + 1}, V) = Rented(A, W)
  BY <1>1, <1>2, <1>3, <1>4, <1>5 DEF Rented
<1> QED
  BY <1>7, <1>8 DEF V

LEMMA StockTaken ==
  ASSUME NEW m, NEW D, NEW A, NEW S, NEW W, NEW U, StockIs(m, D, A, S, W, U), W # <<>>
  PROVE  /\ StockIs(m, D, A, S, Tail(W), U)
         /\ Rented(A, Tail(W)) = Rented(A, W) \cup {Head(W)}
         /\ Head(W) \notin Rented(A, W) /\ Head(W) \in 1..m
<1>1. W \in Seq(A) /\ A \subseteq 1..m
  BY DEF StockIs
<1> DEFINE V == Tail(W)
<1>2. /\ Len(W) \in Nat \ {0} /\ Head(W) = W[1] /\ W[1] \in A
      /\ V \in Seq(A) /\ Len(V) = Len(W) - 1 /\ \A i \in 1..Len(V) : V[i] = W[i + 1]
  BY <1>1
<1> HIDE DEF V
<1>3. \A i \in 1..Len(V) : i + 1 \in 1..Len(W) /\ i + 1 # 1
  BY <1>2
<1>4. \A i \in 1..Len(W) : i = 1 \/ (i - 1 \in 1..Len(V) /\ i - 1 + 1 = i)
  BY <1>2
<1>5. \A i, j \in 1..Len(V) : V[i] = V[j] => i = j
  <2> TAKE i, j \in 1..Len(V)
  <2> HAVE V[i] = V[j]
  <2>1. W[i + 1] = W[j + 1] /\ i + 1 \in 1..Len(W) /\ j + 1 \in 1..Len(W)
    BY <1>2, <1>3
  <2>2. i + 1 = j + 1
    BY <2>1 DEF StockIs
  <2> QED
    BY <2>2
<1>6. StockIs(m, D, A, S, V, U)
  BY <1>2, <1>5 DEF StockIs
<1>7. \A i \in 1..Len(V) : V[i] # W[1]
  <2> TAKE i \in 1..Len(V)
  <2>1. V[i] = W[i + 1] /\ i + 1 \in 1..Len(W) /\ 1 \in 1..Len(W) /\ i + 1 # 1
    BY <1>2, <1>3
  <2> QED
    BY <2>1 DEF StockIs
<1>8. \A s \in A : (\A i \in 1..Len(V) : V[i] # s) <=> (s = W[1] \/ \A i \in 1..Len(W) : W[i] # s)
  <2> TAKE s \in A
  <2>1. ASSUME \A i \in 1..Len(V) : V[i] # s, s # W[1]
        PROVE  \A i \in 1..Len(W) : W[i] # s
    <3> TAKE i \in 1..Len(W)
    <3>1. CASE i = 1
      BY <3>1, <2>1
    <3>2. CASE i - 1 \in 1..Len(V) /\ i - 1 + 1 = i
      <4>1. V[i - 1] = W[i]
        BY <3>2, <1>2
      <4> QED
        BY <4>1, <3>2, <2>1
    <3> QED
      BY <3>1, <3>2, <1>4
  <2>2. ASSUME \A i \in 1..Len(W) : W[i] # s
        PROVE  \A i \in 1..Len(V) : V[i] # s
    BY <2>2, <1>2, <1>3
  <2> QED
    BY <2>1, <2>2, <1>7
<1>9. W[1] \notin Rented(A, W)
  BY <1>2 DEF Rented
<1>10. Rented(A, V) = Rented(A, W) \cup {W[1]}
  BY <1>2, <1>8 DEF Rented
<1> QED
  BY <1>1, <1>2, <1>6, <1>9, <1>10 DEF V

\* Sandbox b, handed out, is given up: deleted, or astray.
LEMMA StockGiven ==
  ASSUME NEW m, NEW D, NEW A, NEW S, NEW W, NEW U, StockIs(m, D, A, S, W, U),
         NEW b, b \in Rented(A, W) \/ b = 0, NEW T, T = {b} \cap D
  PROVE  /\ StockIs(m, D \ {b}, A \ {b}, S, W, U)
         /\ StockIs(m, D, A \ {b}, S \cup T, W, U)
<1>1. W \in Seq(A) /\ m \in Nat /\ \A i \in 1..Len(W) : W[i] \in A
  BY DEF StockIs
<1>2. b \in Rented(A, W) \/ (b \notin A /\ b \notin D)
  BY DEF StockIs
<1>3. \A i \in 1..Len(W) : W[i] \in A \ {b}
  BY <1>1, <1>2 DEF Rented
<1>4. W \in Seq(A \ {b})
  BY <1>1, <1>3
<1> QED
  BY <1>2, <1>4 DEF StockIs, Rented

LEMMA StockCleared ==
  ASSUME NEW m, NEW D, NEW A, NEW S, NEW W, StockIs(m, D, A, S, W, {}), NEW T \in SUBSET A
  PROVE  /\ StockIs(m, D \ (A \ T), {}, S \cup (T \cap D), <<>>, {})
         /\ Rented({}, <<>>) = {}
<1>1. <<>> \in Seq({}) /\ Len(<<>>) = 0
  OBVIOUS
<1> QED
  BY <1>1 DEF StockIs, Rented

LEMMA StockUntracked ==
  ASSUME NEW m, NEW D, NEW A, NEW S, NEW W, StockIs(m, D, A, S, W, {})
  PROVE  StockIs(m + 1, D \cup {m + 1}, A, S, W, {m + 1})
<1>1. m \in Nat /\ m + 1 \notin 1..m /\ m + 1 \in Nat /\ 1..m \subseteq 1..(m + 1)
  BY DEF StockIs
<1> QED
  BY <1>1 DEF StockIs

LEMMA StockTracked ==
  ASSUME NEW m, NEW D, NEW A, NEW S, NEW W, NEW b, StockIs(m, D, A, S, W, {b})
  PROVE  /\ StockIs(m, D, A \cup {b}, S, W, {})
         /\ Rented(A \cup {b}, W) = Rented(A, W) \cup {b}
         /\ b \notin Rented(A, W) /\ b \in 1..m
<1>1. W \in Seq(A \cup {b}) /\ \A i \in 1..Len(W) : W[i] \in A
  BY DEF StockIs
<1>2. b \notin A /\ b \in 1..m /\ b \in D
  BY DEF StockIs
<1>3. StockIs(m, D, A \cup {b}, S, W, {})
  BY <1>1 DEF StockIs
<1>4. \A i \in 1..Len(W) : W[i] # b
  BY <1>1, <1>2
<1>5. Rented(A \cup {b}, W) = Rented(A, W) \cup {b} /\ b \notin Rented(A, W)
  BY <1>2, <1>4 DEF Rented
<1> QED
  BY <1>2, <1>3, <1>5

-----------------------------------------------------------------------------
(* Who has which sandbox.                                                  *)

\* A sandbox made behind the pool's back and not yet in _active.
Untracked == IF script = "introspect" /\ mode = "call" /\ at = 9 THEN {var["b"]} ELSE {}

Stock == StockIs(made, DOMAIN disk, active, strays, warm, Untracked)
Out == Rented(active, warm)

\* The variables of the blocks entered; and those that name a sandbox the
\* script has: what the tables say, and for an exception those of the blocks.
Blocked == {frames[j].v : j \in {k \in 1..Len(frames) : frames[k].kind \in {"lease", "session"}}}
Held == IF mode = "call" THEN {v \in Variables : Has(script, at, v)} ELSE Blocked

HoldIs(x, H, O) ==
    /\ x \in [Variables -> Nat]
    /\ \A v \in H : v \in Variables /\ x[v] \in O
    /\ \A v, w \in H : x[v] = x[w] => v = w

\* A live session is the script's own, within the manager's block; in the
\* session's block its variable names the session's sandbox.
Managed == \E j \in 1..Len(frames) : frames[j].kind = "manager"
Opened == {frames[j].v : j \in {k \in 1..Len(frames) : frames[k].kind = "session"}}

LiveIs(l, x, V, O, sid) ==
    /\ l \in [SessionIds -> Nat]
    /\ \A i \in SessionIds : l[i] # NoId => i = sid /\ l[i] \in O
    /\ \A v \in V : l[sid] = x[v] /\ l[sid] # NoId

Lively == /\ LiveIs(live, var, Opened, Out, Sid)
          /\ ~Managed => \A i \in SessionIds : live[i] = NoId

\* The audit's variable names a sandbox in the block of its variant only.
Tried ==
    script = "egress_audit" =>
        /\ Len(frames) < 2 => var["a"] = NoId
        /\ var["a"] # NoId => var["a"] \in Out

\* Without a block the pool is closed.
Closed == open \in BOOLEAN /\ (frames = <<>> => ~open /\ active = {})

Users == HoldIs(var, Held, Out) /\ Lively /\ Tried /\ runs \in 0..MaxRuns

Data == Stock /\ Users /\ Closed

LEMMA OutMade ==
  ASSUME Stock
  PROVE  Out \subseteq 1..made /\ Out \subseteq DOMAIN disk /\ NoId \notin Out /\ made \in Nat
BY DEF Stock, StockIs, Out, Rented, NoId

LEMMA SidIsSession ==
  ASSUME runs \in 0..MaxRuns
  PROVE  Sid \in SessionIds
BY BoundAssumption DEF Sid, SessionIds

\* What a block has, the script has.
LEMMA BlockedHeld ==
  ASSUME Flow
  PROVE  Blocked \subseteq Held /\ Blocked \subseteq {"a"}
<1> SUFFICES ASSUME NEW j \in 1..Len(frames), frames[j].kind \in {"lease", "session"}
             PROVE  frames[j].v \in Held /\ frames[j].v = "a"
  BY DEF Blocked
<1>1. Len(frames) \in Nat /\ j >= 1 /\ frames # <<>>
  BY DEF Flow, Blocks
<1>2. script \in Scripts /\ script # NoName /\ mode \in {"call", "raise"}
  BY <1>1, NoNameIsNoScript DEF Flow, Blocks
<1>3. Sound(script)
  BY <1>2, AllSound
<1>4. j \in 1..Len(Nest(script)) /\ frames[j].kind = Nest(script)[j].kind /\ frames[j].v = Nest(script)[j].v
  BY <1>1, <1>2, <1>3 DEF Flow, Blocks, Sound, Shaped
<1>5. frames[j].v = "a"
  BY <1>3, <1>4 DEF Sound, Shaped
<1>6. CASE mode = "raise"
  BY <1>5, <1>6 DEF Held, Blocked
<1>7. CASE mode = "call" /\ at <= Len(Code(script))
  <2>1. Fits(script, at, I, Nest(script), Len(frames), Depth(script)[at + 1])
    BY <1>7, Here
  <2>2. Has(script, at, frames[j].v)
    BY <2>1, <1>4 DEF Fits
  <2> QED
    BY <2>2, <1>5, <1>7 DEF Held, Variables
<1>8. CASE mode = "call" /\ ~(at <= Len(Code(script)))
  <2>1. at = Len(Code(script)) + 1 /\ Depth(script)[Len(Code(script)) + 1] = 0
    BY <1>2, <1>3, <1>8 DEF Flow, Sound
  <2> QED
    BY <2>1, <1>1, <1>2, <1>8 DEF Flow, Blocks
<1> QED
  BY <1>2, <1>5, <1>6, <1>7, <1>8

-----------------------------------------------------------------------------
(* How the variables that name a sandbox change.                           *)

LEMMA HeldOnward ==
  ASSUME Flow, NEW do, do \notin Entering \cup {"end"}, Call(do), Returns \/ Raises,
         UNCHANGED script
  PROVE  /\ frames # <<>>
         /\ do \notin Getting => Held' \subseteq Held
         /\ do = "release" /\ mode' = "call" => Held' \subseteq Held \ {I.v}
         /\ do \in Getting => Held' \subseteq Held \cup {I.v}
         /\ mode' = "raise" => Held' \subseteq Blocked
         /\ do \in Getting \cup {"rehydrate"} => I.v \notin Held
         /\ do \in Using => I.v \in Held
         /\ do \in Getting \cup Using \cup {"rehydrate"} => I.v \in {"a", "b", "c"}
<1>1. mode = "call" /\ at <= Len(Code(script)) /\ I.do = do
  BY DEF Call
<1>2. /\ script \in Scripts /\ at \in 1..Len(Code(script))
      /\ Fits(script, at, I, Nest(script), Len(frames), Depth(script)[at + 1])
  BY <1>1, Here
<1>3. /\ frames' = frames
      /\ \/ at' = at + 1 /\ mode' = "call"
         \/ mode' = "raise"
  BY <1>1 DEF Returns, Raises
<1>4. Len(frames) > 0
  BY <1>1, <1>2 DEF Fits
<1>5. frames # <<>>
  BY <1>4
<1>6. Held = {v \in Variables : Has(script, at, v)} /\ Blocked \subseteq Held
  BY <1>1, BlockedHeld DEF Held
<1>7. /\ do \in Getting \cup {"rehydrate"} => ~Has(script, at, I.v)
      /\ do \in Using => Has(script, at, I.v)
      /\ do \in Getting \cup Using \cup {"rehydrate"} => I.v \in {"a", "b", "c"}
  BY <1>1, <1>2 DEF Fits
<1>8. CASE mode' = "raise"
  <2>1. Held' = Blocked
    BY <1>3, <1>8 DEF Held, Blocked
  <2> QED
    BY <2>1, <1>5, <1>6, <1>7, <1>8 DEF Variables
<1>9. CASE at' = at + 1 /\ mode' = "call"
  <2>1. Held' = {v \in Variables : Has(script, at + 1, v)}
    BY <1>9 DEF Held
  <2>2. \A v \in Variables : Has(script, at + 1, v) =>
          \/ Has(script, at, v) /\ ~(do = "release" /\ I.v = v)
          \/ do \in Getting /\ I.v = v
    BY <1>1, <1>2 DEF Fits
  <2>3. do \notin Getting => Held' \subseteq Held
    BY ONLY <2>1, <2>2, <1>6
  <2>4. do = "release" => Held' \subseteq Held \ {I.v}
    <3> HAVE do = "release"
    <3>1. do \notin Getting
      BY DEF Getting
    <3> QED
      BY ONLY <3>1, <2>1, <2>2, <1>6, do = "release"
  <2>5. do \in Getting => Held' \subseteq Held \cup {I.v}
    BY ONLY <2>1, <2>2, <1>6
  <2>6. /\ do \in Getting \cup {"rehydrate"} => I.v \notin Held
        /\ do \in Using => I.v \in Held
    <3>1. \A v \in {"a", "b", "c"} : v \in Variables
      BY DEF Variables
    <3>2. do \in Using => do \in Getting \cup Using \cup {"rehydrate"}
      OBVIOUS
    <3> QED
      BY ONLY <3>1, <3>2, <1>6, <1>7
  <2> QED
    BY <2>3, <2>4, <2>5, <2>6, <1>5, <1>7, <1>9
<1> QED
  BY <1>3, <1>8, <1>9

LEMMA HeldEnter ==
  ASSUME Flow, NEW do \in Entering, Call(do), Enter(do), UNCHANGED script
  PROVE  /\ do \notin Getting => Held' \subseteq Held
         /\ do \in Getting => /\ Held' \subseteq Held \cup {I.v} /\ I.v \notin Held
                              /\ I.v \in {"a", "b", "c"}
         /\ frames' # <<>> /\ mode' = "call"
<1>1. mode = "call" /\ at <= Len(Code(script)) /\ I.do = do
  BY DEF Call
<1>2. /\ script \in Scripts /\ at \in 1..Len(Code(script))
      /\ Fits(script, at, I, Nest(script), Len(frames), Depth(script)[at + 1])
  BY <1>1, Here
<1>3. at' = at + 1 /\ mode' = "call" /\ Len(frames') = Len(frames) + 1 /\ Len(frames) \in Nat
  BY <1>1, FlowEnter DEF Enter, Flow, Blocks
<1>4. Len(frames') > 0
  BY <1>3
<1>5. frames' # <<>>
  BY <1>4
<1>6. Held = {v \in Variables : Has(script, at, v)} /\ Held' = {v \in Variables : Has(script, at + 1, v)}
  BY <1>1, <1>3 DEF Held
<1>7. \A v \in Variables : Has(script, at + 1, v) => Has(script, at, v) \/ (do \in Getting /\ I.v = v)
  BY <1>1, <1>2 DEF Fits
<1>8. do \in Getting => ~Has(script, at, I.v) /\ I.v \in {"a", "b", "c"}
  BY <1>1, <1>2 DEF Fits
<1> QED
  BY <1>3, <1>5, <1>6, <1>7, <1>8 DEF Variables

LEMMA HeldBarred ==
  ASSUME Flow, NEW do \in Entering, Call(do), Raises, UNCHANGED script
  PROVE  Held' \subseteq Blocked /\ Held' \subseteq Held /\ (do \in Getting => I.v \notin Held)
<1>1. mode' = "raise" /\ frames' = frames
  BY FlowBarred
<1>2. Held' = Blocked
  BY <1>1 DEF Held, Blocked
<1>3. mode = "call" /\ at <= Len(Code(script)) /\ I.do = do
  BY DEF Call
<1>4. Fits(script, at, I, Nest(script), Len(frames), Depth(script)[at + 1])
  BY <1>3, Here
<1>5. do \in Getting => I.v \notin Held
  BY <1>3, <1>4 DEF Fits, Held
<1> QED
  BY <1>2, <1>5, BlockedHeld

LEMMA HeldLeft ==
  ASSUME Flow, NEW kind, Leaving(kind), NEW raised \in BOOLEAN, Left(raised), UNCHANGED script
  PROVE  /\ kind \in {"lease", "session"} =>
               Held' \subseteq Held \ {F.v} /\ F.v \in Held /\ F.v = "a" /\ Len(frames) > 1
         /\ kind \in {"pool", "manager"} => Held' = {}
<1> DEFINE d == Len(frames)
           n == Nest(script)
<1>1. /\ Shaped(script, n) /\ d \in 1..Len(n) /\ Len(n) \in Nat /\ frames # <<>>
      /\ F = frames[d] /\ F.kind = kind /\ n[d].kind = kind /\ n[d].v = F.v
      /\ script # NoName
  BY Top DEF Leaving
<1>2. /\ mode = "call" =>
            /\ at \in 1..Len(Code(script)) /\ I.do = "end"
            /\ Fits(script, at, I, n, d, Depth(script)[at + 1])
      /\ mode \in {"call", "raise"}
  BY Top
<1>3. /\ Pop
      /\ \/ mode' = "raise"
         \/ mode = "call" /\ mode' = "call" /\ at' = at + 1
  BY <1>2 DEF Left
<1>4. /\ Len(frames') = d - 1 /\ d \in Nat \ {0}
      /\ \A j \in 1..(d - 1) : frames'[j] = frames[j]
  BY <1>1, <1>3, Popped
<1>5. Blocked' = {}
  <2> SUFFICES ASSUME NEW j \in 1..(d - 1), frames'[j].kind \in {"lease", "session"}
               PROVE  FALSE
    BY <1>4 DEF Blocked
  <2>1. j \in 1..Len(n) /\ n[j].kind \in {"lease", "session"} /\ j # Len(n)
    BY <1>1, <1>4 DEF Flow, Blocks
  <2> QED
    BY <2>1, <1>1 DEF Shaped
<1>6. kind \in {"lease", "session"} => F.v \in Held /\ F.v = "a" /\ d > 1
  <2> HAVE kind \in {"lease", "session"}
  <2>1. F.v \in Blocked
    BY <1>1, <1>4 DEF Blocked
  <2>2. d > 1
    BY <1>1 DEF Shaped
  <2> QED
    BY <2>1, <2>2, BlockedHeld
<1>7. CASE mode' = "raise"
  <2>1. Held' = {}
    BY <1>5, <1>7 DEF Held
  <2> QED
    BY <2>1, <1>6
<1>8. CASE mode = "call" /\ mode' = "call" /\ at' = at + 1
  <2>1. Held = {v \in Variables : Has(script, at, v)} /\ Held' = {v \in Variables : Has(script, at + 1, v)}
    BY <1>8 DEF Held
  <2>2. \A v \in Variables : Has(script, at + 1, v) =>
           Has(script, at, v) /\ n[d].kind \notin {"pool", "manager"} /\ n[d].v # v
    BY <1>2, <1>8 DEF Fits, Getting
  <2> QED
    BY <2>1, <2>2, <1>1, <1>6
<1> QED
  BY <1>3, <1>7, <1>8

-----------------------------------------------------------------------------
(* What becomes of the script's sandboxes when it gets one or loses one.   *)

LEMMA HoldKept ==
  ASSUME NEW x, NEW H, NEW O, HoldIs(x, H, O), NEW G \in SUBSET H, NEW P, O \subseteq P
  PROVE  HoldIs(x, G, P)
BY DEF HoldIs

LEMMA HoldGot ==
  ASSUME NEW x, NEW H, NEW O, HoldIs(x, H, O), NEW u \in Variables, u \notin H,
         NEW b \in Nat, b \notin O, NEW G, G \subseteq H \cup {u}
  PROVE  HoldIs([x EXCEPT ![u] = b], G, O \cup {b})
<1> DEFINE y == [x EXCEPT ![u] = b]
<1>1. y \in [Variables -> Nat] /\ y[u] = b /\ \A v \in Variables : v # u => y[v] = x[v]
  BY DEF HoldIs
<1>2. \A v \in G : v \in Variables /\ y[v] \in O \cup {b} /\ (v # u => y[v] \in O /\ v \in H)
  BY <1>1 DEF HoldIs
<1>3. \A v, w \in G : y[v] = y[w] => v = w
  <2> SUFFICES ASSUME NEW v \in G, NEW w \in G, y[v] = y[w] PROVE v = w
    OBVIOUS
  <2>1. CASE v = u
    BY <2>1, <1>1, <1>2
  <2>2. CASE w = u
    BY <2>2, <1>1, <1>2
  <2>3. CASE v # u /\ w # u
    BY <2>3, <1>1, <1>2 DEF HoldIs
  <2> QED
    BY <2>1, <2>2, <2>3
<1> QED
  BY <1>1, <1>2, <1>3 DEF HoldIs

\* A variable that names no sandbox of the script's.
LEMMA HoldOther ==
  ASSUME NEW x, NEW H, NEW O, HoldIs(x, H, O), NEW u \in Variables, u \notin H, NEW b \in Nat
  PROVE  HoldIs([x EXCEPT ![u] = b], H, O)
BY DEF HoldIs

LEMMA HoldLost ==
  ASSUME NEW x, NEW H, NEW O, HoldIs(x, H, O), NEW u \in H, NEW G, G \subseteq H \ {u}
  PROVE  HoldIs(x, G, O \ {x[u]})
BY DEF HoldIs

LEMMA OpenedHeld ==
  ASSUME Flow
  PROVE  /\ Opened \subseteq Held /\ Opened \subseteq {"a"} /\ Opened \subseteq Blocked
         /\ Len(frames) \in Nat
<1>1. Opened \subseteq Blocked
  BY DEF Opened, Blocked
<1>2. Len(frames) \in Nat
  BY DEF Flow, Blocks
<1> QED
  BY <1>1, <1>2, BlockedHeld

\* A step that neither gets the script a sandbox nor takes one from it.
LEMMA UsersKept ==
  ASSUME Users, UNCHANGED <<var, live, script, runs>>, Out \subseteq Out', Held' \subseteq Held,
         Managed => Managed', Opened' \subseteq Opened, Len(frames') < 2 => Len(frames) < 2
  PROVE  Users'
<1>1. HoldIs(var, Held', Out')
  BY HoldKept DEF Users
<1>2. HoldIs(var, Held, Out)'
  BY <1>1
<1>3. Sid' = Sid
  BY DEF Sid
<1>4. Lively'
  BY <1>3 DEF Users, Lively, LiveIs
<1>5. Tried'
  BY DEF Users, Tried
<1> QED
  BY <1>2, <1>4, <1>5 DEF Users

\* Sandbox b is handed out to variable u.
LEMMA UsersGot ==
  ASSUME Flow, Users, UNCHANGED <<live, script, runs>>,
         NEW u \in {"a", "b", "c"}, u \notin Held, NEW b \in Nat, b \notin Out,
         var' = [var EXCEPT ![u] = b], Out' = Out \cup {b}, Held' \subseteq Held \cup {u},
         Managed => Managed', Opened' \subseteq Opened,
         script = "egress_audit" => ~(Len(frames') < 2)
  PROVE  Users'
<1>0. u \in Variables
  BY DEF Variables
<1>1. HoldIs(var', Held', Out')
  BY <1>0, HoldGot DEF Users
<1>2. HoldIs(var, Held, Out)'
  BY <1>1
<1>3. Sid' = Sid
  BY DEF Sid
<1>4. \A v \in Opened' : v \in Opened /\ v # u /\ v \in Variables
  BY OpenedHeld DEF Users, HoldIs
<1>5. var \in [Variables -> Nat]
  BY DEF Users, HoldIs
<1>6. \A v \in Opened' : var'[v] = var[v]
  BY <1>0, <1>4, <1>5
<1>7. Lively'
  BY <1>3, <1>4, <1>6 DEF Users, Lively, LiveIs
<1>8. Tried'
  <2> SUFFICES ASSUME script = "egress_audit" PROVE var'["a"] # NoId => var'["a"] \in Out'
    BY DEF Tried
  <2>1. CASE u = "a"
    BY <2>1, <1>5, <1>0
  <2>2. CASE u # "a"
    BY <2>2, <1>5, <1>0 DEF Users, Tried, Variables
  <2> QED
    BY <2>1, <2>2
<1> QED
  BY <1>2, <1>7, <1>8 DEF Users

\* Likewise, and it becomes the session's.
LEMMA UsersOpened ==
  ASSUME Flow, Users, UNCHANGED <<script, runs>>, Sid \in SessionIds,
         NEW u \in {"a", "b", "c"}, u \notin Held, NEW b \in Nat, b \notin Out, b # NoId,
         var' = [var EXCEPT ![u] = b], Out' = Out \cup {b}, Held' \subseteq Held \cup {u},
         live' = [live EXCEPT ![Sid] = b],
         Managed', Opened' \subseteq {u}, script # "egress_audit"
  PROVE  Users'
<1>0. u \in Variables
  BY DEF Variables
<1>1. HoldIs(var', Held', Out')
  BY <1>0, HoldGot DEF Users
<1>2. HoldIs(var, Held, Out)'
  BY <1>1
<1>3. Sid' = Sid
  BY DEF Sid
<1>5. var \in [Variables -> Nat] /\ var'[u] = b
  BY <1>0 DEF Users, HoldIs
<1>6. live \in [SessionIds -> Nat] /\ live'[Sid] = b
  BY DEF Users, Lively, LiveIs
<1>7. \A i \in SessionIds : live'[i] # NoId => i = Sid
  BY <1>6 DEF Users, Lively, LiveIs
<1>8. live' \in [SessionIds -> Nat]
  BY <1>6
<1>9. LiveIs(live', var', Opened', Out', Sid)
  BY <1>5, <1>6, <1>7, <1>8 DEF LiveIs
<1>10. Lively'
  BY <1>3, <1>9 DEF Lively
<1>11. Tried'
  BY DEF Tried
<1> QED
  BY <1>2, <1>10, <1>11 DEF Users

\* The sandbox of variable u is given back.
LEMMA UsersLost ==
  ASSUME Flow, Users, UNCHANGED <<var, live, script, runs>>, ~Managed,
         NEW u \in Held, Out' = Out \ {var[u]}, Held' \subseteq Held \ {u},
         Opened' = {}, script # "egress_audit"
  PROVE  Users'
<1>1. HoldIs(var', Held', Out')
  BY HoldLost DEF Users
<1>2. HoldIs(var, Held, Out)'
  BY <1>1
<1>3. Sid' = Sid
  BY DEF Sid
<1>4. Lively'
  BY <1>3 DEF Users, Lively, LiveIs
<1>5. Tried'
  BY DEF Tried
<1> QED
  BY <1>2, <1>4, <1>5 DEF Users

\* The session's sandbox is.
LEMMA UsersClosed ==
  ASSUME Flow, Users, UNCHANGED <<var, script, runs>>, Sid \in SessionIds,
         live' = [live EXCEPT ![Sid] = NoId],
         Out' = Out \ {live[Sid]}, NEW G, G = {} \/ \E u \in Held : var[u] = live[Sid] /\ G \subseteq Held \ {u},
         Held' = G, Opened' = {}, script # "egress_audit"
  PROVE  Users'
<1>1. HoldIs(var, G, Out \ {live[Sid]})
  <2>1. CASE G = {}
    BY <2>1 DEF Users, HoldIs
  <2>2. CASE G # {}
    <3>1. PICK u \in Held : var[u] = live[Sid] /\ G \subseteq Held \ {u}
      BY <2>2
    <3>2. HoldIs(var, G, Out \ {var[u]})
      BY <3>1, HoldLost DEF Users
    <3> QED
      BY <3>1, <3>2
  <2> QED
    BY <2>1, <2>2
<1>2. HoldIs(var, Held, Out)'
  BY <1>1
<1>3. Sid' = Sid
  BY DEF Sid
<1>4. live \in [SessionIds -> Nat] /\ \A i \in SessionIds : live[i] # NoId => i = Sid
  BY DEF Users, Lively, LiveIs
<1>5. live' \in [SessionIds -> Nat] /\ \A i \in SessionIds : live'[i] = NoId
  BY <1>4 DEF NoId
<1>6. Lively'
  BY <1>3, <1>5 DEF Lively, LiveIs
<1>7. Tried'
  BY DEF Tried
<1> QED
  BY <1>2, <1>6, <1>7 DEF Users

\* No sandbox is left to the script.
LEMMA UsersNone ==
  ASSUME Users, UNCHANGED <<var, live, script, runs>>, Out' = {}, Held' = {}, Opened' = {},
         \A i \in SessionIds : live[i] = NoId, script = "egress_audit" => var["a"] = NoId
  PROVE  Users'
<1>1. HoldIs(var, Held, Out)'
  BY DEF Users, HoldIs
<1>2. Lively'
  BY DEF Users, Lively, LiveIs
<1>3. Tried'
  BY DEF Tried
<1> QED
  BY <1>1, <1>2, <1>3 DEF Users

-----------------------------------------------------------------------------
(* How the blocks entered change.                                          *)

LEMMA FramesKept ==
  ASSUME frames' = frames
  PROVE  (Managed <=> Managed') /\ Opened' = Opened
BY DEF Managed, Opened

LEMMA FramesEnter ==
  ASSUME Flow, NEW do \in Entering, Call(do), Enter(do), UNCHANGED script
  PROVE  /\ Managed => Managed'
         /\ do # "session" => Opened' \subseteq Opened
         /\ Opened' \subseteq Opened \cup {I.v}
         /\ Len(frames') = Len(frames) + 1 /\ Len(frames) \in Nat
<1>1. /\ Len(frames') = Len(frames) + 1 /\ Len(frames) \in Nat
      /\ \A j \in 1..Len(frames) : frames'[j] = frames[j]
      /\ frames'[Len(frames) + 1].kind = do /\ frames'[Len(frames) + 1].v = I.v
  BY FlowEnter DEF Flow, Blocks
<1>2. Managed => Managed'
  BY <1>1 DEF Managed
<1>3. ASSUME NEW j \in 1..Len(frames'), frames'[j].kind = "session"
      PROVE  \/ j \in 1..Len(frames) /\ frames[j].kind = "session" /\ frames'[j].v = frames[j].v
             \/ do = "session" /\ frames'[j].v = I.v
  <2>1. j \in 1..Len(frames) \/ j = Len(frames) + 1
    BY <1>1
  <2> QED
    BY <2>1, <1>1, <1>3
<1>4. ASSUME NEW v \in Opened'
      PROVE  v \in Opened \/ (do = "session" /\ v = I.v)
  <2>1. PICK j \in 1..Len(frames') : frames'[j].kind = "session" /\ v = frames'[j].v
    BY <1>4 DEF Opened
  <2> QED
    BY <2>1, <1>3 DEF Opened
<1> QED
  BY <1>1, <1>2, <1>4

\* Where the script can give back or get what it leases, there is no manager;
\* and a manager that is left has no session's block in it.
LEMMA FramesLeft ==
  ASSUME Flow, NEW kind, Leaving(kind)
  PROVE  /\ kind \in {"pool", "lease", "try"} => ~Managed
         /\ kind = "manager" => Held = {} /\ script # "egress_audit"
         /\ kind \in {"lease", "session"} => script # "egress_audit"
         /\ kind = "session" => F.v \in Opened
         /\ kind = "pool" => Len(frames) = 1
         /\ kind = "try" => F.v = "a"
         /\ Pop => Opened' = {} /\ Len(frames') = Len(frames) - 1
         /\ Len(frames) \in Nat \ {0}
<1> DEFINE d == Len(frames)
           n == Nest(script)
<1>1. /\ Shaped(script, n) /\ d \in 1..Len(n) /\ Len(n) \in Nat
      /\ F = frames[d] /\ F.kind = kind /\ n[d].kind = kind /\ n[d].v = F.v
      /\ script \in Scripts /\ script # NoName
      /\ mode \in {"call", "raise"} /\ frames # <<>>
      /\ mode = "call" => I.do = "end" /\ Fits(script, at, I, n, d, Depth(script)[at + 1])
  BY Top DEF Leaving
<1>2. \A j \in 1..d : j \in 1..Len(n) /\ frames[j].kind = n[j].kind /\ frames[j].v = n[j].v
  BY <1>1 DEF Flow, Blocks
<1>3. ASSUME kind \in {"pool", "lease", "try"} PROVE ~Managed
  <2> SUFFICES ASSUME NEW j \in 1..d, n[j].kind = "manager" PROVE FALSE
    BY <1>2 DEF Managed
  <2>1. CASE kind = "pool"
    BY <2>1, <1>1, <1>2 DEF Shaped
  <2>2. CASE kind # "pool"
    BY <2>2, <1>1, <1>2, <1>3 DEF Shaped
  <2> QED
    BY <2>1, <2>2
<1>4. ASSUME kind \in {"manager", "session", "lease"} PROVE script # "egress_audit"
  <2> SUFFICES ASSUME script = "egress_audit" PROVE FALSE
    OBVIOUS
  <2>1. n = <<Block("pool", NoName), Block("try", "a")>>
    BY DEF Nest, Leasing
  <2>2. \A j \in 1..Len(n) : n[j].kind \in {"pool", "try"}
    BY <2>1 DEF Block
  <2> QED
    BY <2>2, <1>1, <1>4
<1>5. ASSUME kind = "manager" PROVE Held = {}
  <2>1. CASE mode = "call"
    BY <2>1, <1>1, <1>5 DEF Held, Fits
  <2>2. CASE mode # "call"
    <3> SUFFICES ASSUME NEW j \in 1..d, n[j].kind \in {"lease", "session"} PROVE FALSE
      BY <2>2, <1>2 DEF Held, Blocked
    <3>1. j = Len(n)
      BY <1>1, <1>2 DEF Shaped
    <3>2. j = d
      BY <3>1, <1>1
    <3> QED
      BY <3>2, <1>1, <1>5
  <2> QED
    BY <2>1, <2>2
<1>6. ASSUME kind = "session" PROVE F.v \in Opened
  BY <1>1, <1>6 DEF Opened
<1>7. ASSUME Pop PROVE Opened' = {} /\ Len(frames') = d - 1
  <2>1. Len(frames') = d - 1 /\ \A j \in 1..(d - 1) : frames'[j] = frames[j]
    BY <1>1, <1>7, Popped
  <2> SUFFICES ASSUME NEW j \in 1..(d - 1), frames[j].kind = "session" PROVE FALSE
    BY <2>1 DEF Opened
  <2>2. j \in 1..d /\ n[j].kind = "session"
    BY <1>1, <1>2
  <2>3. j = Len(n)
    BY <2>2, <1>1, <1>2 DEF Shaped
  <2> QED
    BY <2>3, <1>1
<1>8. (kind = "pool" => d = 1) /\ (kind = "try" => F.v = "a")
  BY <1>1 DEF Shaped
<1> QED
  BY <1>1, <1>3, <1>4, <1>5, <1>6, <1>7, <1>8

LEMMA Unmanaged ==
  ASSUME Flow, NEW do \in {"release", "rehydrate", "track"}, Call(do)
  PROVE  ~Managed /\ Blocked = {} /\ Opened = {}
<1>1. mode = "call" /\ at <= Len(Code(script)) /\ I.do = do
  BY DEF Call
<1>2. /\ script \in Scripts
      /\ Fits(script, at, I, Nest(script), Len(frames), Depth(script)[at + 1])
  BY <1>1, Here
<1>3. Len(Nest(script)) = 1 /\ Nest(script)[1].kind = "pool"
  BY <1>1, <1>2 DEF Fits
<1>4. script # NoName
  BY <1>2, NoNameIsNoScript
<1>5. Len(frames) \in Nat /\ \A j \in 1..Len(frames) : j = 1 /\ frames[j].kind = "pool"
  BY <1>3, <1>4 DEF Flow, Blocks
<1> QED
  BY <1>5 DEF Managed, Blocked, Opened

\* A session is opened within the manager's block, and not in another's.
LEMMA SessionPlace ==
  ASSUME Flow, Call("session")
  PROVE  Managed /\ Blocked = {} /\ Opened = {} /\ frames # <<>>
<1> DEFINE d == Len(frames)
           n == Nest(script)
<1>1. mode = "call" /\ at <= Len(Code(script)) /\ I.do = "session"
  BY DEF Call
<1>2. /\ script \in Scripts /\ Shaped(script, n)
      /\ Fits(script, at, I, n, d, Depth(script)[at + 1])
  BY <1>1, Here
<1>3. d \in Nat /\ d + 1 \in 1..Len(n) /\ n[d + 1].kind = "session"
  BY <1>1, <1>2 DEF Fits, Shaped, Entering, Block
<1>4. d + 1 = Len(n) /\ d + 1 > 1 /\ n[d + 1 - 1].kind = "manager"
  BY <1>2, <1>3 DEF Shaped
<1>5. script # NoName
  BY <1>2, NoNameIsNoScript
<1>6. \A j \in 1..d : j # Len(n) /\ j \in 1..Len(n) /\ frames[j].kind = n[j].kind
  BY <1>3, <1>4, <1>5 DEF Flow, Blocks
<1>7. d \in 1..d /\ frames[d].kind = "manager"
  BY <1>3, <1>4, <1>6
<1>8. \A j \in 1..d : frames[j].kind \notin {"lease", "session"}
  BY <1>2, <1>6 DEF Shaped
<1>9. frames # <<>>
  BY <1>7
<1> QED
  BY <1>7, <1>8, <1>9 DEF Managed, Blocked, Opened

\* And a lease, within the pool's.
LEMMA LeasePlace ==
  ASSUME Flow, Call("lease")
  PROVE  frames # <<>>
<1> DEFINE d == Len(frames)
           n == Nest(script)
<1>1. mode = "call" /\ at <= Len(Code(script)) /\ I.do = "lease"
  BY DEF Call
<1>2. /\ script \in Scripts /\ Shaped(script, n)
      /\ Fits(script, at, I, n, d, Depth(script)[at + 1])
  BY <1>1, Here
<1>3. d \in Nat /\ d + 1 \in 1..Len(n) /\ n[d + 1].kind = "lease"
  BY <1>1, <1>2 DEF Fits, Shaped, Entering, Block
<1>4. d + 1 > 1
  BY <1>2, <1>3 DEF Shaped
<1>5. d > 0
  BY <1>3, <1>4
<1> QED
  BY <1>5

\* What raises in a call that nobody catches at once.
LEMMA RaisesLoud ==
  ASSUME Flow, NEW do, do \notin Caught, Call(do), Raises
  PROVE  mode' = "raise" /\ frames' = frames
<1>1. mode = "call" /\ at <= Len(Code(script)) /\ I.do = do
  BY DEF Call
<1>2. Fits(script, at, I, Nest(script), Len(frames), Depth(script)[at + 1])
  BY <1>1, Here
<1>3. ~I.quiet
  BY <1>1, <1>2 DEF Fits
<1> QED
  BY <1>3 DEF Raises

\* The audit acquires in the block of a variant, and nothing else.
LEMMA AuditGets ==
  ASSUME Flow, NEW do, Call(do), script = "egress_audit"
  PROVE  /\ do \in Getting => do = "acquire" /\ Len(frames) = 2
         /\ do \notin {"release", "rehydrate", "track", "session"}
<1>1. mode = "call" /\ at <= Len(Code(script)) /\ I.do = do
  BY DEF Call
<1>2. Fits(script, at, I, Nest(script), Len(frames), Depth(script)[at + 1])
  BY <1>1, Here
<1>3. do \in Getting => do = "acquire" /\ Len(frames) = 2
  BY <1>1, <1>2 DEF Fits
<1>4. Len(Nest(script)) = 2
  BY DEF Nest, Leasing
<1>5. do \notin {"release", "rehydrate", "track"}
  BY <1>1, <1>2, <1>4 DEF Fits
<1> QED
  BY <1>3, <1>5 DEF Getting

-----------------------------------------------------------------------------
(* The sandbox that is not tracked yet.                                    *)

LEMMA UntrackedOnward ==
  ASSUME Flow, NEW do, do \notin Entering \cup {"end"}, Call(do), Returns \/ Raises,
         UNCHANGED script
  PROVE  /\ do # "track" => Untracked = {}
         /\ do = "track" => Untracked = {var["b"]} /\ I.v = "b"
         /\ do # "rehydrate" \/ mode' = "raise" => Untracked' = {}
         /\ do = "rehydrate" /\ mode' = "call" => Untracked' = {var'["b"]} /\ I.v = "b"
<1>1. mode = "call" /\ at <= Len(Code(script)) /\ I.do = do
  BY DEF Call
<1>2. Fits(script, at, I, Nest(script), Len(frames), Depth(script)[at + 1]) /\ at \in Nat
  BY <1>1, Here
<1>3. /\ (do = "track") <=> (script = "introspect" /\ at = 9)
      /\ (do = "rehydrate") <=> (script = "introspect" /\ at = 8)
      /\ script = "introspect" /\ at \in {8, 9} => I.v = "b"
  BY <1>1, <1>2 DEF Fits
<1>4. mode' = "raise" \/ (mode' = "call" /\ at' = at + 1)
  BY <1>1 DEF Returns, Raises
<1> QED
  BY <1>1, <1>2, <1>3, <1>4 DEF Untracked

LEMMA UntrackedEnter ==
  ASSUME Flow, NEW do \in Entering, Call(do), Enter(do) \/ Raises, UNCHANGED script
  PROVE  Untracked = {} /\ Untracked' = {}
<1>1. mode = "call" /\ at <= Len(Code(script)) /\ I.do = do
  BY DEF Call
<1>2. Fits(script, at, I, Nest(script), Len(frames), Depth(script)[at + 1]) /\ at \in Nat
  BY <1>1, Here
<1>3. ~(script = "introspect" /\ at \in {8, 9})
  BY <1>1, <1>2 DEF Fits, Entering
<1>4. mode' = "raise" \/ at' = at + 1
  BY <1>1 DEF Enter, Raises, Returns
<1> QED
  BY <1>2, <1>3, <1>4 DEF Untracked

LEMMA UntrackedLeft ==
  ASSUME Flow, NEW kind, Leaving(kind), UNCHANGED script
  PROVE  /\ Untracked = {}
         /\ \A raised \in BOOLEAN : Left(raised) => Untracked' = {}
<1>1. mode = "call" \/ mode = "raise"
  BY DEF Leaving, Call
<1>2. CASE mode = "raise"
  BY <1>2 DEF Untracked, Left
<1>3. CASE mode = "call"
  <2>1. /\ at \in Nat /\ I.do = "end"
        /\ Fits(script, at, I, Nest(script), Len(frames), Depth(script)[at + 1])
    BY <1>3, Top
  <2>2. ~(script = "introspect" /\ at \in {8, 9})
    BY <2>1 DEF Fits
  <2>3. ASSUME NEW raised \in BOOLEAN, Left(raised) PROVE mode' = "raise" \/ at' = at + 1
    BY <2>3 DEF Left
  <2> QED
    BY <2>1, <2>2, <2>3 DEF Untracked
<1> QED
  BY <1>1, <1>2, <1>3

-----------------------------------------------------------------------------
(* What the service's calls and the pool's do to the stock.                *)

LEMMA MakeFacts ==
  ASSUME NEW content, Make(content)
  PROVE  made' = made + 1 /\ DOMAIN disk' = DOMAIN disk \cup {made + 1}
BY DEF Make

LEMMA DeleteFacts ==
  ASSUME NEW S, Delete(S)
  PROVE  DOMAIN disk' = DOMAIN disk \ S /\ made' = made /\ strays' = strays
BY DEF Delete, Restrict

LEMMA StockKept ==
  ASSUME Stock, UNCHANGED <<active, warm, made, strays>>, DOMAIN disk' = DOMAIN disk,
         Untracked' = Untracked
  PROVE  Stock' /\ Out' = Out
BY DEF Stock, Out

LEMMA StockMakeRaises ==
  ASSUME Stock, NEW content, MakeRaises(content), UNCHANGED <<active, warm>>, Untracked' = Untracked
  PROVE  Stock' /\ Out' = Out
<1>1. CASE UNCHANGED <<disk, made, strays>>
  BY <1>1, StockKept
<1>2. CASE Make(content) /\ strays' = strays \cup {made + 1}
  <2>1. made' = made + 1 /\ DOMAIN disk' = DOMAIN disk \cup {made + 1}
    BY <1>2, MakeFacts
  <2>2. StockIs(made + 1, DOMAIN disk \cup {made + 1}, active, strays \cup {made + 1}, warm, Untracked)
    BY StockLost DEF Stock
  <2> QED
    BY <2>1, <2>2, <1>2 DEF Stock, Out
<1> QED
  BY <1>1, <1>2 DEF MakeRaises

LEMMA StockAdded ==
  ASSUME Stock, NEW content, Make(content), active' = active \cup {made + 1},
         UNCHANGED <<warm, strays>>, Untracked' = Untracked
  PROVE  /\ Stock' /\ Out' = Out \cup {made + 1}
         /\ made + 1 \notin Out /\ made + 1 \in Nat /\ made + 1 # NoId
<1>1. made' = made + 1 /\ DOMAIN disk' = DOMAIN disk \cup {made + 1}
  BY MakeFacts
<1>2. /\ StockIs(made + 1, DOMAIN disk \cup {made + 1}, active \cup {made + 1}, strays, warm, Untracked)
      /\ Rented(active \cup {made + 1}, warm) = Rented(active, warm) \cup {made + 1}
      /\ made + 1 \notin Rented(active, warm)
  BY StockMade DEF Stock
<1>3. made \in Nat
  BY DEF Stock, StockIs
<1>4. Stock'
  BY <1>1, <1>2 DEF Stock
<1>5. Out' = Out \cup {made + 1} /\ made + 1 \notin Out
  BY <1>2 DEF Out
<1>6. made + 1 \in Nat /\ made + 1 # NoId
  BY <1>3 DEF NoId
<1> QED
  BY <1>4, <1>5, <1>6

LEMMA StockHandedOut ==
  ASSUME Stock, NEW s, NEW content, Given(s, content), UNCHANGED strays, Untracked' = Untracked
  PROVE  Stock' /\ Out' = Out \cup {s} /\ s \notin Out /\ s \in Nat /\ s # NoId
<1>1. CASE /\ warm # <<>> /\ s = Head(warm)
           /\ warm' = Tail(warm) /\ UNCHANGED <<active, disk, made>>
  <2>0. StockIs(made, DOMAIN disk, active, strays, warm, Untracked)
    BY DEF Stock
  <2>01. /\ StockIs(made, DOMAIN disk, active, strays, Tail(warm), Untracked)
         /\ Rented(active, Tail(warm)) = Rented(active, warm) \cup {Head(warm)}
         /\ Head(warm) \notin Rented(active, warm) /\ Head(warm) \in 1..made
    BY ONLY <2>0, <1>1, StockTaken
  <2>1. /\ StockIs(made, DOMAIN disk, active, strays, Tail(warm), Untracked)
        /\ Rented(active, Tail(warm)) = Rented(active, warm) \cup {s}
        /\ s \notin Rented(active, warm) /\ s \in 1..made
    BY <1>1, <2>01
  <2>2. made \in Nat
    BY DEF Stock, StockIs
  <2> QED
    BY <2>1, <2>2, <1>1 DEF Stock, Out, NoId
<1>2. CASE s = made + 1 /\ Make(content) /\ active' = active \cup {s} /\ UNCHANGED warm
  BY <1>2, StockAdded
<1> QED
  BY <1>1, <1>2 DEF Given

\* A sandbox goes, or its delete raises; nothing to delete is all right.
LEMMA StockReturned ==
  ASSUME Stock, NEW b, b \in Out \/ b = NoId, active' = active \ {b}, UNCHANGED warm,
         Delete({b}) \/ DeleteRaises({b}), Untracked' = Untracked
  PROVE  Stock' /\ Out' = Out \ {b}
<1>1. /\ StockIs(made, DOMAIN disk \ {b}, active \ {b}, strays, warm, Untracked)
      /\ StockIs(made, DOMAIN disk, active \ {b}, strays \cup ({b} \cap DOMAIN disk), warm, Untracked)
      /\ Rented(active \ {b}, warm) = Rented(active, warm) \ {b}
  <2>1. b \in Rented(active, warm) \/ b = 0
    BY DEF Out, NoId
  <2>2. StockIs(made, DOMAIN disk, active, strays, warm, Untracked)
    BY DEF Stock
  <2>3. StockIs(made, DOMAIN disk \ {b}, active \ {b}, strays, warm, Untracked)
    BY ONLY <2>1, <2>2, StockGiven
  <2>4. \A T : T = {b} \cap DOMAIN disk =>
          StockIs(made, DOMAIN disk, active \ {b}, strays \cup T, warm, Untracked)
    BY ONLY <2>1, <2>2, StockGiven
  <2>5. Rented(active \ {b}, warm) = Rented(active, warm) \ {b}
    BY DEF Rented
  <2> QED
    BY <2>3, <2>4, <2>5
<1>2. CASE Delete({b})
  <2>1. DOMAIN disk' = DOMAIN disk \ {b} /\ made' = made /\ strays' = strays
    BY <1>2, DeleteFacts
  <2> QED
    BY <1>1, <2>1 DEF Stock, Out
<1>3. CASE strays' = strays \cup ({b} \cap DOMAIN disk) /\ UNCHANGED <<disk, made>>
  BY <1>1, <1>3 DEF Stock, Out
<1> QED
  BY <1>2, <1>3 DEF DeleteRaises

-----------------------------------------------------------------------------
(* Every step.                                                             *)

LEMMA SnapIsOther ==
  ASSUME Flow
  PROVE  "snap" \notin Held
BY BlockedHeld DEF Held, Has

\* A variable is set that names no sandbox the script has.
LEMMA UsersOther ==
  ASSUME Flow, Users, UNCHANGED <<live, script, runs, frames>>, Out' = Out, Held' \subseteq Held,
         NEW u \in {"b", "snap"}, u \notin Held, NEW p \in Nat, var' = [var EXCEPT ![u] = p]
  PROVE  Users'
<1>1. HoldIs(var', Held, Out)
  BY HoldOther DEF Users, Variables
<1>2. HoldIs(var', Held', Out')
  BY <1>1, HoldKept
<1>3. HoldIs(var, Held, Out)'
  BY <1>2
<1>4. var \in [Variables -> Nat]
  BY DEF Users, HoldIs
<1>5. \A v \in Variables : v # u => var'[v] = var[v]
  BY <1>4
<1>6. Opened' = Opened /\ (Managed <=> Managed') /\ Opened \subseteq {"a"} /\ "a" \in Variables
  BY FramesKept, OpenedHeld DEF Variables
<1>7. Sid' = Sid
  BY DEF Sid
<1>8. Lively'
  <2>1. \A v \in Opened : var'[v] = var[v]
    BY <1>5, <1>6
  <2> QED
    BY <1>6, <1>7, <2>1 DEF Users, Lively, LiveIs
<1>9. Tried'
  BY <1>5, <1>6 DEF Users, Tried
<1> QED
  BY <1>3, <1>8, <1>9 DEF Users

\* A call that leaves the sandboxes with whom they are.
LEMMA DataOnward ==
  ASSUME Flow, Data, NEW do, Call(do), Returns \/ Raises,
         do \notin Entering \cup Getting \cup {"end", "release", "rehydrate"},
         UNCHANGED <<script, runs, live, open, active, warm, made, strays>>,
         DOMAIN disk' = DOMAIN disk,
         var' = var \/ \E p \in Nat : var' = [var EXCEPT !["snap"] = p]
  PROVE  Data'
<1>1. do \notin Entering \cup {"end"} /\ do \notin Getting
  OBVIOUS
<1>2. frames # <<>> /\ Held' \subseteq Held
  BY <1>1, HeldOnward
<1>3. frames' = frames
  BY <1>1, FlowOnward
<1>4. Untracked = {} /\ Untracked' = {}
  BY <1>1, UntrackedOnward DEF Getting
<1>5. Stock' /\ Out' = Out
  BY <1>4, StockKept DEF Data
<1>6. Users'
  <2>1. CASE var' = var
    BY <2>1, <1>2, <1>3, <1>5, FramesKept, UsersKept DEF Data
  <2>2. CASE \E p \in Nat : var' = [var EXCEPT !["snap"] = p]
    BY <2>2, <1>2, <1>3, <1>5, SnapIsOther, UsersOther DEF Data
  <2> QED
    BY <2>1, <2>2
<1>7. Closed'
  BY <1>2, <1>3 DEF Data, Closed
<1> QED
  BY <1>5, <1>6, <1>7 DEF Data

LEMMA IntrospectEnds == Len(Code("introspect")) = 13
BY IntrospectText

LEMMA NobodyLive ==
  ASSUME Users, ~Managed
  PROVE  \A i \in SessionIds : live[i] = NoId
BY DEF Users, Lively

LEMMA DataInit == Init => Data
<1> SUFFICES ASSUME Init PROVE Data
  OBVIOUS
<1>1. /\ script = NoName /\ mode = "idle" /\ frames = <<>> /\ Len(frames) = 0
      /\ var = [v \in Variables |-> NoId] /\ open = FALSE /\ active = {} /\ warm = <<>>
      /\ live = [i \in SessionIds |-> NoId] /\ DOMAIN disk = {} /\ made = 0 /\ strays = {} /\ runs = 0
  BY DEF Init
<1>2. Untracked = {} /\ Out = {} /\ Held = {} /\ Opened = {}
  BY <1>1 DEF Untracked, Out, Rented, Held, Blocked, Opened
<1>3. Stock
  <2>1. warm \in Seq({}) /\ Len(warm) = 0
    BY <1>1
  <2> QED
    BY <1>1, <1>2, <2>1 DEF Stock, StockIs
<1>4. HoldIs(var, Held, Out)
  BY <1>1, <1>2 DEF HoldIs, NoId
<1>5. Lively
  BY <1>1, <1>2 DEF Lively, LiveIs, NoId
<1>6. Tried /\ runs \in 0..MaxRuns
  BY <1>1, BoundAssumption DEF Tried, NoName
<1>7. Closed
  BY <1>1 DEF Closed
<1> QED
  BY <1>3, <1>4, <1>5, <1>6, <1>7 DEF Data, Users

LEMMA DataStart ==
  ASSUME Flow, Data, NEW name \in Scripts, Start(name)
  PROVE  Data'
<1>1. /\ mode' = "call" /\ script' = name /\ at' = 1 /\ runs < MaxRuns /\ runs' = runs + 1
      /\ var' = [v \in Variables |-> NoId] /\ made' = 0 /\ strays' = {}
      /\ disk' = <<>> /\ UNCHANGED <<open, active, warm, live>>
  BY DEF Start
<1>2. frames = <<>> /\ frames' = <<>> /\ \A v \in Variables : ~Has(name, 1, v)
  BY FlowStart
<1>3. active = {} /\ ~open /\ ~Managed /\ ~Managed' /\ Opened' = {}
  BY <1>2 DEF Data, Closed, Managed, Opened
<1>4. Untracked' = {} /\ Held' = {} /\ Out' = {}
  BY <1>1, <1>2, <1>3 DEF Untracked, Held, Out, Rented
<1>5. Stock'
  <2>1. warm \in Seq({}) /\ \A i, j \in 1..Len(warm) : warm[i] = warm[j] => i = j
    BY <1>3 DEF Data, Stock, StockIs
  <2>2. DOMAIN disk' = {}
    BY <1>1
  <2> QED
    BY <1>1, <1>3, <1>4, <2>1, <2>2 DEF Stock, StockIs
<1>6. HoldIs(var', Held', Out')
  BY <1>1, <1>4 DEF HoldIs, NoId
<1>7. HoldIs(var, Held, Out)'
  BY <1>6
<1>8. \A i \in SessionIds : live[i] = NoId
  BY <1>3, NobodyLive DEF Data
<1>9. Lively'
  BY <1>1, <1>3, <1>8 DEF Data, Users, Lively, LiveIs
<1>10. Tried'
  BY <1>1 DEF Tried, Variables
<1>11. runs' \in 0..MaxRuns
  BY <1>1, BoundAssumption DEF Data, Users
<1>12. Closed'
  BY <1>1, <1>2, <1>3 DEF Data, Closed
<1> QED
  BY <1>5, <1>7, <1>9, <1>10, <1>11, <1>12 DEF Data, Users

LEMMA DataFinish ==
  ASSUME Flow, Data, Finish
  PROVE  Data'
<1>1. /\ mode' = "idle" /\ script' = NoName
      /\ UNCHANGED <<runs, var, open, active, warm, live, disk, made, strays>>
      /\ (mode = "call" /\ at > Len(Code(script))) \/ mode = "raise"
  BY DEF Finish, pool, service
<1>2. frames = <<>> /\ frames' = <<>> /\ Len(frames') = 0
  BY FlowFinish
<1>3. active = {} /\ ~open /\ ~Managed /\ ~Managed' /\ Opened' = {}
  BY <1>2 DEF Data, Closed, Managed, Opened
<1>4. Untracked = {} /\ Untracked' = {}
  BY <1>1, IntrospectEnds DEF Untracked
<1>5. Stock' /\ Out' = Out
  BY <1>1, <1>4, StockKept DEF Data
<1>6. Held' = {}
  BY <1>1, <1>2 DEF Held, Blocked
<1>7. HoldIs(var', Held', Out')
  BY <1>1, <1>6 DEF Data, Users, HoldIs
<1>8. HoldIs(var, Held, Out)'
  BY <1>7
<1>9. \A i \in SessionIds : live[i] = NoId
  BY <1>3, NobodyLive DEF Data
<1>10. Lively'
  BY <1>1, <1>3, <1>9 DEF Data, Users, Lively, LiveIs
<1>11. Tried' /\ runs' \in 0..MaxRuns
  BY <1>1 DEF Tried, NoName, Data, Users
<1>12. Closed'
  BY <1>1, <1>2, <1>3 DEF Data, Closed
<1> QED
  BY <1>5, <1>8, <1>10, <1>11, <1>12 DEF Data, Users

LEMMA DataOpenPool ==
  ASSUME Flow, Data, OpenPool
  PROVE  Data'
<1>0. PICK do \in {"pool", "manager"} : Call(do)
  BY DEF OpenPool
<1>1. do \in Entering /\ do \notin Getting /\ do # "session" /\ I.do = do
  BY <1>0 DEF Entering, Getting, Call
<1>2. /\ UNCHANGED <<script, runs, var, active, warm, live, disk, made, strays>>
      /\ \/ open' = TRUE /\ Enter(do)
         \/ Raises /\ open' = open
  BY <1>1 DEF OpenPool, fixed, service
<1>3. Untracked = {} /\ Untracked' = {}
  BY <1>0, <1>1, <1>2, UntrackedEnter
<1>4. Stock' /\ Out' = Out
  BY <1>2, <1>3, StockKept DEF Data
<1>5. CASE open' = TRUE /\ Enter(do)
  <2>1. Held' \subseteq Held /\ frames' # <<>>
    BY <1>0, <1>1, <1>2, <1>5, HeldEnter
  <2>2. (Managed => Managed') /\ Opened' \subseteq Opened /\ Len(frames') = Len(frames) + 1 /\ Len(frames) \in Nat
    BY <1>0, <1>1, <1>2, <1>5, FramesEnter
  <2>3. Len(frames') < 2 => Len(frames) < 2
    BY <2>2
  <2>4. Users'
    BY <1>2, <1>4, <2>1, <2>2, <2>3, UsersKept DEF Data
  <2>5. Closed'
    BY <1>5, <2>1 DEF Closed
  <2> QED
    BY <1>4, <2>4, <2>5 DEF Data
<1>6. CASE Raises /\ open' = open
  <2>1. Held' \subseteq Held /\ frames' = frames
    BY <1>0, <1>1, <1>2, <1>6, HeldBarred, FlowBarred
  <2>2. Users'
    BY <1>2, <1>4, <2>1, FramesKept, UsersKept DEF Data
  <2>3. Closed'
    BY <1>2, <1>6, <2>1 DEF Data, Closed
  <2> QED
    BY <1>4, <2>2, <2>3 DEF Data
<1> QED
  BY <1>2, <1>5, <1>6

LEMMA DataWarmer ==
  ASSUME Flow, Data, Warmer
  PROVE  Data'
<1>1. /\ UNCHANGED <<script, runs, at, mode, frames, var, open, live>> /\ open
      /\ Make(Fresh)
      /\ \/ /\ active' = active \cup {made + 1} /\ warm' = Append(warm, made + 1)
            /\ UNCHANGED strays
         \/ strays' = strays \cup {made + 1} /\ UNCHANGED <<active, warm>>
  BY DEF Warmer, fixed, control
<1>2. Untracked' = Untracked /\ Held' = Held
  BY <1>1 DEF Untracked, Held, Blocked
<1>3. Stock' /\ Out' = Out
  <2>1. CASE /\ active' = active \cup {made + 1} /\ warm' = Append(warm, made + 1)
             /\ UNCHANGED strays
    <3>1. made' = made + 1 /\ DOMAIN disk' = DOMAIN disk \cup {made + 1}
      BY <1>1, MakeFacts
    <3>2. StockIs(made, DOMAIN disk, active, strays, warm, Untracked)
      BY DEF Data, Stock
    <3>3. /\ StockIs(made + 1, DOMAIN disk \cup {made + 1}, active \cup {made + 1}, strays,
                     Append(warm, made + 1), Untracked)
          /\ Rented(active \cup {made + 1}, Append(warm, made + 1)) = Rented(active, warm)
      BY ONLY <3>2, StockWarmed
    <3> QED
      BY <1>2, <2>1, <3>1, <3>3 DEF Stock, Out
  <2>2. CASE strays' = strays \cup {made + 1} /\ UNCHANGED <<active, warm>>
    BY <1>1, <1>2, <2>2, StockMakeRaises DEF Data, MakeRaises
  <2> QED
    BY <1>1, <2>1, <2>2
<1>4. Users'
  BY <1>1, <1>2, <1>3, FramesKept, UsersKept DEF Data
<1>5. Closed'
  BY <1>1 DEF Data, Closed
<1> QED
  BY <1>3, <1>4, <1>5 DEF Data

LEMMA DataAcquire ==
  ASSUME Flow, Data, AcquireOne
  PROVE  Data'
<1>0. PICK do \in {"acquire", "lease"} : Call(do)
  BY DEF AcquireOne
<1>1. do \in Getting /\ do \notin Caught /\ do # "session" /\ I.do = do
  BY <1>0 DEF Getting, Caught, Call
<1>2. /\ UNCHANGED <<script, runs, open, live>>
      /\ \/ /\ \E s \in 1..(made + 1) : Given(s, Fresh) /\ var' = [var EXCEPT ![I.v] = s]
            /\ IF do = "lease" THEN Enter("lease") ELSE Returns
            /\ UNCHANGED strays
         \/ /\ MakeRaises(Fresh) /\ Raises
            /\ UNCHANGED <<var, active, warm>>
  BY <1>1 DEF AcquireOne, fixed
<1>3. script = "egress_audit" => do = "acquire" /\ Len(frames) = 2
  BY <1>0, <1>1, AuditGets
<1>4. CASE do = "acquire"
  <2>1. do \notin Entering \cup {"end"} /\ (Returns \/ Raises)
    BY <1>2, <1>4 DEF Entering
  <2>2. /\ frames # <<>> /\ Held' \subseteq Held \cup {I.v} /\ I.v \notin Held
        /\ I.v \in {"a", "b", "c"} /\ (mode' = "raise" => Held' \subseteq Blocked)
    BY <1>0, <1>1, <1>2, <2>1, HeldOnward
  <2>3. frames' = frames
    BY <1>0, <1>2, <2>1, FlowOnward
  <2>4. Untracked = {} /\ Untracked' = {}
    BY <1>0, <1>2, <1>4, <2>1, UntrackedOnward
  <2>5. CASE /\ \E s \in 1..(made + 1) : Given(s, Fresh) /\ var' = [var EXCEPT ![I.v] = s]
             /\ UNCHANGED strays
    <3>1. PICK s \in 1..(made + 1) : Given(s, Fresh) /\ var' = [var EXCEPT ![I.v] = s]
      BY <2>5
    <3>2. Stock' /\ Out' = Out \cup {s} /\ s \notin Out /\ s \in Nat
      BY <2>4, <2>5, <3>1, StockHandedOut DEF Data
    <3>3. /\ Managed => Managed'
          /\ Opened' \subseteq Opened
          /\ script = "egress_audit" => ~(Len(frames') < 2)
      BY <1>3, <2>3, FramesKept
    <3>5. UNCHANGED <<live, script, runs>> /\ Users
      BY <1>2 DEF Data
    <3>6. Users'
      BY <2>2, <3>1, <3>2, <3>3, <3>5, UsersGot
    <3>4. Closed'
      BY <1>2, <2>2, <2>3 DEF Data, Closed
    <3> QED
      BY <3>2, <3>6, <3>4 DEF Data
  <2>6. CASE MakeRaises(Fresh) /\ Raises /\ UNCHANGED <<var, active, warm>>
    <3>1. mode' = "raise"
      BY <1>0, <1>1, <2>6, RaisesLoud
    <3>2. Held' \subseteq Held
      BY <3>1, <2>2, BlockedHeld
    <3>3. Stock' /\ Out' = Out
      BY <2>4, <2>6, StockMakeRaises DEF Data
    <3>4. Users'
      BY <1>2, <2>3, <2>6, <3>2, <3>3, FramesKept, UsersKept DEF Data
    <3>5. Closed'
      BY <1>2, <2>2, <2>3 DEF Data, Closed
    <3> QED
      BY <3>3, <3>4, <3>5 DEF Data
  <2> QED
    BY <1>2, <2>5, <2>6
<1>5. CASE do = "lease"
  <2>1. do \in Entering /\ (Enter(do) \/ Raises)
    BY <1>2, <1>5 DEF Entering
  <2>2. Untracked = {} /\ Untracked' = {}
    BY <1>0, <1>2, <2>1, UntrackedEnter
  <2>3. CASE /\ \E s \in 1..(made + 1) : Given(s, Fresh) /\ var' = [var EXCEPT ![I.v] = s]
             /\ Enter(do) /\ UNCHANGED strays
    <3>1. PICK s \in 1..(made + 1) : Given(s, Fresh) /\ var' = [var EXCEPT ![I.v] = s]
      BY <2>3
    <3>2. Stock' /\ Out' = Out \cup {s} /\ s \notin Out /\ s \in Nat
      BY <2>2, <2>3, <3>1, StockHandedOut DEF Data
    <3>3. /\ Held' \subseteq Held \cup {I.v} /\ I.v \notin Held /\ I.v \in {"a", "b", "c"}
          /\ frames' # <<>>
      BY <1>0, <1>1, <1>2, <2>1, <2>3, HeldEnter
    <3>4. (Managed => Managed') /\ Opened' \subseteq Opened
      BY <1>0, <1>1, <1>2, <2>1, <2>3, FramesEnter
    <3>5. Users'
      BY <1>2, <1>3, <1>5, <3>1, <3>2, <3>3, <3>4, UsersGot DEF Data
    <3>6. Closed'
      BY <1>2, <3>3 DEF Data, Closed
    <3> QED
      BY <3>2, <3>5, <3>6 DEF Data
  <2>4. CASE MakeRaises(Fresh) /\ Raises /\ UNCHANGED <<var, active, warm>>
    <3>1. Held' \subseteq Held /\ frames' = frames
      BY <1>0, <1>2, <2>1, <2>4, HeldBarred, FlowBarred
    <3>2. Stock' /\ Out' = Out
      BY <2>2, <2>4, StockMakeRaises DEF Data
    <3>3. Users'
      BY <1>2, <2>4, <3>1, <3>2, FramesKept, UsersKept DEF Data
    <3>4. frames # <<>>
      BY <1>0, <1>5, LeasePlace
    <3>5. Closed'
      BY <1>2, <3>1, <3>4 DEF Data, Closed
    <3> QED
      BY <3>2, <3>3, <3>5 DEF Data
  <2> QED
    BY <1>2, <1>5, <2>3, <2>4
<1> QED
  BY <1>4, <1>5

LEMMA DataRelease ==
  ASSUME Flow, Data, ReleaseOne
  PROVE  Data'
<1> DEFINE do == "release"
<1>1. /\ Call(do) /\ do \in Using /\ do \notin Caught \cup Entering \cup Getting \cup {"end"}
      /\ (Returns \/ Raises)
  BY DEF ReleaseOne, Using, Caught, Entering, Getting
<1>2. /\ UNCHANGED <<script, runs, open, live, var, warm>>
      /\ active' = active \ {var[I.v]}
      /\ \/ Delete({var[I.v]}) /\ Returns
         \/ DeleteRaises({var[I.v]}) /\ Raises
  BY DEF ReleaseOne, fixed
<1> HIDE DEF do
<1>3. /\ frames # <<>> /\ I.v \in Held
      /\ (mode' = "raise" => Held' \subseteq Blocked)
  BY <1>1, <1>2, HeldOnward
<1>4. mode' = "call" => Held' \subseteq Held \ {I.v}
  BY <1>1, <1>2, HeldOnward DEF do
<1>5. frames' = frames /\ mode' \in {"call", "raise"}
  BY <1>1, <1>2, FlowOnward
<1>6. Untracked = {} /\ Untracked' = {}
  BY <1>1, <1>2, UntrackedOnward DEF do
<1>7. ~Managed /\ Blocked = {} /\ Opened = {} /\ script # "egress_audit"
  BY <1>1, Unmanaged, AuditGets DEF do
<1>8. Held' \subseteq Held \ {I.v} /\ Opened' = {}
  BY <1>3, <1>4, <1>5, <1>7, FramesKept
<1>9. var[I.v] \in Out
  BY <1>3 DEF Data, Users, HoldIs
<1>10. Stock' /\ Out' = Out \ {var[I.v]}
  BY <1>2, <1>6, <1>9, StockReturned DEF Data
<1>11. Users'
  BY <1>2, <1>3, <1>7, <1>8, <1>10, UsersLost DEF Data
<1>12. Closed'
  BY <1>2, <1>3, <1>5 DEF Data, Closed
<1> QED
  BY <1>10, <1>11, <1>12 DEF Data

LEMMA DataRehydrate ==
  ASSUME Flow, Data, RehydrateOne
  PROVE  Data'
<1> DEFINE do == "rehydrate"
<1>1. /\ Call(do) /\ do \notin Caught \cup Entering \cup Getting \cup {"end"}
      /\ (Returns \/ Raises)
  BY DEF RehydrateOne, Caught, Entering, Getting
<1>2. /\ UNCHANGED <<script, runs, open, live, warm, active>>
      /\ \/ /\ Make(shot[var["snap"]]) /\ Returns
            /\ var' = [var EXCEPT ![I.v] = made + 1] /\ UNCHANGED strays
         \/ /\ UNCHANGED <<disk, made, strays>> \/ MakeRaises(shot[var["snap"]])
            /\ Raises /\ UNCHANGED var
  BY DEF RehydrateOne, fixed, pool
<1> HIDE DEF do
<1>3. frames # <<>> /\ Held' \subseteq Held
  BY <1>1, <1>2, HeldOnward
<1>4. I.v \notin Held
  BY <1>1, <1>2, HeldOnward DEF do
<1>5. frames' = frames
  BY <1>1, <1>2, FlowOnward
<1>6. /\ Untracked = {} /\ (mode' = "raise" => Untracked' = {})
      /\ mode' = "call" => Untracked' = {var'["b"]} /\ I.v = "b"
  BY <1>1, <1>2, UntrackedOnward DEF do
<1>7. Closed'
  BY <1>2, <1>3, <1>5 DEF Data, Closed
<1>8. CASE /\ Make(shot[var["snap"]]) /\ Returns
           /\ var' = [var EXCEPT ![I.v] = made + 1] /\ UNCHANGED strays
  <2>1. mode' = "call"
    BY <1>1, <1>8 DEF Call, Returns
  <2>2. I.v = "b" /\ var \in [Variables -> Nat] /\ made \in Nat
    BY <1>6, <2>1 DEF Data, Users, HoldIs, Stock, StockIs
  <2>3. var' = [var EXCEPT !["b"] = made + 1]
    BY <1>8, <2>2
  <2>4. Untracked' = {made + 1}
    BY <1>6, <2>1, <2>2, <2>3 DEF Variables
  <2>5. StockIs(made, DOMAIN disk, active, strays, warm, {})
    BY <1>6 DEF Data, Stock
  <2>6. StockIs(made + 1, DOMAIN disk \cup {made + 1}, active, strays, warm, {made + 1})
    BY ONLY <2>5, StockUntracked
  <2>7. made' = made + 1 /\ DOMAIN disk' = DOMAIN disk \cup {made + 1}
    BY <1>8, MakeFacts
  <2>8. Stock'
    BY <1>2, <1>8, <2>4, <2>6, <2>7 DEF Stock
  <2>9. Out' = Out
    BY <1>2 DEF Out
  <2>10. Users'
    <3>1. PICK p \in Nat : p = made + 1
      BY <2>2
    <3>2. UNCHANGED <<live, script, runs, frames>> /\ Users /\ "b" \notin Held
      BY <1>2, <1>4, <1>5, <2>2 DEF Data
    <3>3. var' = [var EXCEPT !["b"] = p]
      BY <2>3, <3>1
    <3> QED
      BY <1>3, <2>9, <3>2, <3>3, UsersOther
  <2> QED
    BY <1>7, <2>8, <2>10 DEF Data
<1>9. CASE /\ UNCHANGED <<disk, made, strays>> \/ MakeRaises(shot[var["snap"]])
           /\ Raises /\ UNCHANGED var
  <2>1. mode' = "raise"
    BY <1>1, <1>9, RaisesLoud
  <2>2. Stock' /\ Out' = Out
    BY <1>2, <1>6, <1>9, <2>1, StockMakeRaises DEF Data, MakeRaises
  <2>3. Users'
    BY <1>2, <1>3, <1>5, <1>9, <2>2, FramesKept, UsersKept DEF Data
  <2> QED
    BY <1>7, <2>2, <2>3 DEF Data
<1> QED
  BY <1>2, <1>8, <1>9

LEMMA DataTrack ==
  ASSUME Flow, Data, TrackOne
  PROVE  Data'
<1> DEFINE do == "track"
<1>1. /\ Call(do) /\ do \notin Entering \cup {"end"} /\ do \in Getting /\ Returns
  BY DEF TrackOne, Entering, Getting
<1>2. /\ UNCHANGED <<script, runs, open, live, var, warm, disk, made, strays>>
      /\ active' = active \cup {var[I.v]}
  BY DEF TrackOne, fixed, service
<1> HIDE DEF do
<1>3. frames # <<>> /\ Held' \subseteq Held \cup {I.v} /\ I.v \notin Held
  BY <1>1, <1>2, HeldOnward
<1>4. frames' = frames
  BY <1>1, <1>2, FlowOnward
<1>5. Untracked = {var["b"]} /\ I.v = "b" /\ Untracked' = {}
  BY <1>1, <1>2, UntrackedOnward DEF do
<1>6. script # "egress_audit"
  BY <1>1, AuditGets DEF do
<1>7. StockIs(made, DOMAIN disk, active, strays, warm, {var["b"]})
  BY <1>5 DEF Data, Stock
<1>8. /\ StockIs(made, DOMAIN disk, active \cup {var["b"]}, strays, warm, {})
      /\ Rented(active \cup {var["b"]}, warm) = Rented(active, warm) \cup {var["b"]}
      /\ var["b"] \notin Rented(active, warm) /\ var["b"] \in 1..made
  BY ONLY <1>7, StockTracked
<1>9. Stock'
  BY <1>2, <1>5, <1>8 DEF Stock
<1>10. Out' = Out \cup {var["b"]} /\ var["b"] \notin Out
  BY <1>2, <1>5, <1>8 DEF Out
<1>11. var \in [Variables -> Nat]
  BY DEF Data, Users, HoldIs
<1>12. var' = [var EXCEPT !["b"] = var["b"]] /\ var["b"] \in Nat
  BY <1>2, <1>11 DEF Variables
<1>13. Users'
  BY <1>2, <1>3, <1>4, <1>5, <1>6, <1>10, <1>12, FramesKept, UsersGot DEF Data
<1>14. Closed'
  BY <1>2, <1>3, <1>4 DEF Data, Closed
<1> QED
  BY <1>9, <1>13, <1>14 DEF Data

\* The calls that leave the sandboxes with whom they are.
LEMMA DataPlain ==
  ASSUME Flow, Data,
         \/ WaitForWarm \/ EnsureVolume \/ TakeSnapshot \/ DropSnapshot
         \/ ExecOne \/ WriteOne \/ ReadOne \/ DiscardOne
  PROVE  Data'
<1> DEFINE Others == {"wait", "ensure", "snapshot", "drop", "exec", "write", "read", "discard"}
<1>1. \A do \in Others : do \notin Entering \cup Getting \cup {"end", "release", "rehydrate"}
  BY DEF Entering, Getting
<1>2. \E do \in Others : Call(do)
  BY DEF WaitForWarm, EnsureVolume, TakeSnapshot, DropSnapshot, ExecOne, WriteOne, ReadOne, DiscardOne
<1>3. /\ Returns \/ Raises
      /\ UNCHANGED <<script, runs, live, open, active, warm, made, strays>>
  <2>1. CASE WaitForWarm \/ ExecOne \/ ReadOne
    BY <2>1 DEF WaitForWarm, ExecOne, ReadOne, fixed, pool, service
  <2>2. CASE EnsureVolume \/ TakeSnapshot \/ DropSnapshot \/ WriteOne \/ DiscardOne
    BY <2>2 DEF EnsureVolume, TakeSnapshot, DropSnapshot, WriteOne, DiscardOne, fixed, pool
  <2> QED
    BY <2>1, <2>2
<1>4. DOMAIN disk' = DOMAIN disk
  <2>1. CASE WriteOne
    BY <2>1 DEF WriteOne, Put
  <2>2. CASE ~WriteOne
    BY <2>2 DEF WaitForWarm, EnsureVolume, TakeSnapshot, DropSnapshot, ExecOne, ReadOne, DiscardOne, service
  <2> QED
    BY <2>1, <2>2
<1>5. var' = var \/ \E p \in Nat : var' = [var EXCEPT !["snap"] = p]
  <2>1. CASE TakeSnapshot
    <3>1. var' = var \/ (AddShot(var[I.v]) /\ var' = [var EXCEPT !["snap"] = NewShot])
      BY <2>1 DEF TakeSnapshot
    <3>2. AddShot(var[I.v]) => NewShot \in Nat
      <4> HAVE AddShot(var[I.v])
      <4>1. FreeShots # {} /\ FreeShots \subseteq Nat
        BY ShotAssumption DEF AddShot, FreeShots
      <4> QED
        BY <4>1 DEF NewShot
    <3> QED
      BY <3>1, <3>2
  <2>2. CASE ~TakeSnapshot
    BY <2>2 DEF WaitForWarm, EnsureVolume, DropSnapshot, ExecOne, WriteOne, ReadOne, DiscardOne
  <2> QED
    BY <2>1, <2>2
<1> HIDE DEF Others
<1> QED
  BY <1>1, <1>2, <1>3, <1>4, <1>5, DataOnward

LEMMA DataOpenSession ==
  ASSUME Flow, Data, OpenSession
  PROVE  Data'
<1> DEFINE do == "session"
<1>1. /\ Call(do) /\ do \in Entering /\ do \in Getting /\ do \notin Caught /\ I.do = do
      /\ Enter(do) \/ Raises
  BY DEF OpenSession, Entering, Getting, Caught, Call
<1>2. /\ UNCHANGED <<script, runs, open>>
      /\ \/ /\ \/ \E s \in 1..(made + 1) :
                       Given(s, Fresh) /\ var' = [var EXCEPT ![I.v] = s]
               \/ /\ \E content : Make(content)
                  /\ active' = active \cup {made + 1} /\ UNCHANGED warm
                  /\ var' = [var EXCEPT ![I.v] = made + 1]
            /\ live' = [live EXCEPT ![Sid] = var'[I.v]]
            /\ UNCHANGED strays
         \/ /\ UNCHANGED <<disk, made, strays>> \/ \E content : MakeRaises(content)
            /\ Raises
            /\ UNCHANGED <<var, active, warm, live>>
  BY DEF OpenSession, fixed
<1>3. Managed /\ Blocked = {} /\ Opened = {} /\ frames # <<>>
  BY <1>1, SessionPlace
<1>4. script # "egress_audit"
  BY <1>1, AuditGets
<1>5. Untracked = {} /\ Untracked' = {}
  BY <1>1, <1>2, UntrackedEnter
<1>6. Sid \in SessionIds
  BY SidIsSession DEF Data, Users
<1>7. /\ Held' \subseteq Held \cup {I.v} /\ I.v \notin Held
      /\ Managed' /\ Opened' \subseteq {I.v} /\ frames' # <<>>
      /\ Raises => Held' \subseteq Held /\ frames' = frames
  <2>1. CASE Enter(do)
    <3>1. Held' \subseteq Held \cup {I.v} /\ I.v \notin Held /\ frames' # <<>> /\ mode' = "call"
      BY <1>1, <1>2, <2>1, HeldEnter
    <3>2. Managed' /\ Opened' \subseteq {I.v}
      BY <1>1, <1>2, <1>3, <2>1, FramesEnter
    <3>3. ~Raises
      BY <1>1, <3>1, RaisesLoud
    <3> QED
      BY <3>1, <3>2, <3>3
  <2>2. CASE Raises
    <3>1. frames' = frames /\ Held' \subseteq Held /\ I.v \notin Held
      BY <1>1, <1>2, <2>2, HeldBarred, FlowBarred
    <3>2. Managed' /\ Opened' = {}
      BY <1>3, <3>1, FramesKept
    <3> QED
      BY <1>3, <3>1, <3>2
  <2> QED
    BY <1>1, <2>1, <2>2
<1>8. I.v \in {"a", "b", "c"} /\ I.v \in Variables
  <2>1. Fits(script, at, I, Nest(script), Len(frames), Depth(script)[at + 1])
    BY <1>1, Here DEF Call
  <2>2. I.v \in {"a", "b", "c"}
    BY <1>1, <2>1 DEF Fits
  <2> QED
    BY <2>2 DEF Variables
<1>9. Closed'
  BY <1>2, <1>7 DEF Data, Closed
<1>10. var \in [Variables -> Nat]
  BY DEF Data, Users, HoldIs
<1> HIDE DEF do
<1>11. ASSUME NEW s, Stock', Out' = Out \cup {s}, s \notin Out, s \in Nat, s # NoId,
              var' = [var EXCEPT ![I.v] = s], live' = [live EXCEPT ![Sid] = var'[I.v]]
       PROVE  Data'
  <2>1. live' = [live EXCEPT ![Sid] = s]
    BY <1>8, <1>10, <1>11
  <2>2. Users /\ UNCHANGED <<script, runs>>
    BY <1>2 DEF Data
  <2>3. Users'
    BY <1>4, <1>6, <1>7, <1>8, <1>11, <2>1, <2>2, UsersOpened
  <2> QED
    BY <1>9, <1>11, <2>3 DEF Data
<1>12. CASE /\ \E s \in 1..(made + 1) : Given(s, Fresh) /\ var' = [var EXCEPT ![I.v] = s]
            /\ live' = [live EXCEPT ![Sid] = var'[I.v]]
            /\ UNCHANGED strays
  <2>1. PICK s \in 1..(made + 1) : Given(s, Fresh) /\ var' = [var EXCEPT ![I.v] = s]
    BY <1>12
  <2>2. Stock' /\ Out' = Out \cup {s} /\ s \notin Out /\ s \in Nat /\ s # NoId
    BY <1>5, <1>12, <2>1, StockHandedOut DEF Data
  <2> QED
    BY <1>11, <1>12, <2>1, <2>2
<1>13. CASE /\ \E content : Make(content)
            /\ active' = active \cup {made + 1} /\ UNCHANGED warm
            /\ var' = [var EXCEPT ![I.v] = made + 1]
            /\ live' = [live EXCEPT ![Sid] = var'[I.v]]
            /\ UNCHANGED strays
  <2>1. PICK content : Make(content)
    BY <1>13
  <2>2. /\ Stock' /\ Out' = Out \cup {made + 1}
        /\ made + 1 \notin Out /\ made + 1 \in Nat /\ made + 1 # NoId
    BY <1>5, <1>13, <2>1, StockAdded DEF Data
  <2>3. PICK s : s = made + 1
    OBVIOUS
  <2>4. var' = [var EXCEPT ![I.v] = s]
    BY <1>13, <2>3
  <2>5. Stock' /\ Out' = Out \cup {s} /\ s \notin Out /\ s \in Nat /\ s # NoId
    BY <2>2, <2>3
  <2> QED
    BY <1>11, <1>13, <2>4, <2>5
<1>14. CASE /\ UNCHANGED <<disk, made, strays>> \/ \E content : MakeRaises(content)
            /\ Raises
            /\ UNCHANGED <<var, active, warm, live>>
  <2>1. Stock' /\ Out' = Out
    <3>1. PICK content : UNCHANGED <<disk, made, strays>> \/ MakeRaises(content)
      BY <1>14
    <3>2. MakeRaises(content)
      BY <3>1 DEF MakeRaises
    <3> QED
      BY <1>5, <1>14, <3>2, StockMakeRaises DEF Data
  <2>2. Users'
    BY <1>2, <1>7, <1>14, <2>1, FramesKept, UsersKept DEF Data
  <2> QED
    BY <1>9, <2>1, <2>2 DEF Data
<1> QED
  BY <1>2, <1>12, <1>13, <1>14

LEMMA DataEnterTry ==
  ASSUME Flow, Data, EnterTry
  PROVE  Data'
<1> DEFINE do == "try"
<1>1. /\ Call(do) /\ do \in Entering /\ do \notin Getting /\ do # "session" /\ Enter(do)
      /\ UNCHANGED <<script, runs, var, live, open, active, warm, disk, made, strays>>
  BY DEF EnterTry, Entering, Getting, fixed, pool, service
<1>2. Untracked = {} /\ Untracked' = {}
  BY <1>1, UntrackedEnter
<1>3. Stock' /\ Out' = Out
  BY <1>1, <1>2, StockKept DEF Data
<1>4. Held' \subseteq Held /\ frames' # <<>>
  BY <1>1, HeldEnter
<1>5. (Managed => Managed') /\ Opened' \subseteq Opened /\ Len(frames') = Len(frames) + 1 /\ Len(frames) \in Nat
  BY <1>1, FramesEnter
<1>6. Len(frames') < 2 => Len(frames) < 2
  BY <1>5
<1>7. Users'
  BY <1>1, <1>3, <1>4, <1>5, <1>6, UsersKept DEF Data
<1>8. Closed'
  BY <1>1, <1>4 DEF Data, Closed
<1> QED
  BY <1>3, <1>7, <1>8 DEF Data

LEMMA DataLeaveLease ==
  ASSUME Flow, Data, LeaveLease
  PROVE  Data'
<1>1. /\ Leaving("lease") /\ frames # <<>>
      /\ UNCHANGED <<script, runs, var, open, warm, live>>
      /\ active' = active \ {var[F.v]}
      /\ Delete({var[F.v]}) \/ DeleteRaises({var[F.v]})
      /\ \E raised \in BOOLEAN : Left(raised)
  BY DEF LeaveLease, fixed, Leaving
<1>2. PICK raised \in BOOLEAN : Left(raised)
  BY <1>1
<1>3. Held' \subseteq Held \ {F.v} /\ F.v \in Held /\ Len(frames) > 1
  BY <1>1, <1>2, HeldLeft
<1>4. /\ ~Managed /\ script # "egress_audit"
      /\ Opened' = {} /\ Len(frames') = Len(frames) - 1 /\ Len(frames) \in Nat \ {0}
  BY <1>1, <1>2, FramesLeft DEF Left
<1>5. frames' # <<>>
  BY <1>3, <1>4
<1>6. Untracked = {} /\ Untracked' = {}
  BY <1>1, <1>2, UntrackedLeft
<1>7. var[F.v] \in Out
  BY <1>3 DEF Data, Users, HoldIs
<1>8. Stock' /\ Out' = Out \ {var[F.v]}
  BY <1>1, <1>6, <1>7, StockReturned DEF Data
<1>9. Users'
  BY <1>1, <1>3, <1>4, <1>8, UsersLost DEF Data
<1>10. Closed'
  BY <1>1, <1>5 DEF Data, Closed
<1> QED
  BY <1>8, <1>9, <1>10 DEF Data

LEMMA DataLeaveTry ==
  ASSUME Flow, Data, LeaveTry
  PROVE  Data'
<1>1. /\ Leaving("try") /\ Pop /\ mode' = "call" /\ at' = F.after
      /\ DeleteRaises({var[F.v]}) /\ active' = active \ {var[F.v]}
      /\ var' = [var EXCEPT ![F.v] = NoId]
      /\ UNCHANGED <<script, runs, open, warm, live>>
  BY DEF LeaveTry, fixed
<1>2. /\ script = "egress_audit" /\ Len(frames) = 2 /\ Len(frames') = 1
      /\ \A v \in Variables : ~Has(script, at', v)
  BY <1>1, FlowTried
<1>3. ~Managed /\ F.v = "a" /\ Opened' = {}
  BY <1>1, FramesLeft
<1>4. Held' = {}
  BY <1>1, <1>2 DEF Held
<1>5. Untracked = {} /\ Untracked' = {}
  BY <1>1, <1>2 DEF Untracked
<1>6. var["a"] \in Out \/ var["a"] = NoId
  BY <1>2 DEF Data, Users, Tried
<1>7. Stock' /\ Out' = Out \ {var["a"]}
  BY <1>1, <1>3, <1>5, <1>6, StockReturned DEF Data
<1>8. \A i \in SessionIds : live[i] = NoId
  BY <1>3, NobodyLive DEF Data
<1>9. var \in [Variables -> Nat]
  BY DEF Data, Users, HoldIs
<1>10. var' \in [Variables -> Nat] /\ var'["a"] = NoId
  BY <1>1, <1>3, <1>9 DEF Variables, NoId
<1>11. HoldIs(var', Held', Out')
  BY <1>4, <1>10 DEF HoldIs
<1>12. HoldIs(var, Held, Out)'
  BY <1>11
<1>13. Lively'
  BY <1>1, <1>3, <1>8 DEF Data, Users, Lively, LiveIs
<1>14. Tried'
  BY <1>10 DEF Tried
<1>15. frames' # <<>>
  BY <1>2
<1>16. Closed'
  BY <1>1, <1>15 DEF Data, Closed
<1>17. runs' \in 0..MaxRuns
  BY <1>1 DEF Data, Users
<1> QED
  BY <1>7, <1>12, <1>13, <1>14, <1>16, <1>17 DEF Data, Users

LEMMA DataLeaveSession ==
  ASSUME Flow, Data, LeaveSession
  PROVE  Data'
<1>1. /\ Leaving("session") /\ frames # <<>>
      /\ UNCHANGED <<script, runs, var, open, warm>>
      /\ \E raised \in BOOLEAN : Left(raised)
      /\ live' = [live EXCEPT ![Sid] = NoId] /\ active' = active \ {live[Sid]}
      /\ DeleteRaises({live[Sid]})
  BY DEF LeaveSession, CloseSession, fixed, Leaving
<1>2. PICK raised \in BOOLEAN : Left(raised)
  BY <1>1
<1>3. Held' \subseteq Held \ {F.v} /\ F.v \in Held /\ Len(frames) > 1
  BY <1>1, <1>2, HeldLeft
<1>4. /\ F.v \in Opened /\ script # "egress_audit"
      /\ Opened' = {} /\ Len(frames') = Len(frames) - 1 /\ Len(frames) \in Nat \ {0}
  BY <1>1, <1>2, FramesLeft DEF Left
<1>5. frames' # <<>>
  BY <1>3, <1>4
<1>6. Untracked = {} /\ Untracked' = {}
  BY <1>1, <1>2, UntrackedLeft
<1>7. live[Sid] = var[F.v] /\ Sid \in SessionIds
  BY <1>4, SidIsSession DEF Data, Users, Lively, LiveIs
<1>8. live[Sid] \in Out
  BY <1>3, <1>7 DEF Data, Users, HoldIs
<1>9. Stock' /\ Out' = Out \ {live[Sid]}
  BY <1>1, <1>6, <1>8, StockReturned DEF Data
<1>10. \E u \in Held : var[u] = live[Sid] /\ Held' \subseteq Held \ {u}
  BY <1>3, <1>7
<1>11. Users'
  BY <1>1, <1>4, <1>7, <1>9, <1>10, UsersClosed DEF Data
<1>12. Closed'
  BY <1>1, <1>5 DEF Data, Closed
<1> QED
  BY <1>9, <1>11, <1>12 DEF Data

LEMMA DataLeaveManagerLive ==
  ASSUME Flow, Data, LeaveManagerLive
  PROVE  Data'
<1>1. /\ Leaving("manager") /\ frames # <<>> /\ live[Sid] # NoId
      /\ UNCHANGED <<script, runs, var, open, warm, at, mode, frames>>
      /\ live' = [live EXCEPT ![Sid] = NoId] /\ active' = active \ {live[Sid]}
      /\ DeleteRaises({live[Sid]})
  BY DEF LeaveManagerLive, CloseSession, fixed, control, Leaving
<1>2. Held = {} /\ script # "egress_audit"
  BY <1>1, FramesLeft
<1>3. Held' = {} /\ Opened' = {}
  BY <1>1, <1>2, OpenedHeld, FramesKept DEF Held, Blocked
<1>4. Untracked = {}
  BY <1>1, UntrackedLeft
<1>5. Untracked' = {}
  BY <1>1, <1>4 DEF Untracked
<1>6. Sid \in SessionIds
  BY SidIsSession DEF Data, Users
<1>7. live[Sid] \in Out
  BY <1>1, <1>6 DEF Data, Users, Lively, LiveIs
<1>8. Stock' /\ Out' = Out \ {live[Sid]}
  BY <1>1, <1>4, <1>5, <1>7, StockReturned DEF Data
<1>9. Users'
  BY <1>1, <1>2, <1>3, <1>6, <1>8, UsersClosed DEF Data
<1>10. Closed'
  BY <1>1 DEF Data, Closed
<1> QED
  BY <1>8, <1>9, <1>10 DEF Data

LEMMA DataLeavePool ==
  ASSUME Flow, Data, LeavePool
  PROVE  Data'
<1>1. /\ Leaving("pool") \/ (Leaving("manager") /\ live[Sid] = NoId)
      /\ UNCHANGED <<script, runs, var, live, made>> /\ Left(FALSE)
      /\ open' = FALSE /\ active' = {} /\ warm' = <<>>
      /\ \E S \in SUBSET active :
            /\ disk' = Restrict(disk, DOMAIN disk \ (active \ S))
            /\ strays' = strays \cup (S \cap DOMAIN disk)
  BY DEF LeavePool, fixed
<1>2. PICK kind \in {"pool", "manager"} : Leaving(kind)
  BY <1>1
<1>3. Held' = {}
  BY <1>1, <1>2, HeldLeft
<1>4. /\ Opened' = {}
      /\ script = "egress_audit" => kind = "pool" /\ Len(frames) = 1
  BY <1>1, <1>2, FramesLeft DEF Left
<1>5. \A i \in SessionIds : live[i] = NoId
  <2>1. CASE Leaving("pool")
    BY <2>1, FramesLeft, NobodyLive DEF Data
  <2>2. CASE live[Sid] = NoId
    BY <2>2 DEF Data, Users, Lively, LiveIs
  <2> QED
    BY <1>1, <2>1, <2>2
<1>6. script = "egress_audit" => var["a"] = NoId
  <2> HAVE script = "egress_audit"
  <2>1. Len(frames) < 2
    BY <1>4
  <2> QED
    BY <2>1 DEF Data, Users, Tried
<1>7. Untracked = {} /\ Untracked' = {}
  BY <1>1, <1>2, UntrackedLeft
<1>8. PICK S \in SUBSET active : /\ disk' = Restrict(disk, DOMAIN disk \ (active \ S))
                                 /\ strays' = strays \cup (S \cap DOMAIN disk)
  BY <1>1
<1>9. DOMAIN disk' = DOMAIN disk \ (active \ S)
  BY <1>8 DEF Restrict
<1>10. StockIs(made, DOMAIN disk, active, strays, warm, {})
  BY <1>7 DEF Data, Stock
<1>11. /\ StockIs(made, DOMAIN disk \ (active \ S), {}, strays \cup (S \cap DOMAIN disk), <<>>, {})
       /\ Rented({}, <<>>) = {}
  BY ONLY <1>10, StockCleared
<1>12. Stock' /\ Out' = {}
  BY <1>1, <1>7, <1>8, <1>9, <1>11 DEF Stock, Out
<1>13. Users'
  BY <1>1, <1>3, <1>4, <1>5, <1>6, <1>12, UsersNone DEF Data
<1>14. Closed'
  BY <1>1 DEF Closed
<1> QED
  BY <1>12, <1>13, <1>14 DEF Data

LEMMA DataNext == Flow /\ Data /\ [Next]_vars => Data'
<1> SUFFICES ASSUME Flow, Data, [Next]_vars PROVE Data'
  OBVIOUS
<1>1. ASSUME NEW name \in Scripts, Start(name) PROVE Data'
  BY <1>1, DataStart
<1>2. CASE Finish
  BY <1>2, DataFinish
<1>3. CASE OpenPool
  BY <1>3, DataOpenPool
<1>4. CASE Warmer
  BY <1>4, DataWarmer
<1>5. CASE \/ WaitForWarm \/ EnsureVolume \/ TakeSnapshot \/ DropSnapshot
           \/ ExecOne \/ WriteOne \/ ReadOne \/ DiscardOne
  BY <1>5, DataPlain
<1>6. CASE AcquireOne
  BY <1>6, DataAcquire
<1>7. CASE ReleaseOne
  BY <1>7, DataRelease
<1>8. CASE RehydrateOne
  BY <1>8, DataRehydrate
<1>9. CASE TrackOne
  BY <1>9, DataTrack
<1>10. CASE OpenSession
  BY <1>10, DataOpenSession
<1>11. CASE EnterTry
  BY <1>11, DataEnterTry
<1>12. CASE LeaveLease
  BY <1>12, DataLeaveLease
<1>13. CASE LeaveTry
  BY <1>13, DataLeaveTry
<1>14. CASE LeaveSession
  BY <1>14, DataLeaveSession
<1>15. CASE LeaveManagerLive
  BY <1>15, DataLeaveManagerLive
<1>16. CASE LeavePool
  BY <1>16, DataLeavePool
<1>17. CASE UNCHANGED vars
  <2>1. /\ UNCHANGED <<script, runs, at, mode, frames, var, open, active, warm, live, disk, made, strays>>
    BY <1>17 DEF vars
  <2>2. Untracked' = Untracked /\ Held' = Held
    BY <2>1 DEF Untracked, Held, Blocked
  <2>3. Stock' /\ Out' = Out
    BY <2>1, <2>2, StockKept DEF Data
  <2>4. Users'
    BY <2>1, <2>2, <2>3, FramesKept, UsersKept DEF Data
  <2>5. Closed'
    BY <2>1 DEF Data, Closed
  <2> QED
    BY <2>3, <2>4, <2>5 DEF Data
<1> QED
  BY <1>1, <1>2, <1>3, <1>4, <1>5, <1>6, <1>7, <1>8, <1>9, <1>10, <1>11, <1>12, <1>13,
     <1>14, <1>15, <1>16, <1>17 DEF Next

\* Who has which sandbox, in every state.
THEOREM DataAlways == Spec => []Data
<1>1. Init => Flow /\ Data
  BY FlowInit, DataInit
<1>2. Flow /\ Data /\ [Next]_vars => Flow' /\ Data'
  BY FlowNext, DataNext
<1> QED
  BY <1>1, <1>2, PTL DEF Spec

-----------------------------------------------------------------------------
(* The properties.                                                         *)

\* A script that is over, however it ended, has no sandbox left but those whose
\* create or delete raised, no open pool and no live session: the `with` blocks
\* and the audit's finally.
THEOREM ExitsClean == Spec => []CleanExit
<1>1. ASSUME Flow, Data PROVE CleanExit
  <2> SUFFICES ASSUME mode = "idle"
               PROVE  /\ DOMAIN disk \subseteq strays
                      /\ ~open /\ active = {} /\ \A i \in SessionIds : live[i] = NoId
    BY DEF CleanExit
  <2>1. frames = <<>>
    BY <1>1, Idle
  <2>2. ~open /\ active = {} /\ ~Managed /\ Untracked = {}
    BY <1>1, <2>1 DEF Data, Closed, Managed, Untracked
  <2>3. DOMAIN disk \subseteq strays
    BY <1>1, <2>2 DEF Data, Stock, StockIs
  <2>4. \A i \in SessionIds : live[i] = NoId
    BY <1>1, <2>2, NobodyLive DEF Data
  <2> QED
    BY <2>2, <2>3, <2>4
<1> QED
  BY <1>1, FlowAlways, DataAlways, PTL

\* A script only addresses sandboxes that were handed out to it and still
\* exist: what acquire(), lease() and session() gave and nothing took back.
THEOREM AddressesItsOwn == Spec => []OwnSandbox
<1>1. ASSUME Flow, Data PROVE OwnSandbox
  <2>1. \A v \in Held : var[v] \in DOMAIN disk \ Range(warm)
    BY <1>1, OutMade DEF Data, Users, HoldIs, Out, Rented, Range, Stock, StockIs
  <2>2. ASSUME NEW do \in {"exec", "write", "read", "snapshot", "release"}, Call(do)
        PROVE  I.v \in Held
    <3>1. mode = "call" /\ at <= Len(Code(script)) /\ I.do = do
      BY <2>2 DEF Call
    <3>2. Fits(script, at, I, Nest(script), Len(frames), Depth(script)[at + 1])
      BY <1>1, <3>1, Here
    <3>3. Has(script, at, I.v) /\ I.v \in Variables
      BY <3>1, <3>2 DEF Fits, Using, Variables
    <3> QED
      BY <3>1, <3>3 DEF Held
  <2>3. ASSUME NEW f \in Range(frames), f.kind \in {"lease", "session"}
        PROVE  f.v \in Held
    <3>1. f.v \in Blocked
      BY <2>3 DEF Range, Blocked, Flow, Blocks
    <3> QED
      BY <1>1, <3>1, BlockedHeld
  <2>4. \A x \in Addressed : \E v \in Held : x = var[v]
    BY <2>2, <2>3 DEF Addressed
  <2> QED
    BY <2>1, <2>4 DEF OwnSandbox
<1> QED
  BY <1>1, FlowAlways, DataAlways, PTL

-----------------------------------------------------------------------------
(* Which call is where, and what it works on.                              *)

Place(name, i, x) ==
    /\ x.sizes \subseteq Nat
    /\ x.do = "snapshot" <=> name = "introspect" /\ i = 6
    /\ x.do = "rehydrate" <=> name = "introspect" /\ i = 8
    /\ x.do = "track" <=> name = "introspect" /\ i = 9
    /\ x.do = "drop" <=> name = "introspect" /\ i = 12
    /\ x.do = "wait" <=> name = "warm_pool" /\ i = 2
    /\ x.do = "session" <=> \/ name = "install" /\ i = 2
                            \/ name = "volume_probe" /\ i \in {4, 7}
    /\ x.do = "discard" <=> \/ name = "discard" /\ i = 2
                            \/ name = "volume_probe" /\ i = 10
    /\ x.do = "read" <=> \/ name = "read" /\ i = 3
                         \/ name = "both" /\ i = 9
                         \/ name = "volume_probe" /\ i = 8
                         \/ name = "introspect" /\ i = 11
    /\ x.do = "write" <=> \/ name \in {"write", "both"} /\ i = 4
                          \/ name \in {"install", "introspect"} /\ i = 3
                          \/ name = "volume_probe" /\ i = 5
    /\ name = "warm_pool" => /\ x.do = "acquire" <=> i \in 3..5
                             /\ x.do = "acquire" => /\ x.on = "disk"
                                                    /\ x.v = "a" <=> i = 3
                                                    /\ x.v = "b" <=> i = 4
                             /\ x.do = "pool" <=> i = 1
                             /\ x.do = "pool" => x.sizes = {2}
    /\ name = "introspect" => /\ x.do = "pool" => i = 1
                              /\ x.do = "acquire" => i = 2
                              /\ x.do = "end" => i = 13
                              /\ x.do \in {"read", "write"} => x.on = "disk"
    /\ name = "install" /\ x.do = "write" => x.on = "disk"
    /\ name = "both" => (i = 8 => x.do = "lease") /\ (x.do = "lease" => x.on = "demo")
    /\ name \in {"write", "both"} /\ x.do = "write" => x.on = "demo"
    /\ name \in {"read", "both"} /\ x.do = "read" => x.on = "demo" /\ x.checked /\ ~x.quiet
    /\ name = "volume_probe" => /\ x.do \in {"read", "write"} =>
                                       x.on = "probe" /\ x.checked /\ ~x.quiet
                                /\ i = 6 => x.do = "end"

LEMMA WarmPoolPlace ==
  \A i \in 1..Len(Code("warm_pool")) : Place("warm_pool", i, Code("warm_pool")[i])
<1> DEFINE c == Code("warm_pool")
<1>1. Len(c) = 12
  BY WarmPoolText
<1>2. c[1].sizes = {2} /\ c[3].on = "disk" /\ c[4].on = "disk" /\ c[5].on = "disk"
  BY DEF c, Code, WarmPool, Pool, Acquire, Ins
<1> HIDE DEF c
<1>3. Place("warm_pool", 1, c[1]) /\ Place("warm_pool", 2, c[2]) /\ Place("warm_pool", 3, c[3]) /\ Place("warm_pool", 4, c[4])
  BY WarmPoolText, <1>2 DEF c, Word, Place
<1>4. Place("warm_pool", 5, c[5]) /\ Place("warm_pool", 6, c[6]) /\ Place("warm_pool", 7, c[7]) /\ Place("warm_pool", 8, c[8])
  BY WarmPoolText, <1>2 DEF c, Word, Place
<1>5. Place("warm_pool", 9, c[9]) /\ Place("warm_pool", 10, c[10]) /\ Place("warm_pool", 11, c[11]) /\ Place("warm_pool", 12, c[12])
  BY WarmPoolText, <1>2 DEF c, Word, Place
<1>6. \A i \in 1..12 : Place("warm_pool", i, c[i])
  BY ONLY <1>3, <1>4, <1>5
<1> QED
  BY <1>1, <1>6 DEF c

LEMMA EgressDemoPlace ==
  \A i \in 1..Len(Code("egress_demo")) : Place("egress_demo", i, Code("egress_demo")[i])
<1> DEFINE c == Code("egress_demo")
<1>1. Len(c) = 12
  BY EgressDemoText
<1> HIDE DEF c
<1>3. Place("egress_demo", 1, c[1]) /\ Place("egress_demo", 2, c[2]) /\ Place("egress_demo", 3, c[3]) /\ Place("egress_demo", 4, c[4])
  BY EgressDemoText DEF c, Word, Place
<1>4. Place("egress_demo", 5, c[5]) /\ Place("egress_demo", 6, c[6]) /\ Place("egress_demo", 7, c[7]) /\ Place("egress_demo", 8, c[8])
  BY EgressDemoText DEF c, Word, Place
<1>5. Place("egress_demo", 9, c[9]) /\ Place("egress_demo", 10, c[10]) /\ Place("egress_demo", 11, c[11]) /\ Place("egress_demo", 12, c[12])
  BY EgressDemoText DEF c, Word, Place
<1>6. \A i \in 1..12 : Place("egress_demo", i, c[i])
  BY ONLY <1>3, <1>4, <1>5
<1> QED
  BY <1>1, <1>6 DEF c

LEMMA WriteTurnPlace ==
  \A i \in 1..Len(Code("write")) : Place("write", i, Code("write")[i])
<1> DEFINE c == Code("write")
<1>1. Len(c) = 6
  BY WriteTurnText
<1>2. c[4].on = "demo"
  BY WriteTurnCalls DEF c, Code, Checked, On, Write, Ins
<1> HIDE DEF c
<1>3. Place("write", 1, c[1]) /\ Place("write", 2, c[2]) /\ Place("write", 3, c[3]) /\ Place("write", 4, c[4])
  BY WriteTurnText, <1>2 DEF c, Word, Place
<1>4. Place("write", 5, c[5]) /\ Place("write", 6, c[6])
  BY WriteTurnText, <1>2 DEF c, Word, Place
<1>5. \A i \in 1..6 : Place("write", i, c[i])
  BY ONLY <1>3, <1>4
<1> QED
  BY <1>1, <1>5 DEF c

LEMMA ReadTurnPlace ==
  \A i \in 1..Len(Code("read")) : Place("read", i, Code("read")[i])
<1> DEFINE c == Code("read")
<1>1. Len(c) = 5
  BY ReadTurnText
<1>2. c[3].on = "demo" /\ c[3].checked /\ ~c[3].quiet
  BY ReadTurnCalls DEF c, Code, Checked, On, Read, Ins
<1> HIDE DEF c
<1>3. Place("read", 1, c[1]) /\ Place("read", 2, c[2]) /\ Place("read", 3, c[3]) /\ Place("read", 4, c[4])
  BY ReadTurnText, <1>2 DEF c, Word, Place
<1>4. Place("read", 5, c[5])
  BY ReadTurnText, <1>2 DEF c, Word, Place
<1>5. \A i \in 1..5 : Place("read", i, c[i])
  BY ONLY <1>3, <1>4
<1> QED
  BY <1>1, <1>5 DEF c

LEMMA BothTurnsPlace ==
  \A i \in 1..Len(Code("both")) : Place("both", i, Code("both")[i])
<1> DEFINE c == Code("both")
<1>1. Len(c) = 11
  BY BothTurnsText
<1>2. c[3].on = "demo" /\ c[4].on = "demo" /\ c[8].on = "demo" /\ c[9].on = "demo" /\ c[9].checked /\ ~c[9].quiet
  BY BothTurnsCalls DEF c, Code, Checked, On, Read, Write, Lease, Ins
<1> HIDE DEF c
<1>3. Place("both", 1, c[1]) /\ Place("both", 2, c[2]) /\ Place("both", 3, c[3]) /\ Place("both", 4, c[4])
  BY BothTurnsText, <1>2 DEF c, Word, Place
<1>4. Place("both", 5, c[5]) /\ Place("both", 6, c[6]) /\ Place("both", 7, c[7]) /\ Place("both", 8, c[8])
  BY BothTurnsText, <1>2 DEF c, Word, Place
<1>5. Place("both", 9, c[9]) /\ Place("both", 10, c[10]) /\ Place("both", 11, c[11])
  BY BothTurnsText, <1>2 DEF c, Word, Place
<1>6. \A i \in 1..11 : Place("both", i, c[i])
  BY ONLY <1>3, <1>4, <1>5
<1> QED
  BY <1>1, <1>6 DEF c

LEMMA InstallPlace ==
  \A i \in 1..Len(Code("install")) : Place("install", i, Code("install")[i])
<1> DEFINE c == Code("install")
<1>1. Len(c) = 6
  BY InstallText
<1>2. c[3].on = "disk"
  BY DEF c, Code, Install, Quietly, Write, Ins
<1> HIDE DEF c
<1>3. Place("install", 1, c[1]) /\ Place("install", 2, c[2]) /\ Place("install", 3, c[3]) /\ Place("install", 4, c[4])
  BY InstallText, <1>2 DEF c, Word, Place
<1>4. Place("install", 5, c[5]) /\ Place("install", 6, c[6])
  BY InstallText, <1>2 DEF c, Word, Place
<1>5. \A i \in 1..6 : Place("install", i, c[i])
  BY ONLY <1>3, <1>4
<1> QED
  BY <1>1, <1>5 DEF c

LEMMA DiscardTurnPlace ==
  \A i \in 1..Len(Code("discard")) : Place("discard", i, Code("discard")[i])
<1> DEFINE c == Code("discard")
<1>1. Len(c) = 3
  BY DiscardTurnText
<1> HIDE DEF c
<1>3. Place("discard", 1, c[1]) /\ Place("discard", 2, c[2]) /\ Place("discard", 3, c[3])
  BY DiscardTurnText DEF c, Word, Place
<1>4. \A i \in 1..3 : Place("discard", i, c[i])
  BY ONLY <1>3
<1> QED
  BY <1>1, <1>4 DEF c

LEMMA ConsoleTracePlace ==
  \A i \in 1..Len(Code("console")) : Place("console", i, Code("console")[i])
<1> DEFINE c == Code("console")
<1>1. Len(c) = 7
  BY ConsoleTraceText
<1> HIDE DEF c
<1>3. Place("console", 1, c[1]) /\ Place("console", 2, c[2]) /\ Place("console", 3, c[3]) /\ Place("console", 4, c[4])
  BY ConsoleTraceText DEF c, Word, Place
<1>4. Place("console", 5, c[5]) /\ Place("console", 6, c[6]) /\ Place("console", 7, c[7])
  BY ConsoleTraceText DEF c, Word, Place
<1>5. \A i \in 1..7 : Place("console", i, c[i])
  BY ONLY <1>3, <1>4
<1> QED
  BY <1>1, <1>5 DEF c

LEMMA InsightsTracePlace ==
  \A i \in 1..Len(Code("insights")) : Place("insights", i, Code("insights")[i])
<1> DEFINE c == Code("insights")
<1>1. Len(c) = 7
  BY InsightsTraceText
<1> HIDE DEF c
<1>3. Place("insights", 1, c[1]) /\ Place("insights", 2, c[2]) /\ Place("insights", 3, c[3]) /\ Place("insights", 4, c[4])
  BY InsightsTraceText DEF c, Word, Place
<1>4. Place("insights", 5, c[5]) /\ Place("insights", 6, c[6]) /\ Place("insights", 7, c[7])
  BY InsightsTraceText DEF c, Word, Place
<1>5. \A i \in 1..7 : Place("insights", i, c[i])
  BY ONLY <1>3, <1>4
<1> QED
  BY <1>1, <1>5 DEF c

LEMMA CodeActPlace ==
  \A i \in 1..Len(Code("code_act")) : Place("code_act", i, Code("code_act")[i])
<1> DEFINE c == Code("code_act")
<1>1. Len(c) = 7
  BY CodeActText
<1> HIDE DEF c
<1>3. Place("code_act", 1, c[1]) /\ Place("code_act", 2, c[2]) /\ Place("code_act", 3, c[3]) /\ Place("code_act", 4, c[4])
  BY CodeActText DEF c, Word, Place
<1>4. Place("code_act", 5, c[5]) /\ Place("code_act", 6, c[6]) /\ Place("code_act", 7, c[7])
  BY CodeActText DEF c, Word, Place
<1>5. \A i \in 1..7 : Place("code_act", i, c[i])
  BY ONLY <1>3, <1>4
<1> QED
  BY <1>1, <1>5 DEF c

LEMMA IntrospectPlace ==
  \A i \in 1..Len(Code("introspect")) : Place("introspect", i, Code("introspect")[i])
<1> DEFINE c == Code("introspect")
<1>1. Len(c) = 13
  BY IntrospectText
<1>2. c[3].on = "disk" /\ c[11].on = "disk"
  BY DEF c, Code, Introspect, MarkerProbe, Quietly, Read, Write, Ins
<1> HIDE DEF c
<1>3. Place("introspect", 1, c[1]) /\ Place("introspect", 2, c[2]) /\ Place("introspect", 3, c[3]) /\ Place("introspect", 4, c[4])
  BY IntrospectText, <1>2 DEF c, Word, Place
<1>4. Place("introspect", 5, c[5]) /\ Place("introspect", 6, c[6]) /\ Place("introspect", 7, c[7]) /\ Place("introspect", 8, c[8])
  BY IntrospectText, <1>2 DEF c, Word, Place
<1>5. Place("introspect", 9, c[9]) /\ Place("introspect", 10, c[10]) /\ Place("introspect", 11, c[11]) /\ Place("introspect", 12, c[12])
  BY IntrospectText, <1>2 DEF c, Word, Place
<1>6. Place("introspect", 13, c[13])
  BY IntrospectText, <1>2 DEF c, Word, Place
<1>7. \A i \in 1..13 : Place("introspect", i, c[i])
  BY ONLY <1>3, <1>4, <1>5, <1>6
<1> QED
  BY <1>1, <1>7 DEF c

LEMMA EgressAuditPlace ==
  \A i \in 1..Len(Code("egress_audit")) : Place("egress_audit", i, Code("egress_audit")[i])
<1> DEFINE c == Code("egress_audit")
<1>1. Len(c) = 14
  BY EgressAuditText
<1> HIDE DEF c
<1>3. Place("egress_audit", 1, c[1]) /\ Place("egress_audit", 2, c[2]) /\ Place("egress_audit", 3, c[3]) /\ Place("egress_audit", 4, c[4])
  BY EgressAuditText DEF c, Word, Place
<1>4. Place("egress_audit", 5, c[5]) /\ Place("egress_audit", 6, c[6]) /\ Place("egress_audit", 7, c[7]) /\ Place("egress_audit", 8, c[8])
  BY EgressAuditText DEF c, Word, Place
<1>5. Place("egress_audit", 9, c[9]) /\ Place("egress_audit", 10, c[10]) /\ Place("egress_audit", 11, c[11]) /\ Place("egress_audit", 12, c[12])
  BY EgressAuditText DEF c, Word, Place
<1>6. Place("egress_audit", 13, c[13]) /\ Place("egress_audit", 14, c[14])
  BY EgressAuditText DEF c, Word, Place
<1>7. \A i \in 1..14 : Place("egress_audit", i, c[i])
  BY ONLY <1>3, <1>4, <1>5, <1>6
<1> QED
  BY <1>1, <1>7 DEF c

LEMMA VolumeProbePlace ==
  \A i \in 1..Len(Code("volume_probe")) : Place("volume_probe", i, Code("volume_probe")[i])
<1> DEFINE c == Code("volume_probe")
<1>1. Len(c) = 12
  BY VolumeProbeText
<1>2. c[5].on = "probe" /\ c[5].checked /\ ~c[5].quiet /\ c[8].on = "probe" /\ c[8].checked /\ ~c[8].quiet
  BY DEF c, Code, VolumeProbe, Checked, On, Read, Write, Ins
<1> HIDE DEF c
<1>3. Place("volume_probe", 1, c[1]) /\ Place("volume_probe", 2, c[2]) /\ Place("volume_probe", 3, c[3]) /\ Place("volume_probe", 4, c[4])
  BY VolumeProbeText, <1>2 DEF c, Word, Place
<1>4. Place("volume_probe", 5, c[5]) /\ Place("volume_probe", 6, c[6]) /\ Place("volume_probe", 7, c[7]) /\ Place("volume_probe", 8, c[8])
  BY VolumeProbeText, <1>2 DEF c, Word, Place
<1>5. Place("volume_probe", 9, c[9]) /\ Place("volume_probe", 10, c[10]) /\ Place("volume_probe", 11, c[11]) /\ Place("volume_probe", 12, c[12])
  BY VolumeProbeText, <1>2 DEF c, Word, Place
<1>6. \A i \in 1..12 : Place("volume_probe", i, c[i])
  BY ONLY <1>3, <1>4, <1>5
<1> QED
  BY <1>1, <1>6 DEF c

LEMMA Placed ==
  \A name \in Scripts : \A i \in 1..Len(Code(name)) : Place(name, i, Code(name)[i])
BY WarmPoolPlace, EgressDemoPlace, WriteTurnPlace, ReadTurnPlace, BothTurnsPlace,
   InstallPlace, DiscardTurnPlace, ConsoleTracePlace, InsightsTracePlace, CodeActPlace,
   IntrospectPlace, EgressAuditPlace, VolumeProbePlace DEF Scripts

LEMMA Where ==
  ASSUME Flow, NEW do, Call(do)
  PROVE  /\ mode = "call" /\ I.do = do /\ script \in Scripts /\ script # NoName
         /\ at \in 1..Len(Code(script)) /\ Len(Code(script)) \in Nat
         /\ Place(script, at, I)
<1>1. mode = "call" /\ at <= Len(Code(script)) /\ I.do = do
  BY DEF Call
<1>2. script \in Scripts /\ at \in 1..Len(Code(script)) /\ Len(Code(script)) \in Nat
  BY <1>1, Here
<1> QED
  BY <1>1, <1>2, Placed, NoNameIsNoScript DEF I

LEMMA LeavesAt ==
  ASSUME Flow, NEW kind, Leaving(kind), mode = "call"
  PROVE  Call("end")
BY DEF Leaving

\* A step of a script: it goes on by a call, or an exception is under way; else
\* the script starts, ends or leaves a try block, or others move.
GoesOn == script' = script /\ mode = "call" /\ mode' = "call" /\ at' = at + 1 /\ Call(I.do)

LEMMA Moves ==
  ASSUME Flow, Next
  PROVE  \/ \E name \in Scripts : Start(name)
         \/ Finish
         \/ LeaveTry
         \/ (Warmer \/ LeaveManagerLive) /\ UNCHANGED <<script, at, mode, frames>>
         \/ script' = script /\ mode' = "raise" /\ at' = at
         \/ GoesOn
<1> DEFINE Goal == (script' = script /\ mode' = "raise" /\ at' = at) \/ GoesOn
<1> SUFFICES ASSUME ~(\E name \in Scripts : Start(name)), ~Finish, ~LeaveTry, ~Warmer, ~LeaveManagerLive
             PROVE  Goal
  BY DEF Warmer, LeaveManagerLive, fixed, control
<1>1. CASE \/ WaitForWarm \/ EnsureVolume \/ ReleaseOne \/ RehydrateOne \/ TrackOne
           \/ TakeSnapshot \/ DropSnapshot \/ ExecOne \/ WriteOne \/ ReadOne \/ DiscardOne
  <2>1. mode = "call" /\ script' = script /\ (Returns \/ Raises) /\ Call(I.do)
    <3>1. CASE \/ WaitForWarm \/ EnsureVolume \/ ReleaseOne \/ RehydrateOne \/ TrackOne
      BY <3>1 DEF WaitForWarm, EnsureVolume, ReleaseOne, RehydrateOne, TrackOne, Call, fixed
    <3>2. CASE \/ TakeSnapshot \/ DropSnapshot \/ ExecOne \/ WriteOne \/ ReadOne \/ DiscardOne
      BY <3>2 DEF TakeSnapshot, DropSnapshot, ExecOne, WriteOne, ReadOne, DiscardOne, Call, fixed
    <3> QED
      BY <1>1, <3>1, <3>2
  <2> QED
    BY <2>1 DEF Returns, Raises, GoesOn
<1>2. CASE OpenPool \/ AcquireOne \/ OpenSession \/ EnterTry
  <2>1. /\ mode = "call" /\ script' = script /\ Call(I.do)
        /\ Returns \/ Raises \/ \E kind : Enter(kind)
    BY <1>2 DEF OpenPool, AcquireOne, OpenSession, EnterTry, Call, fixed
  <2> QED
    BY <2>1 DEF Returns, Raises, Enter, GoesOn
<1>3. CASE LeaveLease \/ LeaveSession \/ LeavePool
  <2>1. /\ script' = script /\ \E raised \in BOOLEAN : Left(raised)
        /\ (mode = "call" /\ Call(I.do)) \/ mode = "raise"
    BY <1>3 DEF LeaveLease, LeaveSession, LeavePool, Leaving, Call, fixed
  <2> QED
    BY <2>1 DEF Left, GoesOn
<1> HIDE DEF Goal
<1> QED
  BY <1>1, <1>2, <1>3 DEF Next

\* Which operation a call is.
LEMMA Acts ==
  ASSUME Flow, Next, GoesOn
  PROVE  LET do == I.do
         IN  /\ Place(script, at, I) /\ at \in 1..Len(Code(script)) /\ script \in Scripts
             /\ \/ do \in {"pool", "manager"} /\ OpenPool
                \/ do = "wait" /\ WaitForWarm
                \/ do = "ensure" /\ EnsureVolume
                \/ do \in {"acquire", "lease"} /\ AcquireOne
                \/ do = "release" /\ ReleaseOne
                \/ do = "rehydrate" /\ RehydrateOne
                \/ do = "track" /\ TrackOne
                \/ do = "snapshot" /\ TakeSnapshot
                \/ do = "drop" /\ DropSnapshot
                \/ do = "exec" /\ ExecOne
                \/ do = "write" /\ WriteOne
                \/ do = "read" /\ ReadOne
                \/ do = "session" /\ OpenSession
                \/ do = "discard" /\ DiscardOne
                \/ do = "try" /\ EnterTry
                \/ do = "end" /\ LeaveLease
                \/ do = "end" /\ LeaveTry
                \/ do = "end" /\ LeaveSession
                \/ do = "end" /\ LeavePool
<1>1. Place(script, at, I) /\ at \in 1..Len(Code(script)) /\ script \in Scripts /\ at \in Nat
  BY Where DEF GoesOn
<1>2. /\ ~(\E name \in Scripts : Start(name)) /\ ~Finish /\ ~Warmer /\ ~LeaveManagerLive
  BY <1>1 DEF GoesOn, Start, Finish, Warmer, LeaveManagerLive, control
<1>3. \A do : Call(do) => do = I.do
  BY DEF Call
<1>4. \A kind : Leaving(kind) => I.do = "end"
  BY <1>3 DEF Leaving, GoesOn
<1>5. /\ OpenPool => I.do \in {"pool", "manager"}
      /\ WaitForWarm => I.do = "wait"
      /\ EnsureVolume => I.do = "ensure"
      /\ AcquireOne => I.do \in {"acquire", "lease"}
      /\ ReleaseOne => I.do = "release"
      /\ RehydrateOne => I.do = "rehydrate"
      /\ TrackOne => I.do = "track"
  BY <1>3 DEF OpenPool, WaitForWarm, EnsureVolume, AcquireOne, ReleaseOne, RehydrateOne, TrackOne
<1>6. /\ TakeSnapshot => I.do = "snapshot"
      /\ DropSnapshot => I.do = "drop"
      /\ ExecOne => I.do = "exec"
      /\ WriteOne => I.do = "write"
      /\ ReadOne => I.do = "read"
      /\ OpenSession => I.do = "session"
      /\ DiscardOne => I.do = "discard"
      /\ EnterTry => I.do = "try"
  BY <1>3 DEF TakeSnapshot, DropSnapshot, ExecOne, WriteOne, ReadOne, OpenSession, DiscardOne, EnterTry
<1>7. LeaveLease \/ LeaveTry \/ LeaveSession \/ LeavePool => I.do = "end"
  BY <1>4 DEF LeaveLease, LeaveTry, LeaveSession, LeavePool
<1> HIDE DEF GoesOn
<1> QED
  BY <1>1, <1>2, <1>5, <1>6, <1>7 DEF Next

-----------------------------------------------------------------------------
(* 02_warm_pool.py gets its first two sandboxes from the queue.            *)

WarmedUp ==
    script = "warm_pool" /\ mode = "call" =>
        /\ at = 2 => size = 2
        /\ at = 3 => Len(warm) >= 2
        /\ at = 4 => Len(warm) >= 1

LEMMA WarmedUpNext ==
  ASSUME Flow, Data, WarmedUp, [Next]_vars
  PROVE  WarmedUp'
<1> SUFFICES ASSUME script' = "warm_pool", mode' = "call"
             PROVE  /\ at' = 2 => size' = 2
                    /\ at' = 3 => Len(warm') >= 2
                    /\ at' = 4 => Len(warm') >= 1
  BY DEF WarmedUp
<1>0. warm \in Seq(active)
  BY DEF Data, Stock, StockIs
<1>1. CASE UNCHANGED vars
  BY <1>1 DEF vars, WarmedUp
<1>2. ASSUME NEW name \in Scripts, Start(name) PROVE at' = 1
  BY <1>2 DEF Start
<1>3. ~Finish
  BY DEF Finish
<1>4. ~LeaveTry
  BY FlowTried DEF LeaveTry, fixed
<1>5. CASE (Warmer \/ LeaveManagerLive) /\ UNCHANGED <<script, at, mode, frames>>
  <2>1. size' = size /\ (warm' = warm \/ warm' = Append(warm, made + 1))
    BY <1>5 DEF Warmer, LeaveManagerLive
  <2>2. Len(warm') >= Len(warm) /\ Len(warm) \in Nat /\ Len(warm') \in Nat
    BY <1>0, <2>1
  <2> QED
    BY <1>5, <2>1, <2>2 DEF WarmedUp
<1>6. CASE Next /\ GoesOn
  <2>1. Place("warm_pool", at, I) /\ at \in Nat /\ at >= 1 /\ script = "warm_pool" /\ mode = "call"
        /\ at' = at + 1
    BY <1>6, Acts DEF GoesOn
  <2>2. CASE I.do = "pool"
    <3>1. at = 1 /\ I.sizes = {2}
      BY <2>1, <2>2 DEF Place
    <3>2. OpenPool
      BY <1>6, <2>2, Acts
    <3>3. frames = <<>>
      <4>1. Len(frames) = 0
        BY <2>1, <3>1, AllSound, NoNameIsNoScript DEF Flow, Blocks, Sound, Scripts
      <4> QED
        BY <4>1 DEF Flow, Blocks
    <3>4. ~open
      BY <3>3 DEF Data, Closed
    <3>5. ~Raises
      BY <2>2, <1>6, FlowBarred DEF GoesOn, Entering
    <3>6. size' = 2
      BY <3>1, <3>2, <3>4, <3>5 DEF OpenPool
    <3> QED
      BY <2>1, <3>1, <3>6
  <2>3. CASE I.do = "wait"
    <3>1. at = 2 /\ WaitForWarm
      BY <1>6, <2>1, <2>3, Acts DEF Place
    <3>2. ~Raises
      BY <1>6, <2>3, RaisesLoud DEF GoesOn, Caught
    <3>3. Len(warm) >= 2 /\ warm' = warm
      BY <2>1, <3>1, <3>2 DEF WaitForWarm, pool, WarmedUp
    <3> QED
      BY <2>1, <3>1, <3>3
  <2>4. CASE I.do = "acquire"
    <3>1. at \in 3..5 /\ AcquireOne /\ I.on = "disk"
      BY <1>6, <2>1, <2>4, Acts DEF Place
    <3>2. ~Raises
      BY <1>6, <2>4, RaisesLoud DEF GoesOn, Caught
    <3>3. at = 3 => warm # <<>> /\ warm' = Tail(warm)
      BY <1>0, <2>1, <3>1, <3>2 DEF AcquireOne, Given, WarmedUp
    <3> QED
      BY <1>0, <2>1, <3>1, <3>3 DEF WarmedUp
  <2>5. CASE I.do \notin {"pool", "wait", "acquire"}
    BY <2>1, <2>5 DEF Place
  <2> QED
    BY <2>2, <2>3, <2>4, <2>5
<1> QED
  BY <1>1, <1>2, <1>3, <1>4, <1>5, <1>6, Moves

LEMMA WarmedUpInit == Init => WarmedUp
BY DEF Init, WarmedUp, NoName

\* 02_warm_pool.py: "The first two should hit the warm pool", however long the
\* warmer takes: the script waits for it.
THEOREM FirstTwoFromQueue == Spec => []FirstTwoWarm
<1>1. Init => Flow /\ Data /\ WarmedUp
  BY FlowInit, DataInit, WarmedUpInit
<1>2. Flow /\ Data /\ WarmedUp /\ [Next]_vars => Flow' /\ Data' /\ WarmedUp'
  BY FlowNext, DataNext, WarmedUpNext
<1>3. Flow /\ Data /\ WarmedUp => FirstTwoWarm
  <2> SUFFICES ASSUME Flow, Data, WarmedUp, script = "warm_pool", Call("acquire"), I.v \in {"a", "b"}
               PROVE  warm # <<>>
    BY DEF FirstTwoWarm
  <2>1. Place("warm_pool", at, I) /\ mode = "call" /\ I.do = "acquire" /\ at \in Nat
    BY Where
  <2>2. at = 3 \/ at = 4
    BY <2>1 DEF Place
  <2>3. Len(warm) >= 1
    BY <2>1, <2>2 DEF WarmedUp, Data, Stock, StockIs
  <2> QED
    BY <2>3
<1> QED
  BY <1>1, <1>2, <1>3, PTL DEF Spec

-----------------------------------------------------------------------------
(* Snapshots.                                                              *)

\* The snapshot introspect has taken and has to delete.
Noted == IF script = "introspect" /\ at \in 7..12 THEN {var["snap"]} ELSE {}

Shots ==
    /\ DOMAIN shot \subseteq ShotIds
    /\ store \in [SessionIds -> {NoEntry, 0} \cup ShotIds]

Bill(N) == DOMAIN shot \subseteq Range(store) \cup hidden \cup N
Billed == (script = NoName => ended.ok) => Bill(Noted)

LEMMA ShotAdded ==
  ASSUME NEW s, AddShot(s)
  PROVE  /\ NewShot \in ShotIds /\ NewShot \notin DOMAIN shot /\ NewShot \notin Range(store)
         /\ DOMAIN shot' = DOMAIN shot \cup {NewShot}
BY DEF AddShot, NewShot, FreeShots

LEMMA StoreSet ==
  ASSUME Shots, NEW i \in SessionIds, NEW x \in {NoEntry, 0} \cup ShotIds,
         store' = [store EXCEPT ![i] = x]
  PROVE  /\ store' \in [SessionIds -> {NoEntry, 0} \cup ShotIds] /\ x \in Range(store')
         /\ Range(store) \subseteq Range(store') \cup {store[i]}
<1>1. /\ DOMAIN store = SessionIds /\ DOMAIN store' = SessionIds /\ store'[i] = x
      /\ \A j \in SessionIds : j # i => store'[j] = store[j]
      /\ store' \in [SessionIds -> {NoEntry, 0} \cup ShotIds]
  BY DEF Shots
<1> QED
  BY <1>1 DEF Range

LEMMA CheckpointBill ==
  ASSUME Shots, NEW i \in SessionIds, NEW saved \in BOOLEAN, Checkpoint(i, saved)
  PROVE  /\ Shots'
         /\ \A N : Bill(N) => DOMAIN shot' \subseteq Range(store') \cup hidden' \cup N
<1>1. CASE UNCHANGED <<store, shot, hidden>>
  BY <1>1 DEF Shots, Bill
<1>2. CASE AddShot(live[i]) /\ hidden' = hidden \cup {NewShot} /\ UNCHANGED store
  <2>1. NewShot \in ShotIds /\ DOMAIN shot' = DOMAIN shot \cup {NewShot}
    BY <1>2, ShotAdded
  <2> QED
    BY <1>2, <2>1 DEF Shots, Bill
<1>3. CASE /\ FreeShots # {} /\ store' = [store EXCEPT ![i] = NewShot]
           /\ \/ /\ DOMAIN shot' = (DOMAIN shot \cup {NewShot}) \ {store[i]}
                 /\ UNCHANGED hidden
              \/ AddShot(live[i]) /\ hidden' = hidden \cup {store[i]}
  <2>1. NewShot \in ShotIds
    BY <1>3 DEF NewShot, FreeShots
  <2>2. /\ store' \in [SessionIds -> {NoEntry, 0} \cup ShotIds] /\ NewShot \in Range(store')
        /\ Range(store) \subseteq Range(store') \cup {store[i]}
    BY <1>3, <2>1, StoreSet
  <2>3. CASE DOMAIN shot' = (DOMAIN shot \cup {NewShot}) \ {store[i]} /\ UNCHANGED hidden
    BY <2>1, <2>2, <2>3 DEF Shots, Bill
  <2>4. CASE AddShot(live[i]) /\ hidden' = hidden \cup {store[i]}
    <3>1. DOMAIN shot' = DOMAIN shot \cup {NewShot}
      BY <2>4, ShotAdded
    <3> QED
      BY <2>1, <2>2, <2>4, <3>1 DEF Shots, Bill
  <2> QED
    BY <1>3, <2>3, <2>4
<1> QED
  BY <1>1, <1>2, <1>3 DEF Checkpoint

LEMMA SnapKept ==
  ASSUME Flow, Data, Next, script' = script, ~TakeSnapshot
  PROVE  var'["snap"] = var["snap"]
<1>1. var \in [Variables -> Nat] /\ "snap" \in Variables
  BY DEF Data, Users, HoldIs, Variables
<1>2. CASE AcquireOne \/ RehydrateOne \/ OpenSession
  <2>1. I.do \in Getting \cup {"rehydrate"} /\ mode = "call" /\ at <= Len(Code(script))
    BY <1>2 DEF AcquireOne, RehydrateOne, OpenSession, Call, Getting
  <2>2. I.v # "snap"
    BY <2>1, Here DEF Fits
  <2>3. var' = var \/ \E s : var' = [var EXCEPT ![I.v] = s]
    BY <1>2 DEF AcquireOne, RehydrateOne, OpenSession
  <2> QED
    BY <1>1, <2>2, <2>3
<1>3. CASE LeaveTry
  <2>1. F.v = "a"
    BY <1>3, Top DEF LeaveTry, Shaped
  <2> QED
    BY <1>1, <1>3, <2>1 DEF LeaveTry
<1>4. ASSUME NEW name \in Scripts, Start(name) PROVE FALSE
  BY <1>4, NoNameIsNoScript DEF Start, Flow
<1>5. CASE \/ Finish \/ OpenPool \/ Warmer \/ WaitForWarm \/ EnsureVolume
           \/ ReleaseOne \/ TrackOne \/ DropSnapshot \/ ExecOne \/ WriteOne
  BY <1>5 DEF Finish, OpenPool, Warmer, WaitForWarm, EnsureVolume, ReleaseOne, TrackOne,
     DropSnapshot, ExecOne, WriteOne
<1>6. CASE \/ ReadOne \/ DiscardOne \/ EnterTry
           \/ LeaveLease \/ LeaveSession \/ LeaveManagerLive \/ LeavePool
  BY <1>6 DEF ReadOne, DiscardOne, EnterTry, LeaveLease, LeaveSession, LeaveManagerLive, LeavePool
<1> QED
  BY <1>2, <1>3, <1>4, <1>5, <1>6 DEF Next

LEMMA NotedKept ==
  ASSUME Flow, Data, Next, script' = script, ~TakeSnapshot, ~DropSnapshot
  PROVE  Noted \subseteq Noted'
<1> SUFFICES ASSUME script = "introspect", at \in 7..12 PROVE at' \in 7..12
  BY SnapKept DEF Noted
<1>1. ASSUME NEW name \in Scripts, Start(name) PROVE FALSE
  BY <1>1, NoNameIsNoScript DEF Start, Flow
<1>2. ~Finish
  BY DEF Finish, NoName
<1>3. ~LeaveTry
  BY FlowTried DEF LeaveTry, fixed
<1>4. CASE GoesOn
  <2>1. Place(script, at, I) /\ (I.do = "drop" => DropSnapshot) /\ at' = at + 1
    <3>1. Place(script, at, I) /\ (I.do = "drop" => DropSnapshot)
      BY <1>4, Acts
    <3> QED
      BY <3>1, <1>4 DEF GoesOn
  <2>2. at # 12
    BY <2>1 DEF Place
  <2> QED
    BY <2>1, <2>2
<1> QED
  BY <1>1, <1>2, <1>3, <1>4, Moves

LEMMA BilledNext ==
  ASSUME Flow, Data, Shots, Billed, [Next]_vars
  PROVE  Shots' /\ Billed'
<1>0. Sid \in SessionIds
  BY SidIsSession DEF Data, Users
<1>1. CASE UNCHANGED vars
  BY <1>1 DEF vars, Shots, Billed, Bill, Noted
<1>2. ASSUME NEW name \in Scripts, Start(name) PROVE Shots' /\ Billed'
  <2>1. DOMAIN shot' = Range(store) \cap DOMAIN shot /\ store' = store
    BY <1>2 DEF Start, Restrict
  <2> QED
    BY <2>1 DEF Shots, Billed, Bill
<1>3. CASE Finish
  <2>1. UNCHANGED <<shot, store, hidden>> /\ Shots'
    BY <1>3 DEF Finish, service, Shots
  <2>2. script # NoName /\ mode \in {"call", "raise"}
    BY <1>3 DEF Finish, Flow
  <2>3. ended'.ok => Noted = {}
    <3>1. ended'.ok => mode = "call" /\ at > Len(Code(script))
      BY <1>3, <2>2 DEF Finish
    <3>2. script = "introspect" /\ at \in 7..12 => ~(at > Len(Code(script)))
      BY IntrospectEnds
    <3> QED
      BY <3>1, <3>2 DEF Noted
  <2> QED
    BY <1>3, <2>1, <2>2, <2>3 DEF Billed, Bill, Finish
<1>4. CASE TakeSnapshot
  <2>1. /\ script' = script /\ store' = store /\ Call("snapshot")
        /\ \/ /\ AddShot(var[I.v]) /\ var' = [var EXCEPT !["snap"] = NewShot]
              /\ Returns /\ UNCHANGED hidden
           \/ /\ UNCHANGED var
              /\ UNCHANGED <<shot, hidden>> \/ (AddShot(var[I.v]) /\ hidden' = hidden \cup {NewShot})
    BY <1>4 DEF TakeSnapshot, fixed
  <2>2. script = "introspect" /\ at = 6 /\ script # NoName
    BY <2>1, Where DEF Place
  <2>3. Bill({})
    BY <2>2 DEF Billed, Noted
  <2>4. CASE UNCHANGED <<shot, hidden>>
    BY <2>1, <2>3, <2>4 DEF Shots, Billed, Bill
  <2>5. CASE AddShot(var[I.v]) /\ hidden' = hidden \cup {NewShot}
    <3>1. NewShot \in ShotIds /\ DOMAIN shot' = DOMAIN shot \cup {NewShot}
      BY <2>5, ShotAdded
    <3> QED
      BY <2>1, <2>3, <2>5, <3>1 DEF Shots, Billed, Bill
  <2>6. CASE /\ AddShot(var[I.v]) /\ var' = [var EXCEPT !["snap"] = NewShot]
             /\ Returns /\ UNCHANGED hidden
    <3>1. NewShot \in ShotIds /\ DOMAIN shot' = DOMAIN shot \cup {NewShot}
      BY <2>6, ShotAdded
    <3>2. at' = 7 /\ var'["snap"] = NewShot
      BY <2>2, <2>6 DEF Returns, Data, Users, HoldIs, Variables
    <3>3. Noted' = {NewShot}
      BY <2>1, <2>2, <3>2 DEF Noted
    <3> QED
      BY <2>1, <2>3, <2>6, <3>1, <3>3 DEF Shots, Billed, Bill
  <2> QED
    BY <2>1, <2>4, <2>5, <2>6
<1>5. CASE DropSnapshot
  <2>1. /\ script' = script /\ store' = store /\ Call("drop")
        /\ \/ DropShot(var["snap"]) /\ UNCHANGED hidden
           \/ hidden' = hidden \cup {var["snap"]} /\ UNCHANGED shot
    BY <1>5 DEF DropSnapshot, fixed
  <2>2. script = "introspect" /\ script # NoName
    BY <2>1, Where DEF Place
  <2>3. Bill({var["snap"]})
    BY <2>2 DEF Billed, Bill, Noted
  <2>4. CASE DropShot(var["snap"]) /\ UNCHANGED hidden
    <3>1. DOMAIN shot' = DOMAIN shot \ {var["snap"]}
      BY <2>4 DEF DropShot, Restrict
    <3> QED
      BY <2>1, <2>3, <2>4, <3>1 DEF Shots, Billed, Bill
  <2>5. CASE hidden' = hidden \cup {var["snap"]} /\ UNCHANGED shot
    BY <2>1, <2>3, <2>5 DEF Shots, Billed, Bill
  <2> QED
    BY <2>1, <2>4, <2>5
<1>6. CASE OpenSession /\ ~TakeSnapshot /\ ~DropSnapshot
  <2>1. /\ script' = script /\ UNCHANGED <<shot, hidden>> /\ mode = "call"
        /\ \/ UNCHANGED store
           \/ store' = [store EXCEPT ![Sid] = IF store[Sid] = NoEntry THEN 0 ELSE store[Sid]]
    BY <1>6 DEF OpenSession, fixed, Call
  <2>2. script # NoName
    BY <2>1 DEF Flow
  <2>3. Noted \subseteq Noted'
    BY <1>6, <2>1, NotedKept DEF Next
  <2>4. CASE UNCHANGED store
    BY <2>1, <2>2, <2>3, <2>4 DEF Shots, Billed, Bill
  <2>5. CASE store' = [store EXCEPT ![Sid] = IF store[Sid] = NoEntry THEN 0 ELSE store[Sid]]
    <3>1. PICK x : x = IF store[Sid] = NoEntry THEN 0 ELSE store[Sid]
      OBVIOUS
    <3>2. x \in {NoEntry, 0} \cup ShotIds /\ store' = [store EXCEPT ![Sid] = x]
      BY <1>0, <2>5, <3>1 DEF Shots
    <3>3. /\ store' \in [SessionIds -> {NoEntry, 0} \cup ShotIds] /\ x \in Range(store')
          /\ Range(store) \subseteq Range(store') \cup {store[Sid]}
      BY <1>0, <3>2, StoreSet
    <3>4. store[Sid] \in DOMAIN shot => store[Sid] = x
      BY <3>1, ShotAssumption DEF Shots, NoEntry
    <3> QED
      BY <2>1, <2>2, <2>3, <3>3, <3>4 DEF Shots, Billed, Bill
  <2> QED
    BY <2>1, <2>4, <2>5
<1>7. CASE DiscardOne /\ ~TakeSnapshot /\ ~DropSnapshot
  <2>1. /\ script' = script /\ mode = "call"
        /\ \/ DropShot(store[Sid]) /\ UNCHANGED hidden
           \/ hidden' = hidden \cup ({store[Sid]} \cap DOMAIN shot) /\ UNCHANGED shot
        /\ store' = [store EXCEPT ![Sid] = NoEntry] \/ UNCHANGED store
    BY <1>7 DEF DiscardOne, Call
  <2>2. script # NoName
    BY <2>1 DEF Flow
  <2>3. Noted \subseteq Noted'
    BY <1>7, <2>1, NotedKept DEF Next
  <2>4. /\ store' \in [SessionIds -> {NoEntry, 0} \cup ShotIds]
        /\ Range(store) \subseteq Range(store') \cup {store[Sid]}
    BY <1>0, <2>1, StoreSet DEF Shots
  <2>5. CASE DropShot(store[Sid]) /\ UNCHANGED hidden
    <3>1. DOMAIN shot' = DOMAIN shot \ {store[Sid]}
      BY <2>5 DEF DropShot, Restrict
    <3> QED
      BY <2>2, <2>3, <2>4, <2>5, <3>1 DEF Shots, Billed, Bill
  <2>6. CASE hidden' = hidden \cup ({store[Sid]} \cap DOMAIN shot) /\ UNCHANGED shot
    BY <2>2, <2>3, <2>4, <2>6 DEF Shots, Billed, Bill
  <2> QED
    BY <2>1, <2>5, <2>6
<1>8. CASE (LeaveSession \/ LeaveManagerLive) /\ ~TakeSnapshot /\ ~DropSnapshot
  <2>1. script' = script /\ mode \in {"call", "raise"} /\ \E saved \in BOOLEAN : Checkpoint(Sid, saved)
    BY <1>8 DEF LeaveSession, LeaveManagerLive, CloseSession, Leaving, Call, fixed
  <2>2. script # NoName
    BY <2>1 DEF Flow
  <2>3. Noted \subseteq Noted'
    BY <1>8, <2>1, NotedKept DEF Next
  <2>4. Shots' /\ \A N : Bill(N) => DOMAIN shot' \subseteq Range(store') \cup hidden' \cup N
    BY <1>0, <2>1, CheckpointBill
  <2> QED
    BY <2>2, <2>3, <2>4 DEF Billed, Bill
<1>9. ASSUME script' = script, script # NoName, UNCHANGED <<shot, store, hidden>>, Next,
             ~TakeSnapshot, ~DropSnapshot
      PROVE  Shots' /\ Billed'
  BY <1>9, NotedKept DEF Shots, Billed, Bill
<1>10. CASE /\ \/ OpenPool \/ Warmer \/ WaitForWarm \/ EnsureVolume \/ AcquireOne
               \/ ReleaseOne \/ RehydrateOne \/ TrackOne \/ ExecOne \/ WriteOne \/ ReadOne
            /\ ~TakeSnapshot /\ ~DropSnapshot
  <2>1. UNCHANGED <<script, shot, store, hidden>>
    BY <1>10 DEF OpenPool, Warmer, WaitForWarm, EnsureVolume, AcquireOne, ReleaseOne,
       RehydrateOne, TrackOne, ExecOne, WriteOne, ReadOne, fixed, service
  <2>2. script # NoName
    <3>1. CASE Warmer
      BY <3>1 DEF Warmer, Data, Closed, Flow, Blocks
    <3>2. CASE ~Warmer
      BY <1>10, <3>2 DEF OpenPool, WaitForWarm, EnsureVolume, AcquireOne, ReleaseOne,
         RehydrateOne, TrackOne, ExecOne, WriteOne, ReadOne, Call, Flow
    <3> QED
      BY <3>1, <3>2
  <2> QED
    BY <1>9, <1>10, <2>1, <2>2 DEF Next
<1>11. CASE (EnterTry \/ LeaveLease \/ LeaveTry \/ LeavePool) /\ ~TakeSnapshot /\ ~DropSnapshot
  <2>1. UNCHANGED <<script, shot, store, hidden>> /\ mode \in {"call", "raise"}
    BY <1>11 DEF EnterTry, LeaveLease, LeaveTry, LeavePool, Leaving, Call, fixed, service
  <2> QED
    BY <1>9, <1>11, <2>1 DEF Next, Flow
<1> QED
  BY <1>1, <1>2, <1>3, <1>4, <1>5, <1>6, <1>7, <1>8, <1>10, <1>11 DEF Next

LEMMA BilledInit == Init => Shots /\ Billed
BY DEF Init, Shots, Billed, Bill

\* Whatever a script does to snapshots, one that returned 0 leaves none behind
\* but the store's and those whose delete or recording raised.
THEOREM NoSnapshotLost == Spec => []NoSnapshotLeft
<1>1. Init => Flow /\ Data /\ Shots /\ Billed
  BY FlowInit, DataInit, BilledInit
<1>2. Flow /\ Data /\ Shots /\ Billed /\ [Next]_vars => Flow' /\ Data' /\ Shots' /\ Billed'
  BY FlowNext, DataNext, BilledNext
<1>3. Flow /\ Billed => NoSnapshotLeft
  BY NoNameIsNoScript DEF Flow, Billed, Bill, Noted, NoSnapshotLeft, Scripts
<1> QED
  BY <1>1, <1>2, <1>3, PTL DEF Spec

-----------------------------------------------------------------------------
(* What becomes of what is written.                                        *)

Copy(s) == [marks |-> disk[s].marks, base |-> s]

\* A sandbox keeps its content but for writes to it; a new one is empty or has
\* a snapshot's.
Furnished(s) ==
    \/ disk'[s] = Fresh
    \/ /\ RehydrateOne /\ var["snap"] \in DOMAIN shot
       /\ disk'[s] = shot[var["snap"]]
    \/ /\ OpenSession /\ store[Sid] \in DOMAIN shot
       /\ disk'[s] = shot[store[Sid]]

DiskStep(s) ==
    \/ s \in DOMAIN disk /\ disk'[s] = disk[s]
    \/ /\ WriteOne /\ I.on = "disk" /\ s = var[I.v] /\ s \in DOMAIN disk
       /\ disk' = [disk EXCEPT ![s].marks = @ \cup {Mark}]
    \/ s = made + 1 /\ s \notin DOMAIN disk /\ Furnished(s)

LEMMA MadeStep ==
  ASSUME Data, NEW content, Make(content), NEW s \in DOMAIN disk'
  PROVE  \/ s \in DOMAIN disk /\ disk'[s] = disk[s]
         \/ s = made + 1 /\ s \notin DOMAIN disk /\ disk'[s] = content
<1>1. made \in Nat /\ DOMAIN disk \subseteq 1..made
  BY DEF Data, Stock, StockIs
<1>2. s \in DOMAIN disk \cup {made + 1} /\ disk'[s] = IF s = made + 1 THEN content ELSE disk[s]
  BY DEF Make
<1> QED
  BY <1>1, <1>2

LEMMA LessStep ==
  ASSUME NEW S, disk' = Restrict(disk, DOMAIN disk \ S), NEW s \in DOMAIN disk'
  PROVE  s \in DOMAIN disk /\ disk'[s] = disk[s]
BY DEF Restrict

LEMMA DiskMoves ==
  ASSUME Flow, Data, Next, NEW s \in DOMAIN disk'
  PROVE  DiskStep(s)
<1>1. ASSUME NEW name \in Scripts, Start(name) PROVE FALSE
  BY <1>1 DEF Start
<1>2. CASE UNCHANGED disk
  BY <1>2 DEF DiskStep
<1>3. CASE Make(Fresh)
  BY <1>3, MadeStep DEF DiskStep, Furnished
<1>4. CASE \E S : disk' = Restrict(disk, DOMAIN disk \ S)
  BY <1>4, LessStep DEF DiskStep
<1>5. CASE RehydrateOne
  <2>1. UNCHANGED disk \/ (var["snap"] \in DOMAIN shot /\ Make(shot[var["snap"]]))
    BY <1>5 DEF RehydrateOne, MakeRaises
  <2> QED
    BY <1>2, <1>5, <2>1, MadeStep DEF DiskStep, Furnished
<1>6. CASE OpenSession
  <2>1. \/ UNCHANGED disk
        \/ Make(Fresh)
        \/ store[Sid] \in DOMAIN shot /\ Make(shot[store[Sid]])
    BY <1>6 DEF OpenSession, MakeRaises, Given
  <2> QED
    BY <1>2, <1>3, <1>6, <2>1, MadeStep DEF DiskStep, Furnished
<1>7. CASE WriteOne
  <2>1. UNCHANGED disk \/ (I.on = "disk" /\ disk' = [disk EXCEPT ![var[I.v]].marks = @ \cup {Mark}])
    BY <1>7 DEF WriteOne, Put
  <2> QED
    BY <1>2, <1>7, <2>1 DEF DiskStep
<1>8. CASE Warmer \/ AcquireOne
  BY <1>2, <1>3, <1>8 DEF Warmer, AcquireOne, Given, MakeRaises
<1>9. CASE ReleaseOne \/ LeaveLease \/ LeaveTry \/ LeaveSession \/ LeaveManagerLive \/ LeavePool
  BY <1>2, <1>4, <1>9 DEF ReleaseOne, LeaveLease, LeaveTry, LeaveSession, LeaveManagerLive,
     LeavePool, CloseSession, Delete, DeleteRaises
<1>10. CASE \/ Finish \/ OpenPool \/ WaitForWarm \/ EnsureVolume \/ TrackOne
            \/ TakeSnapshot \/ DropSnapshot \/ ExecOne \/ ReadOne \/ DiscardOne \/ EnterTry
  BY <1>2, <1>10 DEF Finish, OpenPool, WaitForWarm, EnsureVolume, TrackOne,
     TakeSnapshot, DropSnapshot, ExecOne, ReadOne, DiscardOne, EnterTry, service
<1> QED
  BY <1>1, <1>5, <1>6, <1>7, <1>8, <1>9, <1>10 DEF Next

\* A snapshot does not change; a new one is a copy of the sandbox it is taken of.
ShotStep(p) ==
    \/ p \in DOMAIN shot /\ shot'[p] = shot[p]
    \/ /\ p = NewShot /\ p \notin DOMAIN shot /\ p \notin Range(store)
       /\ \/ TakeSnapshot /\ var[I.v] \in Out /\ shot'[p] = Copy(var[I.v])
          \/ /\ LeaveSession \/ LeaveManagerLive
             /\ live[Sid] \in Out /\ shot'[p] = Copy(live[Sid])

LEMMA AddedStep ==
  ASSUME NEW s, AddShot(s), NEW p \in DOMAIN shot'
  PROVE  \/ p \in DOMAIN shot /\ shot'[p] = shot[p]
         \/ p = NewShot /\ p \notin DOMAIN shot /\ p \notin Range(store) /\ shot'[p] = Copy(s)
<1>1. p \in DOMAIN shot \cup {NewShot} /\ shot'[p] = IF p = NewShot THEN Copy(s) ELSE shot[p]
  BY DEF AddShot, Copy
<1>2. NewShot \notin DOMAIN shot /\ NewShot \notin Range(store)
  BY ShotAdded
<1> QED
  BY <1>1, <1>2

\* A session that is left or closed is live, its sandbox handed out.
LEMMA LeavingLive ==
  ASSUME Flow, Data, LeaveSession \/ LeaveManagerLive
  PROVE  live[Sid] # NoId /\ live[Sid] \in Out /\ Sid \in SessionIds
<1>1. Sid \in SessionIds
  BY SidIsSession DEF Data, Users
<1>2. live[Sid] # NoId
  <2>1. CASE LeaveSession
    <3>1. F.v \in Opened
      BY <2>1, FramesLeft DEF LeaveSession
    <3> QED
      BY <3>1 DEF Data, Users, Lively, LiveIs
  <2>2. CASE LeaveManagerLive
    BY <2>2 DEF LeaveManagerLive
  <2> QED
    BY <2>1, <2>2
<1>3. live[Sid] \in Out
  BY <1>1, <1>2 DEF Data, Users, Lively, LiveIs
<1> QED
  BY <1>1, <1>2, <1>3

LEMMA ShotMoves ==
  ASSUME Flow, Data, Next, NEW p \in DOMAIN shot'
  PROVE  ShotStep(p)
<1>1. CASE UNCHANGED shot
  BY <1>1 DEF ShotStep
<1>2. CASE \E S : shot' = Restrict(shot, S) /\ S \subseteq DOMAIN shot
  BY <1>2 DEF ShotStep, Restrict
<1>3. ASSUME NEW name \in Scripts, Start(name) PROVE ShotStep(p)
  BY <1>2, <1>3 DEF Start
<1>4. CASE TakeSnapshot
  <2>1. Call("snapshot") /\ UNCHANGED script /\ (Returns \/ Raises) /\ (UNCHANGED shot \/ AddShot(var[I.v]))
    BY <1>4 DEF TakeSnapshot, fixed
  <2>2. I.v \in Held
    BY <2>1, HeldOnward DEF Entering, Using
  <2>3. var[I.v] \in Out
    BY <2>2 DEF Data, Users, HoldIs
  <2>4. CASE AddShot(var[I.v])
    BY <1>4, <2>3, <2>4, AddedStep DEF ShotStep
  <2> QED
    BY <1>1, <2>1, <2>4
<1>5. CASE DropSnapshot \/ DiscardOne
  BY <1>1, <1>2, <1>5 DEF DropSnapshot, DiscardOne, DropShot
<1>6. CASE LeaveSession \/ LeaveManagerLive
  <2>1. live[Sid] \in Out
    BY <1>6, LeavingLive
  <2>2. \E saved \in BOOLEAN : Checkpoint(Sid, saved)
    BY <1>6 DEF LeaveSession, LeaveManagerLive, CloseSession
  <2>3. \/ UNCHANGED shot
        \/ AddShot(live[Sid])
        \/ /\ FreeShots # {}
           /\ shot' = [q \in (DOMAIN shot \cup {NewShot}) \ {store[Sid]} |->
                         IF q = NewShot THEN Copy(live[Sid]) ELSE shot[q]]
    BY <2>2 DEF Checkpoint, Copy
  <2>4. CASE AddShot(live[Sid])
    BY <1>6, <2>1, <2>4, AddedStep DEF ShotStep
  <2>5. CASE /\ FreeShots # {}
             /\ shot' = [q \in (DOMAIN shot \cup {NewShot}) \ {store[Sid]} |->
                           IF q = NewShot THEN Copy(live[Sid]) ELSE shot[q]]
    <3>1. NewShot \notin DOMAIN shot /\ NewShot \notin Range(store)
      BY <2>5 DEF NewShot, FreeShots
    <3>2. p \in DOMAIN shot \cup {NewShot} /\ shot'[p] = IF p = NewShot THEN Copy(live[Sid]) ELSE shot[p]
      BY <2>5
    <3> QED
      BY <1>6, <2>1, <3>1, <3>2 DEF ShotStep
  <2> QED
    BY <1>1, <2>3, <2>4, <2>5
<1>7. CASE \/ Finish \/ OpenPool \/ Warmer \/ WaitForWarm \/ EnsureVolume \/ AcquireOne
           \/ ReleaseOne \/ RehydrateOne \/ TrackOne \/ ExecOne \/ WriteOne
  BY <1>1, <1>7 DEF Finish, OpenPool, Warmer, WaitForWarm, EnsureVolume, AcquireOne,
     ReleaseOne, RehydrateOne, TrackOne, ExecOne, WriteOne, service
<1>8. CASE ReadOne \/ OpenSession \/ EnterTry \/ LeaveLease \/ LeaveTry \/ LeavePool
  BY <1>1, <1>8 DEF ReadOne, OpenSession, EnterTry, LeaveLease, LeaveTry, LeavePool, service
<1> QED
  BY <1>3, <1>4, <1>5, <1>6, <1>7, <1>8 DEF Next

\* Who writes the store, and who deletes snapshots.
Gone == DOMAIN shot \ DOMAIN shot'
Begins == \E name \in Scripts : Start(name)
Rotated ==
    /\ LeaveSession \/ LeaveManagerLive
    /\ store' = [store EXCEPT ![Sid] = NewShot] /\ NewShot \in ShotIds
    /\ NewShot \notin DOMAIN shot /\ NewShot \notin Range(store)
    /\ NewShot \in DOMAIN shot' /\ shot'[NewShot] = Copy(live[Sid])
    /\ Gone \subseteq {store[Sid]}

StoreStep ==
    \/ UNCHANGED store /\ (Begins => Gone \cap Range(store) = {})
          /\ (~Begins => Gone \subseteq
                {q \in DOMAIN shot : \/ DropSnapshot /\ q = var["snap"]
                                     \/ DiscardOne /\ q = store[Sid]})
    \/ /\ OpenSession /\ Gone = {}
       /\ store' = [store EXCEPT ![Sid] = IF store[Sid] = NoEntry THEN 0 ELSE store[Sid]]
    \/ DiscardOne /\ store' = [store EXCEPT ![Sid] = NoEntry] /\ Gone \subseteq {store[Sid]}
    \/ Rotated

LEMMA Rotates ==
  ASSUME Flow, Data, Shots, LeaveSession \/ LeaveManagerLive, Checkpoint(Sid, TRUE)
  PROVE  Rotated
<1>1. Sid \in SessionIds
  BY LeavingLive
<1>2. /\ FreeShots # {} /\ store' = [store EXCEPT ![Sid] = NewShot]
      /\ \/ shot' = [q \in (DOMAIN shot \cup {NewShot}) \ {store[Sid]} |->
                       IF q = NewShot THEN Copy(live[Sid]) ELSE shot[q]]
         \/ shot' = [q \in DOMAIN shot \cup {NewShot} |->
                       IF q = NewShot THEN Copy(live[Sid]) ELSE shot[q]]
  BY DEF Checkpoint, AddShot, Copy
<1>3. NewShot \in ShotIds /\ NewShot \notin DOMAIN shot /\ NewShot \notin Range(store)
  BY <1>2 DEF NewShot, FreeShots
<1>4. store[Sid] \in Range(store)
  BY <1>1 DEF Shots, Range
<1>5. NewShot \in DOMAIN shot' /\ shot'[NewShot] = Copy(live[Sid]) /\ Gone \subseteq {store[Sid]}
  BY <1>2, <1>3, <1>4 DEF Gone
<1> QED
  BY <1>2, <1>3, <1>5 DEF Rotated

LEMMA StoreMoves ==
  ASSUME Flow, Data, Shots, Next
  PROVE  StoreStep
<1>1. CASE UNCHANGED <<store, shot>>
  BY <1>1 DEF StoreStep, Gone
<1>2. ASSUME NEW name \in Scripts, Start(name) PROVE StoreStep
  <2>1. store' = store /\ DOMAIN shot' = Range(store) \cap DOMAIN shot /\ Begins
    BY <1>2 DEF Start, Restrict, Begins
  <2>2. Gone \cap Range(store) = {}
    BY <2>1 DEF Gone
  <2> QED
    BY <2>1, <2>2 DEF StoreStep
<1>3. CASE TakeSnapshot
  <2>1. store' = store /\ (UNCHANGED shot \/ AddShot(var[I.v]))
    BY <1>3 DEF TakeSnapshot
  <2>2. Gone = {}
    BY <2>1, ShotAdded DEF Gone
  <2> QED
    BY <2>1, <2>2 DEF StoreStep
<1>4. CASE DropSnapshot
  <2>1. store' = store /\ (UNCHANGED shot \/ DropShot(var["snap"])) /\ ~Begins
    BY <1>4 DEF DropSnapshot, Begins, Start, Call
  <2>2. Gone \subseteq {var["snap"]} /\ Gone \subseteq DOMAIN shot
    BY <2>1 DEF Gone, DropShot, Restrict
  <2> QED
    BY <1>4, <2>1, <2>2 DEF StoreStep
<1>5. CASE DiscardOne
  <2>1. /\ store' = store \/ store' = [store EXCEPT ![Sid] = NoEntry]
        /\ UNCHANGED shot \/ DropShot(store[Sid])
        /\ ~Begins
    BY <1>5 DEF DiscardOne, Begins, Start, Call
  <2>2. Gone \subseteq {store[Sid]} /\ Gone \subseteq DOMAIN shot
    BY <2>1 DEF Gone, DropShot, Restrict
  <2> QED
    BY <1>5, <2>1, <2>2 DEF StoreStep
<1>6. CASE OpenSession
  <2>1. UNCHANGED shot /\ \/ UNCHANGED store
                          \/ store' = [store EXCEPT ![Sid] = IF store[Sid] = NoEntry THEN 0 ELSE store[Sid]]
    BY <1>6 DEF OpenSession
  <2>2. Gone = {}
    BY <2>1 DEF Gone
  <2> QED
    BY <1>1, <1>6, <2>1, <2>2 DEF StoreStep
<1>7. CASE LeaveSession \/ LeaveManagerLive
  <2>1. PICK saved \in BOOLEAN : Checkpoint(Sid, saved)
    BY <1>7 DEF LeaveSession, LeaveManagerLive, CloseSession
  <2>2. CASE saved
    <3>1. Rotated
      BY <1>7, <2>1, <2>2, Rotates
    <3> QED
      BY <3>1 DEF StoreStep
  <2>3. CASE AddShot(live[Sid]) /\ UNCHANGED store
    <3>1. Gone = {}
      BY <2>3, ShotAdded DEF Gone
    <3> QED
      BY <2>3, <3>1 DEF StoreStep
  <2> QED
    BY <1>1, <2>1, <2>2, <2>3 DEF Checkpoint
<1>8. CASE \/ Finish \/ OpenPool \/ Warmer \/ WaitForWarm \/ EnsureVolume \/ AcquireOne
           \/ ReleaseOne \/ RehydrateOne \/ TrackOne \/ ExecOne \/ WriteOne
  BY <1>1, <1>8 DEF Finish, OpenPool, Warmer, WaitForWarm, EnsureVolume, AcquireOne,
     ReleaseOne, RehydrateOne, TrackOne, ExecOne, WriteOne, service
<1>9. CASE ReadOne \/ EnterTry \/ LeaveLease \/ LeaveTry \/ LeavePool
  BY <1>1, <1>9 DEF ReadOne, EnterTry, LeaveLease, LeaveTry, LeavePool, service
<1> QED
  BY <1>2, <1>3, <1>4, <1>5, <1>6, <1>7, <1>8, <1>9 DEF Next

-----------------------------------------------------------------------------
(* What is written where.                                                  *)

Kinds ==
    /\ \A s \in DOMAIN disk : disk[s] \in Contents
    /\ \A p \in DOMAIN shot : shot[p] \in Contents
    /\ volume \in [Volumes -> Marks] /\ \A n \in Volumes : volume[n].run <= runs
    /\ script # NoName => runs >= 1

\* A volume changes when it is created and when it is written to.
VolumeStep(n) ==
    \/ volume'[n] = volume[n]
    \/ EnsureVolume /\ I.on = n /\ volume'[n] = EmptyVolume
    \/ WriteOne /\ I.on = n /\ I.on # "disk" /\ volume'[n] = Mark /\ I.v \in Held

LEMMA WritesHeld ==
  ASSUME Flow, WriteOne
  PROVE  Call("write") /\ I.v \in Held /\ UNCHANGED <<script, runs, var, live, frames>>
<1>1. Call("write") /\ (Returns \/ Raises) /\ UNCHANGED <<script, runs, var, live>>
  BY DEF WriteOne, fixed
<1>2. I.v \in Held /\ frames' = frames
  BY <1>1, HeldOnward DEF Entering, Using, Returns, Raises
<1> QED
  BY <1>1, <1>2

LEMMA VolumeMoves ==
  ASSUME Flow, Next, volume \in [Volumes -> Marks], NEW n \in Volumes
  PROVE  VolumeStep(n) /\ volume' = [x \in Volumes |-> volume'[x]]
<1>1. CASE UNCHANGED volume
  BY <1>1 DEF VolumeStep
<1>2. CASE EnsureVolume
  <2>1. UNCHANGED volume \/ volume' = [volume EXCEPT ![I.on] = EmptyVolume]
    BY <1>2 DEF EnsureVolume
  <2> QED
    BY <1>1, <1>2, <2>1 DEF VolumeStep
<1>3. CASE WriteOne
  <2>1. UNCHANGED volume \/ (I.on # "disk" /\ volume' = [volume EXCEPT ![I.on] = Mark])
    BY <1>3 DEF WriteOne, Put
  <2>2. I.v \in Held
    BY <1>3, WritesHeld
  <2> QED
    BY <1>1, <1>3, <2>1, <2>2 DEF VolumeStep
<1>4. ASSUME NEW name \in Scripts, Start(name) PROVE UNCHANGED volume
  BY <1>4 DEF Start
<1>5. CASE \/ Finish \/ OpenPool \/ Warmer \/ WaitForWarm \/ AcquireOne
           \/ ReleaseOne \/ RehydrateOne \/ TrackOne \/ ExecOne \/ TakeSnapshot \/ DropSnapshot
  BY <1>1, <1>5 DEF Finish, OpenPool, Warmer, WaitForWarm, AcquireOne,
     ReleaseOne, RehydrateOne, TrackOne, ExecOne, TakeSnapshot, DropSnapshot, service
<1>6. CASE \/ ReadOne \/ OpenSession \/ DiscardOne \/ EnterTry
           \/ LeaveLease \/ LeaveTry \/ LeaveSession \/ LeaveManagerLive \/ LeavePool
  BY <1>1, <1>6 DEF ReadOne, OpenSession, DiscardOne, EnterTry, LeaveLease, LeaveTry,
     LeaveSession, LeaveManagerLive, LeavePool, service
<1> QED
  BY <1>1, <1>2, <1>3, <1>4, <1>5, <1>6 DEF Next

LEMMA Runs ==
  ASSUME Flow, Next
  PROVE  \/ \E name \in Scripts : Start(name) /\ runs' = runs + 1
         \/ Finish /\ script' = NoName /\ runs' = runs
         \/ script' = script /\ script # NoName /\ runs' = runs
         \/ Warmer /\ script' = script /\ runs' = runs
<1>1. ASSUME NEW name \in Scripts, Start(name) PROVE runs' = runs + 1
  BY <1>1 DEF Start
<1>2. CASE Finish
  BY <1>2 DEF Finish
<1>3. CASE Warmer
  BY <1>3 DEF Warmer, fixed
<1>4. CASE \/ OpenPool \/ WaitForWarm \/ EnsureVolume \/ AcquireOne \/ ReleaseOne \/ RehydrateOne
           \/ TrackOne \/ TakeSnapshot \/ DropSnapshot \/ ExecOne \/ WriteOne
  <2>1. mode = "call" /\ script' = script /\ runs' = runs
    BY <1>4 DEF OpenPool, WaitForWarm, EnsureVolume, AcquireOne, ReleaseOne, RehydrateOne,
       TrackOne, TakeSnapshot, DropSnapshot, ExecOne, WriteOne, fixed, Call
  <2> QED
    BY <2>1 DEF Flow
<1>5. CASE \/ ReadOne \/ OpenSession \/ DiscardOne \/ EnterTry
           \/ LeaveLease \/ LeaveTry \/ LeaveSession \/ LeaveManagerLive \/ LeavePool
  <2>1. mode \in {"call", "raise"} /\ script' = script /\ runs' = runs
    BY <1>5 DEF ReadOne, OpenSession, DiscardOne, EnterTry, LeaveLease, LeaveTry,
       LeaveSession, LeaveManagerLive, LeavePool, fixed, Call, Leaving
  <2> QED
    BY <2>1 DEF Flow
<1> QED
  BY <1>1, <1>2, <1>3, <1>4, <1>5 DEF Next

LEMMA KindsNext ==
  ASSUME Flow, Data, Kinds, [Next]_vars
  PROVE  Kinds'
<1>1. CASE UNCHANGED vars
  BY <1>1 DEF vars, Kinds
<1> SUFFICES ASSUME Next PROVE Kinds'
  BY <1>1
<1>2. runs \in Nat /\ runs <= MaxRuns /\ MaxRuns \in Nat
  BY BoundAssumption DEF Data, Users
<1>3. var \in [Variables -> Nat] /\ \A v \in Held : v \in Variables
  BY DEF Data, Users, HoldIs
<1>4. I.v \in Held => Mark \in Marks /\ Mark.run = runs
  BY <1>2, <1>3 DEF Mark, Marks
<1>5. \A s \in Out : s \in DOMAIN disk /\ s \in Nat
  BY OutMade DEF Data
<1>6. \A s \in Out : Copy(s) \in Contents
  BY <1>5 DEF Kinds, Copy, Contents
<1>7. Fresh \in Contents
  BY DEF Fresh, Contents, NoId
<1>8. ASSUME NEW s \in DOMAIN disk' PROVE disk'[s] \in Contents
  <2>1. DiskStep(s)
    BY DiskMoves
  <2>2. CASE /\ WriteOne /\ s = var[I.v] /\ s \in DOMAIN disk
             /\ disk' = [disk EXCEPT ![s].marks = @ \cup {Mark}]
    <3>1. Mark \in Marks
      BY <1>4, <2>2, WritesHeld
    <3>2. disk[s] \in Contents /\ disk'[s] = [disk[s] EXCEPT !.marks = @ \cup {Mark}]
      BY <2>2 DEF Kinds
    <3> QED
      BY <3>1, <3>2 DEF Contents
  <2> QED
    BY <1>7, <2>1, <2>2 DEF DiskStep, Furnished, Kinds
<1>9. ASSUME NEW p \in DOMAIN shot' PROVE shot'[p] \in Contents
  BY <1>6, <1>9, ShotMoves DEF ShotStep, Kinds
<1>10. runs' \in Nat /\ runs' >= runs /\ (script' # NoName => runs' >= 1)
  <2>1. ASSUME Warmer PROVE script # NoName
    BY <2>1 DEF Warmer, Data, Closed, Flow, Blocks
  <2> QED
    BY <1>2, <2>1, Runs DEF Kinds
<1>11. ASSUME NEW n \in Volumes PROVE volume'[n] \in Marks /\ volume'[n].run <= runs'
  <2>1. VolumeStep(n)
    BY VolumeMoves DEF Kinds
  <2>2. volume[n] \in Marks /\ volume[n].run \in Int /\ volume[n].run <= runs
    BY BoundAssumption DEF Kinds, Marks
  <2>3. EmptyVolume \in Marks /\ EmptyVolume.run = 0
    BY BoundAssumption DEF EmptyVolume, Marks, NoId
  <2>4. volume'[n] \in Marks /\ volume'[n].run <= runs
    BY <1>2, <1>4, <2>1, <2>2, <2>3 DEF VolumeStep
  <2> QED
    BY <1>2, <1>10, <2>4 DEF Marks
<1>12. volume' \in [Volumes -> Marks]
  <2>1. volume' = [x \in Volumes |-> volume'[x]]
    BY VolumeMoves DEF Kinds, Volumes
  <2> QED
    BY <1>11, <2>1
<1> QED
  BY <1>8, <1>9, <1>10, <1>11, <1>12 DEF Kinds

LEMMA KindsInit == Init => Kinds
BY BoundAssumption DEF Init, Kinds, NoVolume, NoId, Marks

-----------------------------------------------------------------------------
(* Sessions keep what was written in them.                                 *)

\* No two sessions have one snapshot, and the one introspect took is nobody's.
Single ==
    /\ \A i, j \in SessionIds : store[i] = store[j] /\ store[i] \in ShotIds => i = j
    /\ Noted \cap Range(store) = {}

\* Where introspect is, there is no session.
LEMMA NoSessionNoted ==
  ASSUME Flow, Noted # {}
  PROVE  ~OpenSession /\ ~DiscardOne /\ ~LeaveSession /\ ~LeaveManagerLive
<1>1. script = "introspect"
  BY DEF Noted
<1>2. ASSUME NEW do \in {"session", "discard"}, Call(do) PROVE FALSE
  BY <1>1, <1>2, Where DEF Place
<1>3. ASSUME NEW kind \in {"session", "manager"}, Leaving(kind) PROVE FALSE
  <2>1. Len(frames) \in 1..Len(Nest(script)) /\ Nest(script)[Len(frames)].kind = kind
    BY <1>3, Top
  <2>2. Nest(script) = <<Block("pool", NoName)>>
    BY <1>1 DEF Nest, Leasing
  <2> QED
    BY <2>1, <2>2 DEF Block
<1> QED
  BY <1>2, <1>3 DEF OpenSession, DiscardOne, LeaveSession, LeaveManagerLive

LEMMA NotedNew ==
  ASSUME Flow, Data, Next, ~TakeSnapshot
  PROVE  Noted' \subseteq Noted
<1> SUFFICES ASSUME script' = "introspect", at' \in 7..12
             PROVE  script = "introspect" /\ at \in 7..12
  BY SnapKept DEF Noted
<1>1. ASSUME NEW name \in Scripts, Start(name) PROVE FALSE
  BY <1>1 DEF Start
<1>2. ~Finish
  BY DEF Finish, NoName
<1>3. ~LeaveTry
  BY FlowTried DEF LeaveTry, fixed
<1>4. CASE GoesOn
  <2>1. /\ Place(script, at, I) /\ (I.do = "snapshot" => TakeSnapshot) /\ at' = at + 1
        /\ script = "introspect" /\ at \in Nat
    <3>1. Place(script, at, I) /\ (I.do = "snapshot" => TakeSnapshot) /\ at \in Nat
      BY <1>4, Acts
    <3> QED
      BY <3>1, <1>4 DEF GoesOn
  <2>2. at # 6
    BY <2>1 DEF Place
  <2> QED
    BY <2>1, <2>2
<1> QED
  BY <1>1, <1>2, <1>3, <1>4, Moves DEF fixed, Warmer, LeaveManagerLive

LEMMA SingleNext ==
  ASSUME Flow, Data, Shots, Single, [Next]_vars
  PROVE  Single'
<1>1. CASE UNCHANGED vars
  BY <1>1 DEF vars, Single, Noted
<1> SUFFICES ASSUME Next PROVE Single'
  BY <1>1
<1>2. Sid \in SessionIds /\ DOMAIN store = SessionIds
  BY SidIsSession DEF Data, Users, Shots
<1>3. StoreStep
  BY StoreMoves
<1>4. CASE UNCHANGED store
  <2>1. CASE TakeSnapshot
    <3>1. Noted' \cap Range(store) = {}
      <4>1. /\ script' = script /\ Call("snapshot")
            /\ \/ /\ AddShot(var[I.v]) /\ var' = [var EXCEPT !["snap"] = NewShot]
               \/ /\ UNCHANGED var /\ Raises
        BY <2>1 DEF TakeSnapshot, fixed
      <4>2. CASE AddShot(var[I.v]) /\ var' = [var EXCEPT !["snap"] = NewShot]
        <5>1. var'["snap"] = NewShot /\ NewShot \notin Range(store)
          BY <4>2, ShotAdded DEF Data, Users, HoldIs, Variables
        <5> QED
          BY <5>1 DEF Noted
      <4>3. CASE Raises
        <5>1. at' = at /\ at = 6
          <6>1. mode' = "raise" /\ script = "introspect" /\ at = 6
            BY <4>1, <4>3, RaisesLoud, Where DEF Caught, Place
          <6> QED
            BY <6>1, <4>3, <4>1 DEF Raises, Returns, Call
        <5> QED
          BY <5>1 DEF Noted
      <4> QED
        BY <4>1, <4>2, <4>3
    <3> QED
      BY <1>4, <3>1 DEF Single
  <2>2. CASE ~TakeSnapshot
    BY <1>4, <2>2, NotedNew DEF Single
  <2> QED
    BY <2>1, <2>2
<1>5. CASE (OpenSession \/ DiscardOne \/ LeaveSession \/ LeaveManagerLive) /\ ~TakeSnapshot
  <2>1. Noted' = {}
    BY <1>5, NoSessionNoted, NotedNew
  <2>2. PICK x : /\ store' = [store EXCEPT ![Sid] = x] \/ UNCHANGED store
                 /\ x \in ShotIds => x = store[Sid] \/ x \notin Range(store)
    <3>1. CASE OpenSession /\ store' = [store EXCEPT ![Sid] = IF store[Sid] = NoEntry THEN 0 ELSE store[Sid]]
      <4>1. PICK y : y = IF store[Sid] = NoEntry THEN 0 ELSE store[Sid]
        OBVIOUS
      <4> QED
        BY <3>1, <4>1, ShotAssumption
    <3>2. CASE store' = [store EXCEPT ![Sid] = NoEntry]
      <4>1. NoEntry \notin ShotIds
        BY ShotAssumption DEF NoEntry
      <4>2. PICK y : y = NoEntry
        OBVIOUS
      <4> QED
        BY <3>2, <4>1, <4>2
    <3>3. CASE Rotated
      BY <3>3 DEF Rotated
    <3> QED
      BY <1>3, <3>1, <3>2, <3>3 DEF StoreStep
  <2>3. \A i \in SessionIds : store'[i] = store[i] \/ (i = Sid /\ store'[i] = x)
    BY <1>2, <2>2
  <2>4. \A i \in SessionIds : store[i] \in Range(store)
    BY <1>2 DEF Range
  <2>5. \A i, j \in SessionIds : store'[i] = store'[j] /\ store'[i] \in ShotIds => i = j
    BY <2>2, <2>3, <2>4 DEF Single
  <2> QED
    BY <2>1, <2>5 DEF Single
<1>6. TakeSnapshot => UNCHANGED store
  BY DEF TakeSnapshot
<1> QED
  BY <1>3, <1>4, <1>5, <1>6 DEF StoreStep, Rotated

LEMMA SingleInit == Init => Single
BY ShotAssumption DEF Init, Single, Noted, NoName, NoEntry

\* The runs of install whose work has to be kept, the one under way included.
Due == kept \cup (IF script = "install" /\ mode = "call" /\ wrote THEN {runs} ELSE {})
Keeps(c, R) == \A k \in R : \E m \in c.marks : m.run = k
Saved(R) == R # {} => store[0] \in DOMAIN shot /\ Keeps(shot[store[0]], R)

\* That work is in the sandbox of the session as long as it is live, and in the
\* store's snapshot at any other time; what was kept before, at all times.
Secured ==
    /\ Saved(kept)
    /\ IF live[0] = NoId THEN Saved(Due) ELSE Keeps(disk[live[0]], Due)
    /\ script = "install" /\ mode = "call" /\ live[0] # NoId => Len(frames) = 2

LEMMA ZeroSession == 0 \in SessionIds
BY BoundAssumption DEF SessionIds

LEMMA ZeroLive ==
  ASSUME Data, live[0] # NoId
  PROVE  Sid = 0 /\ live[0] \in Out /\ live[0] \in DOMAIN disk
BY ZeroSession, OutMade DEF Data, Users, Lively, LiveIs

\* install writes in the block of its session.
LEMMA InstallWrites ==
  ASSUME Flow, Data, WriteOne, script = "install"
  PROVE  I.on = "disk" /\ I.v = "a" /\ live[0] = var["a"] /\ live[0] # NoId
<1>1. Call("write") /\ I.v \in Held
  BY WritesHeld
<1>2. at = 3 /\ I.on = "disk" /\ mode = "call"
  BY <1>1, Where DEF Place
<1>3. Word(I, "write", "a")
  BY <1>2, InstallText DEF I
<1>4. Len(frames) = 2 /\ Len(Nest(script)) = 2 /\ Nest(script)[2] = Block("session", "a")
  BY <1>2, NoNameIsNoScript DEF Flow, Blocks, Depth, Nest, Leasing, Scripts
<1>5. frames[2].kind = "session" /\ frames[2].v = "a"
  BY <1>4, NoNameIsNoScript DEF Flow, Blocks, Block, Scripts
<1>6. "a" \in Opened
  BY <1>4, <1>5 DEF Opened
<1>7. Sid = 0
  BY DEF Sid
<1> QED
  BY <1>2, <1>3, <1>6, <1>7 DEF Word, Data, Users, Lively, LiveIs

\* What a step leaves or makes due.
LEMMA DueNext ==
  ASSUME Flow, Next
  PROVE  /\ kept' \subseteq Due
         /\ Finish \/ kept' \subseteq kept
         /\ \/ Due' \subseteq Due
            \/ WriteOne /\ Put /\ script = "install" /\ Due' \subseteq Due \cup {runs}
         /\ DiscardOne /\ Sid = 0 => Due' = {}
         /\ mode' = "raise" => Due' = kept'
<1>1. ASSUME NEW name \in Scripts, Start(name) PROVE kept' = kept /\ wrote' = FALSE /\ mode' = "call"
  BY <1>1 DEF Start
<1>2. CASE Finish
  <2>1. kept' \subseteq Due /\ script' = NoName /\ mode' = "idle"
    BY <1>2 DEF Finish, Due
  <2> QED
    BY <1>2, <2>1 DEF Due, NoName, DiscardOne, Finish, Call
<1>3. CASE DiscardOne
  <2>1. /\ kept' = (IF Sid = 0 THEN {} ELSE kept) /\ Call("discard")
        /\ UNCHANGED <<script, runs, wrote>> /\ mode = "call"
    BY <1>3 DEF DiscardOne, ghosts, Call
  <2>2. script # "install"
    BY <2>1, Where DEF Place
  <2> QED
    BY <2>1, <2>2 DEF Due
<1>4. CASE WriteOne
  <2>1. /\ UNCHANGED <<kept, script, runs>> /\ mode = "call"
        /\ (Put /\ wrote' = TRUE) \/ UNCHANGED wrote
    BY <1>4 DEF WriteOne, fixed, Call
  <2> QED
    BY <1>4, <2>1 DEF Due, DiscardOne, Call, WriteOne
<1>5. ASSUME UNCHANGED <<kept, script, runs, wrote>>, mode' = "call" => mode = "call" \/ script # "install",
             ~DiscardOne
      PROVE  kept' \subseteq kept /\ Due' \subseteq Due /\ (mode' = "raise" => Due' = kept')
  BY <1>5 DEF Due
<1>6. CASE LeaveTry
  BY <1>6, <1>5, Top DEF LeaveTry, fixed, ghosts, DiscardOne, Leaving, Due
<1>7. CASE \/ OpenPool \/ WaitForWarm \/ EnsureVolume \/ AcquireOne \/ ReleaseOne \/ RehydrateOne
           \/ TrackOne \/ TakeSnapshot \/ DropSnapshot \/ ExecOne
  <2>1. UNCHANGED <<kept, script, runs, wrote>> /\ mode = "call" /\ ~DiscardOne
    BY <1>7 DEF OpenPool, WaitForWarm, EnsureVolume, AcquireOne, ReleaseOne, RehydrateOne,
       TrackOne, TakeSnapshot, DropSnapshot, ExecOne, DiscardOne, fixed, ghosts, Call
  <2> QED
    BY <1>5, <2>1 DEF Due
<1>8. CASE \/ ReadOne \/ OpenSession \/ EnterTry
  <2>1. UNCHANGED <<kept, script, runs, wrote>> /\ mode = "call" /\ ~DiscardOne
    BY <1>8 DEF ReadOne, OpenSession, EnterTry, DiscardOne, fixed, ghosts, Call
  <2> QED
    BY <1>5, <2>1 DEF Due
<1>9. CASE (Warmer \/ LeaveLease \/ LeaveSession \/ LeaveManagerLive \/ LeavePool) /\ ~DiscardOne
  <2>1. UNCHANGED <<kept, script, runs, wrote>> /\ (mode' = "call" => mode = "call")
    BY <1>9 DEF Warmer, LeaveLease, LeaveSession, LeaveManagerLive, LeavePool, Left, fixed, control, ghosts
  <2> QED
    BY <1>5, <1>9, <2>1 DEF Due
<1>10. ASSUME NEW name \in Scripts, Start(name)
       PROVE  ~DiscardOne /\ Due' = kept' /\ kept' = kept
  BY <1>10, <1>1 DEF Start, DiscardOne, Call, Due
<1> QED
  BY <1>2, <1>3, <1>4, <1>6, <1>7, <1>8, <1>9, <1>10 DEF Next, Due

\* A snapshot that has work in it stays, unless its session is discarded or
\* checkpointed.
LEMMA SavedKept ==
  ASSUME Flow, Data, Shots, Single, Next, NEW R, Saved(R), R # {},
         (DiscardOne \/ Rotated) => Sid # 0
  PROVE  store'[0] \in DOMAIN shot' /\ Keeps(shot'[store'[0]], R)
<1> DEFINE p == store[0]
<1>1. p \in DOMAIN shot /\ p \in ShotIds /\ Keeps(shot[p], R) /\ 0 \in SessionIds
  BY ZeroSession DEF Saved, Shots
<1>2. /\ Sid \in SessionIds /\ p \in Range(store) /\ DOMAIN store = SessionIds
      /\ (Sid # 0 => p # store[Sid]) /\ p # NoEntry
  BY <1>1, SidIsSession, ShotAssumption DEF Data, Users, Shots, Single, Range, NoEntry
<1>3. StoreStep
  BY StoreMoves
<1>4. store'[0] = p /\ p \notin Gone
  <2>1. CASE UNCHANGED store /\ (Begins => Gone \cap Range(store) = {})
              /\ (~Begins => Gone \subseteq
                    {q \in DOMAIN shot : \/ DropSnapshot /\ q = var["snap"]
                                         \/ DiscardOne /\ q = store[Sid]})
    <3>1. DropSnapshot => var["snap"] \in Noted
      <4>1. DropSnapshot => script = "introspect" /\ at = 12
        BY Where DEF DropSnapshot, Place
      <4> QED
        BY <4>1 DEF Noted
    <3>2. DropSnapshot => p # var["snap"]
      BY <1>2, <3>1 DEF Single
    <3> QED
      BY <1>2, <2>1, <3>2
  <2>2. CASE /\ OpenSession /\ Gone = {}
             /\ store' = [store EXCEPT ![Sid] = IF store[Sid] = NoEntry THEN 0 ELSE store[Sid]]
    BY <1>1, <1>2, <2>2
  <2>3. CASE DiscardOne /\ store' = [store EXCEPT ![Sid] = NoEntry] /\ Gone \subseteq {store[Sid]}
    BY <1>1, <1>2, <2>3
  <2>4. CASE Rotated
    BY <1>1, <1>2, <2>4 DEF Rotated
  <2> QED
    BY <1>3, <2>1, <2>2, <2>3, <2>4 DEF StoreStep
<1>5. p \in DOMAIN shot'
  BY <1>1, <1>4 DEF Gone
<1>6. ShotStep(p)
  BY <1>5, ShotMoves
<1>7. shot'[p] = shot[p]
  BY <1>1, <1>6 DEF ShotStep
<1> QED
  BY <1>1, <1>4, <1>5, <1>7

LEMMA SavedAnew ==
  ASSUME Shots, Rotated, Sid = 0, NEW R, Keeps(disk[live[0]], R)
  PROVE  store'[0] \in DOMAIN shot' /\ Keeps(shot'[store'[0]], R)
BY ZeroSession DEF Rotated, Copy, Keeps, Shots

\* A session that is opened goes on where its snapshot is.
LEMMA OpensSaved ==
  ASSUME Flow, Data, Shots, OpenSession, Sid = 0, live'[0] # live[0], NEW R, Saved(R)
  PROVE  Keeps(disk'[live'[0]], R)
<1> SUFFICES ASSUME R # {}, store[0] \in DOMAIN shot, Keeps(shot[store[0]], R)
             PROVE  Keeps(disk'[live'[0]], R)
  BY DEF Saved, Keeps
<1>1. ~(store[0] <= 0)
  <2>1. store[0] \in ShotIds
    BY DEF Shots
  <2>2. store[0] \in Nat \ {0}
    BY <2>1, ShotAssumption
  <2> QED
    BY <2>2
<1>2. /\ Make(shot[store[0]]) /\ var' = [var EXCEPT ![I.v] = made + 1]
      /\ live' = [live EXCEPT ![Sid] = var'[I.v]] /\ Call("session")
  BY <1>1 DEF OpenSession
<1>3. I.v \in Variables /\ DOMAIN var = Variables /\ DOMAIN live = SessionIds
  <2>1. mode = "call" /\ at <= Len(Code(script)) /\ I.do = "session"
    BY <1>2 DEF Call
  <2>2. I.v \in {"a", "b", "c"}
    BY <2>1, Here DEF Fits, Getting
  <2> QED
    BY <2>2 DEF Variables, Data, Users, HoldIs, Lively, LiveIs
<1>4. live'[0] = made + 1
  BY <1>2, <1>3, ZeroSession
<1>5. disk'[made + 1] = shot[store[0]]
  BY <1>2 DEF Make
<1> QED
  BY <1>4, <1>5

\* Only opening and closing change what is live.
LEMMA LiveMoves ==
  ASSUME Next, live' # live
  PROVE  OpenSession \/ LeaveSession \/ LeaveManagerLive
<1>1. ASSUME NEW name \in Scripts, Start(name) PROVE FALSE
  BY <1>1 DEF Start
<1>2. ~\/ Finish \/ OpenPool \/ Warmer \/ WaitForWarm \/ EnsureVolume \/ AcquireOne
       \/ ReleaseOne \/ RehydrateOne \/ TrackOne \/ TakeSnapshot \/ DropSnapshot
  BY DEF Finish, OpenPool, Warmer, WaitForWarm, EnsureVolume, AcquireOne, ReleaseOne,
     RehydrateOne, TrackOne, TakeSnapshot, DropSnapshot
<1>3. ~\/ ExecOne \/ WriteOne \/ ReadOne \/ DiscardOne \/ EnterTry
       \/ LeaveLease \/ LeaveTry \/ LeavePool
  BY DEF ExecOne, WriteOne, ReadOne, DiscardOne, EnterTry, LeaveLease, LeaveTry, LeavePool
<1> QED
  BY <1>1, <1>2, <1>3 DEF Next

\* Where install is within its session's block.
LEMMA InstallDepth ==
  ASSUME Flow, script = "install"
  PROVE  /\ Call("session") => Len(frames) = 1
         /\ Len(frames) \in 0..2
         /\ \A kind : Leaving(kind) /\ Len(frames) = 2 => kind = "session"
<1>1. Nest(script) = <<Block("manager", NoName), Block("session", "a")>>
  BY DEF Nest, Leasing
<1>2. Len(frames) \in 0..2
  <2>1. Len(Nest(script)) = 2 /\ script # NoName
    BY <1>1, NoNameIsNoScript DEF Scripts
  <2>2. Len(frames) \in Nat /\ Len(frames) <= Len(Nest(script))
    BY <2>1 DEF Flow, Blocks
  <2>3. \A d, n : n = 2 /\ d \in Nat /\ d <= n => d \in 0..2
    OBVIOUS
  <2> QED
    BY ONLY <2>1, <2>2, <2>3
<1>3. Call("session") => Len(frames) = 1
  <2> HAVE Call("session")
  <2>1. at = 2 /\ mode = "call"
    BY Where DEF Place
  <2> QED
    BY <2>1, NoNameIsNoScript DEF Flow, Blocks, Depth, Scripts
<1>4. ASSUME NEW kind, Leaving(kind), Len(frames) = 2 PROVE kind = "session"
  <2>1. Nest(script)[2].kind = kind
    BY <1>4, Top
  <2> QED
    BY <1>1, <2>1 DEF Block
<1> QED
  BY <1>2, <1>3, <1>4

LEMMA SecuredDepth ==
  ASSUME Flow, Data, Secured, Next
  PROVE  script' = "install" /\ mode' = "call" /\ live'[0] # NoId => Len(frames') = 2
<1> SUFFICES ASSUME script' = "install", mode' = "call", live'[0] # NoId
             PROVE  Len(frames') = 2
  OBVIOUS
<1>1. ASSUME NEW name \in Scripts, Start(name) PROVE FALSE
  <2>1. live'[0] = live[0] /\ frames = <<>>
    BY <1>1 DEF Start, Flow, Blocks
  <2>2. ~Managed
    BY <2>1 DEF Managed
  <2> QED
    BY <2>1, <2>2, ZeroSession DEF Data, Users, Lively
<1>2. ~Finish
  BY DEF Finish
<1>3. ~LeaveTry
  BY FlowTried DEF LeaveTry, fixed
<1>4. Flow' /\ Data'
  BY FlowNext, DataNext
<1>5. Len(frames') \in 0..2
  <2>1. Len(Nest(script')) = 2 /\ script' # NoName
    BY NoNameIsNoScript DEF Nest, Leasing, Scripts
  <2>2. Len(frames') \in Nat /\ Len(frames') <= Len(Nest(script'))
    BY <1>4, <2>1 DEF Flow, Blocks
  <2>3. \A d, n : n = 2 /\ d \in Nat /\ d <= n => d \in 0..2
    OBVIOUS
  <2> QED
    BY ONLY <2>1, <2>2, <2>3
<1>6. CASE (Warmer \/ LeaveManagerLive) /\ UNCHANGED <<script, at, mode, frames>>
  <2>1. CASE Warmer
    BY <1>6, <2>1 DEF Warmer, Secured
  <2>2. CASE LeaveManagerLive
    <3>1. live[0] # NoId
      <4>1. Sid = 0 /\ live[Sid] # NoId
        BY <1>6, <2>2 DEF Sid, LeaveManagerLive
      <4> QED
        BY <4>1
    <3> QED
      BY <1>6, <3>1 DEF Secured
  <2> QED
    BY <1>6, <2>1, <2>2
<1>7. CASE GoesOn
  <2>1. script = "install" /\ mode = "call"
    BY <1>7 DEF GoesOn
  <2>2. CASE OpenSession
    <3>1. Call("session") /\ (Enter("session") \/ Raises)
      BY <2>2 DEF OpenSession
    <3>2. Len(frames) = 1
      BY <2>1, <3>1, InstallDepth
    <3>3. Enter("session")
      BY <3>1, RaisesLoud DEF Caught
    <3> QED
      BY <1>7, <3>1, <3>2, <3>3, FramesEnter DEF GoesOn, Entering
  <2>3. CASE LeaveSession \/ LeaveManagerLive
    <3>1. live'[0] = NoId
      BY <2>1, <2>3, LeavingLive, ZeroSession DEF LeaveSession, LeaveManagerLive, CloseSession,
         Data, Users, Lively, LiveIs, Sid
    <3> QED
      BY <3>1
  <2>4. CASE ~OpenSession /\ ~LeaveSession /\ ~LeaveManagerLive
    <3>1. live' = live
      BY <2>4, LiveMoves
    <3>2. Len(frames) = 2 /\ live[0] # NoId
      BY <2>1, <3>1 DEF Secured
    <3>3. \A kind : Leaving(kind) => kind = "session"
      BY <2>1, <3>2, InstallDepth
    <3>4. ~LeaveLease /\ ~LeavePool
      BY <3>3 DEF LeaveLease, LeavePool
    <3>5. frames' = frames \/ \E do \in Entering : Call(do) /\ Enter(do)
      <4>1. CASE \/ WaitForWarm \/ EnsureVolume \/ ReleaseOne \/ RehydrateOne \/ TrackOne
                 \/ TakeSnapshot \/ DropSnapshot \/ ExecOne \/ WriteOne \/ ReadOne \/ DiscardOne
        BY <4>1 DEF WaitForWarm, EnsureVolume, ReleaseOne, RehydrateOne, TrackOne, TakeSnapshot,
           DropSnapshot, ExecOne, WriteOne, ReadOne, DiscardOne, Returns, Raises
      <4>2. CASE OpenPool \/ AcquireOne \/ EnterTry
        BY <4>2 DEF OpenPool, AcquireOne, EnterTry, Returns, Raises, Call, Entering
      <4> QED
        BY <1>3, <1>7, <2>4, <3>4, <4>1, <4>2, Acts
    <3>6. ASSUME NEW do \in Entering, Call(do), Enter(do) PROVE Len(frames') = 3
      BY <1>7, <3>2, <3>6, FramesEnter DEF GoesOn
    <3> QED
      BY <1>5, <3>2, <3>5, <3>6
  <2> QED
    BY <2>2, <2>3, <2>4
<1> QED
  BY <1>1, <1>2, <1>3, <1>6, <1>7, Moves

LEMMA SecuredNext ==
  ASSUME Flow, Data, Shots, Single, Kinds, Secured, [Next]_vars
  PROVE  Secured'
<1>1. CASE UNCHANGED vars
  BY <1>1 DEF vars, Secured, Saved, Due
<1> SUFFICES ASSUME Next PROVE Secured'
  BY <1>1
<1> DEFINE Stored(R) == R # {} => store'[0] \in DOMAIN shot' /\ Keeps(shot'[store'[0]], R)
           Carried(R) == IF live'[0] = NoId THEN Stored(R) ELSE Keeps(disk'[live'[0]], R)
<1>2. \A R, Q : R \subseteq Q => (Stored(Q) => Stored(R)) /\ (Carried(Q) => Carried(R))
  BY DEF Keeps
<1>3. Saved(kept) /\ (live[0] = NoId => Saved(Due)) /\ (live[0] # NoId => Keeps(disk[live[0]], Due))
  BY DEF Secured
<1>4. /\ kept' \subseteq Due /\ (Finish \/ kept' \subseteq kept)
      /\ \/ Due' \subseteq Due
         \/ WriteOne /\ Put /\ script = "install" /\ Due' \subseteq Due \cup {runs}
      /\ DiscardOne /\ Sid = 0 => Due' = {}
      /\ mode' = "raise" => Due' = kept'
      /\ kept' \subseteq Due'
  BY DueNext DEF Due
<1>5. SUFFICES Stored(kept') /\ Carried(Due')
  BY SecuredDepth DEF Secured, Saved
<1>6. CASE DiscardOne /\ Sid = 0
  BY <1>4, <1>6 DEF Keeps
<1>7. CASE Rotated /\ Sid = 0
  <2>1. live[0] # NoId /\ live'[0] = NoId
    BY <1>7, LeavingLive DEF Rotated, LeaveSession, LeaveManagerLive, CloseSession,
       Data, Users, Lively, LiveIs
  <2>2. Stored(Due)
    BY <1>3, <1>7, <2>1, SavedAnew
  <2>3. ~WriteOne
    BY <2>1, WritesHeld DEF NoId
  <2> HIDE DEF Stored
  <2> QED
    BY <1>2, <1>4, <2>1, <2>2, <2>3
<1>8. CASE (DiscardOne \/ Rotated) => Sid # 0
  <2>1. \A R : Saved(R) => Stored(R)
    BY <1>8, SavedKept
  <2>2. Stored(kept) /\ (live[0] = NoId => Stored(Due))
    BY <1>3, <2>1
  <2>3. Stored(kept')
    <3>1. CASE Finish
      <4>1. live[0] = NoId
        <5>1. ~Managed
          <6>1. CASE mode = "raise"
            BY <3>1, <6>1 DEF Finish, Managed
          <6>2. CASE mode = "call" /\ at > Len(Code(script))
            <7>1. script \in Scripts /\ script # NoName /\ Sound(script)
              BY <6>2, AllSound, NoNameIsNoScript DEF Flow
            <7>2. at = Len(Code(script)) + 1
              BY <6>2, <7>1 DEF Flow, Sound
            <7>3. Len(frames) = 0
              BY <6>2, <7>1, <7>2 DEF Flow, Blocks, Sound
            <7> QED
              BY <7>3 DEF Managed
          <6> QED
            BY <3>1, <6>1, <6>2 DEF Finish
        <5> QED
          BY <5>1, ZeroSession DEF Data, Users, Lively
      <4> HIDE DEF Stored
      <4> QED
        BY <1>2, <1>4, <2>2, <4>1
    <3>2. CASE kept' \subseteq kept
      <4> HIDE DEF Stored
      <4> QED
        BY <1>2, <2>2, <3>2
    <3> QED
      BY <1>4, <3>1, <3>2
  <2>4. CASE live[0] = NoId /\ live'[0] = NoId
    <3>1. Due' \subseteq Due
      BY <1>4, <2>4, InstallWrites
    <3>2. Stored(Due)
      BY <2>2, <2>4
    <3> HIDE DEF Stored
    <3> QED
      BY <1>2, <2>3, <2>4, <3>1, <3>2
  <2>5. CASE live[0] = NoId /\ live'[0] # NoId
    <3>1. Due' \subseteq Due
      BY <1>4, <2>5, InstallWrites
    <3>2. OpenSession /\ Sid = 0
      <4>1. OpenSession \/ LeaveSession \/ LeaveManagerLive
        BY <2>5, LiveMoves
      <4>2. Data'
        BY FlowNext, DataNext
      <4>3. (Sid = 0)'
        BY <2>5, <4>2, ZeroSession DEF Data, Users, Lively, LiveIs
      <4>4. Sid' = Sid
        BY <4>1 DEF Sid, OpenSession, LeaveSession, LeaveManagerLive, fixed
      <4>5. ~LeaveSession /\ ~LeaveManagerLive
        BY <2>5, <4>3, <4>4, LeavingLive
      <4> QED
        BY <4>1, <4>3, <4>4, <4>5
    <3>3. Keeps(disk'[live'[0]], Due)
      BY <1>3, <2>5, <3>2, OpensSaved
    <3> HIDE DEF Stored
    <3> QED
      BY <1>2, <2>3, <2>5, <3>1, <3>3
  <2>6. ASSUME live[0] # NoId PROVE Sid = 0 /\ ~OpenSession
    <3>1. Sid = 0 /\ script # "volume_probe"
      <4>1. Sid = 0
        BY <2>6, ZeroLive
      <4> QED
        BY <4>1 DEF Sid, Kinds, NoName
    <3>2. OpenSession => script = "install" /\ mode = "call" /\ Call("session")
      BY <3>1, Where DEF OpenSession, Place
    <3> QED
      BY <2>6, <3>1, <3>2, InstallDepth DEF Secured
  <2>7. CASE live[0] # NoId /\ live'[0] = NoId
    <3>1. LeaveSession \/ LeaveManagerLive
      BY <2>6, <2>7, LiveMoves
    <3>2. PICK saved \in BOOLEAN :
            /\ Checkpoint(Sid, saved)
            /\ (LeaveSession /\ Left(~saved)) \/ (LeaveManagerLive /\ UNCHANGED <<script, mode>>)
      BY <3>1 DEF LeaveSession, LeaveManagerLive, CloseSession, fixed, control
    <3>3. ~saved
      BY <1>8, <2>6, <2>7, <3>1, <3>2, Rotates
    <3>4. CASE mode' = "raise"
      BY <1>4, <2>3, <2>7, <3>4
    <3>5. CASE mode' # "raise"
      <4>1. LeaveManagerLive /\ UNCHANGED <<script, mode>>
        BY <3>2, <3>3, <3>5 DEF Left
      <4>2. mode = "call" /\ Leaving("manager")
        BY <3>5, <4>1, Top DEF LeaveManagerLive
      <4>3. script # "install"
        BY <2>7, <4>2, InstallDepth DEF Secured
      <4>4. Due' = kept'
        BY <4>1, <4>3 DEF Due
      <4> QED
        BY <2>3, <2>7, <4>4
    <3> QED
      BY <3>4, <3>5
  <2>8. CASE live[0] # NoId /\ live'[0] # NoId
    <3>1. live'[0] = live[0]
      <4>1. LeaveSession \/ LeaveManagerLive => live'[0] = NoId
        BY <2>6, <2>8, LeavingLive DEF LeaveSession, LeaveManagerLive, CloseSession,
           Data, Users, Lively, LiveIs
      <4> QED
        BY <2>6, <2>8, <4>1, LiveMoves
    <3>2. live[0] \in DOMAIN disk /\ live[0] \in DOMAIN disk' /\ live[0] # made + 1 /\ made \in Nat
      <4>1. Data'
        BY FlowNext, DataNext
      <4>2. live'[0] \in Out'
        BY <2>8, <4>1, ZeroSession DEF Data, Users, Lively, LiveIs
      <4>3. Out' \subseteq DOMAIN disk'
        BY <4>1 DEF Data, Stock, StockIs, Out, Rented
      <4>4. live[0] \in DOMAIN disk /\ live[0] \in Out
        BY <2>8, ZeroLive
      <4>5. Out \subseteq 1..made /\ made \in Nat
        BY OutMade DEF Data
      <4> QED
        BY <3>1, <4>2, <4>3, <4>4, <4>5
    <3>3. DiskStep(live[0])
      BY <3>2, DiskMoves
    <3>4. Keeps(disk[live[0]], Due)
      BY <1>3, <2>8
    <3>5. CASE Due' \subseteq Due
      <4>1. disk[live[0]].marks \subseteq disk'[live[0]].marks
        <5>1. CASE disk'[live[0]] = disk[live[0]]
          BY <5>1
        <5>2. CASE disk' = [disk EXCEPT ![live[0]].marks = @ \cup {Mark}]
          BY <3>2, <5>2 DEF Kinds, Contents
        <5> QED
          BY <3>2, <3>3, <5>1, <5>2 DEF DiskStep
      <4>2. Keeps(disk'[live[0]], Due)
        BY <3>4, <4>1 DEF Keeps
      <4> HIDE DEF Stored
      <4> QED
        BY <1>2, <2>3, <2>8, <3>1, <3>5, <4>2
    <3>6. CASE WriteOne /\ Put /\ script = "install" /\ Due' \subseteq Due \cup {runs}
      <4>1. disk' = [disk EXCEPT ![live[0]].marks = @ \cup {Mark}]
        BY <3>6, InstallWrites DEF Put
      <4>2. disk'[live[0]].marks = disk[live[0]].marks \cup {Mark} /\ Mark.run = runs
        BY <3>2, <4>1 DEF Kinds, Contents, Mark
      <4>3. Keeps(disk'[live[0]], Due \cup {runs})
        BY <3>4, <4>2 DEF Keeps
      <4> HIDE DEF Stored
      <4> QED
        BY <1>2, <2>3, <2>8, <3>1, <3>6, <4>3
    <3> QED
      BY <1>4, <3>5, <3>6
  <2> QED
    BY <2>3, <2>4, <2>5, <2>7, <2>8
<1> QED
  BY <1>6, <1>7, <1>8

LEMMA SecuredInit == Init => Secured
BY ZeroSession DEF Init, Secured, Saved, Due, NoName

Contained == Flow /\ Data /\ Shots /\ Billed /\ Single /\ Kinds /\ Secured

\* Work that a turn of 05_session_snapshots.py reported done is in the store's
\* snapshot whenever no script runs, however later turns end.
THEOREM WorkSaved == Spec => []SavedOnSuccess
<1>1. Init => Contained
  BY FlowInit, DataInit, BilledInit, SingleInit, KindsInit, SecuredInit DEF Contained
<1>2. Contained /\ [Next]_vars => Contained'
  <2> SUFFICES ASSUME Contained, [Next]_vars PROVE Contained'
    OBVIOUS
  <2>1. Flow' /\ Data' /\ Single' /\ Kinds' /\ Secured'
    BY FlowNext, DataNext, SingleNext, KindsNext, SecuredNext DEF Contained
  <2>2. Shots' /\ Billed'
    BY BilledNext DEF Contained
  <2> QED
    BY <2>1, <2>2 DEF Contained
<1>3. Contained => SavedOnSuccess
  BY DEF Contained, Secured, Saved, Keeps, SavedOnSuccess
<1> QED
  BY <1>1, <1>2, <1>3, PTL DEF Spec

-----------------------------------------------------------------------------
(* What the scripts have seen.                                             *)

Reading == {"read", "both", "volume_probe", "introspect"}
Passed == IF script = "read" THEN 3 ELSE IF script = "both" THEN 9 ELSE 8

\* The volume demo: its sandboxes are fresh; the note, if it is of this run, is
\* of an earlier sandbox.
NoteRead ==
    script \in {"read", "both"} /\ mode = "call" =>
        /\ \A s \in DOMAIN disk : disk[s].base = NoId
        /\ volume["demo"].run = runs =>
              /\ script = "both" /\ volume["demo"].by \in 1..made
              /\ at = 9 => volume["demo"].by # var["a"]
        /\ \A x \in seen : x.base = NoId /\ x.mark # [run |-> runs, by |-> x.on]
        /\ at > Passed => seen # {}

\* The volume probe: who wrote on its volume, what its session's snapshot and then
\* its second sandbox come from.
ProbeRead ==
    script = "volume_probe" /\ mode = "call" =>
        /\ at = 6 => volume["probe"].by = var["a"]
        /\ at = 7 => store[Sid] \in DOMAIN shot /\ shot[store[Sid]].base = volume["probe"].by
        /\ at = 8 => disk[var["a"]].base = volume["probe"].by
        /\ \A x \in seen : x.base = x.mark.by
        /\ at > Passed => seen # {}

\* Introspection: a marker is by the sandbox it is in, until the snapshot; and
\* then by the one the snapshot is of.
MarkerRead ==
    script = "introspect" /\ mode = "call" =>
        /\ at <= 8 => \A s \in DOMAIN disk : \A m \in disk[s].marks : m.by = s
        /\ at \in 7..8 /\ var["snap"] \in DOMAIN shot =>
              \A m \in shot[var["snap"]].marks : m.by = shot[var["snap"]].base
        /\ at \in 9..11 => \A m \in disk[var["b"]].marks : m.by = disk[var["b"]].base
        /\ \A x \in seen : x.base = x.mark.by

\* The others read nothing.
Blind == script \notin Reading \cup {NoName} => seen = {}

\* A step within a script that nothing has been raised in; it started so.
LEMMA Stays ==
  ASSUME Flow, Next, script' \in Reading, mode' = "call"
  PROVE  \/ /\ Begins /\ at' = 1 /\ seen' = {} /\ DOMAIN disk' = {}
            /\ runs' = runs + 1 /\ volume' = volume
         \/ /\ script' = script /\ runs' = runs /\ mode = "call"
            /\ GoesOn \/ ((Warmer \/ LeaveManagerLive) /\ UNCHANGED <<at, frames>>)
<1>1. ASSUME NEW name \in Scripts, Start(name)
      PROVE  /\ Begins /\ at' = 1 /\ seen' = {} /\ DOMAIN disk' = {}
             /\ runs' = runs + 1 /\ volume' = volume
  BY <1>1 DEF Start, Begins
<1>2. ~Finish
  BY DEF Finish
<1>3. ~LeaveTry
  BY FlowTried DEF LeaveTry, fixed, Reading
<1>4. CASE GoesOn
  <2>1. script' = script /\ mode = "call" /\ mode' = "call" /\ script # NoName
    BY <1>4, NoNameIsNoScript DEF GoesOn, Reading, Scripts
  <2>2. runs' = runs
    BY <1>1, <2>1, Runs DEF Start
  <2> QED
    BY <1>4, <2>1, <2>2
<1>5. CASE (Warmer \/ LeaveManagerLive) /\ UNCHANGED <<script, at, mode, frames>>
  <2>1. runs' = runs
    BY <1>5 DEF Warmer, LeaveManagerLive, fixed
  <2> QED
    BY <1>5, <2>1
<1> QED
  BY <1>1, <1>2, <1>3, <1>4, <1>5, Moves

LEMMA MadeMoves ==
  ASSUME Next, ~Begins
  PROVE  made' = made \/ made' = made + 1
<1>1. CASE \/ Finish \/ OpenPool \/ Warmer \/ WaitForWarm \/ EnsureVolume \/ AcquireOne
           \/ ReleaseOne \/ RehydrateOne \/ TrackOne \/ TakeSnapshot \/ DropSnapshot
  BY <1>1 DEF Finish, OpenPool, Warmer, WaitForWarm, EnsureVolume, AcquireOne, ReleaseOne, Given,
     RehydrateOne, TrackOne, TakeSnapshot, DropSnapshot, service, Make, MakeRaises, Delete, DeleteRaises
<1>2. CASE \/ ExecOne \/ WriteOne \/ ReadOne \/ OpenSession \/ DiscardOne \/ EnterTry
  BY <1>2 DEF ExecOne, WriteOne, ReadOne, OpenSession, DiscardOne, EnterTry, service, Given,
     Make, MakeRaises
<1>3. CASE LeaveLease \/ LeaveTry \/ LeaveSession \/ LeaveManagerLive \/ LeavePool
  BY <1>3 DEF LeaveLease, LeaveTry, LeaveSession, LeaveManagerLive, LeavePool, CloseSession,
     Delete, DeleteRaises
<1> QED
  BY <1>1, <1>2, <1>3 DEF Next, Begins

Sight(m) == [mark |-> m, on |-> var[I.v], base |-> disk[var[I.v]].base]

\* What is seen is read; a checked read that goes on has found something.
LEMMA SeenMoves ==
  ASSUME Flow, Next, ~Begins
  PROVE  \/ seen' = seen /\ (GoesOn /\ I.do = "read" => ~I.checked \/ I.quiet)
         \/ /\ ReadOne /\ Call("read") /\ I.v \in Held
            /\ seen' = seen \cup {Sight(m) : m \in Found}
            /\ Found # {} \/ ~I.checked
<1>1. CASE ReadOne
  <2>1. /\ Call("read") /\ UNCHANGED script
        /\ \/ /\ Found # {} \/ ~I.checked
              /\ seen' = seen \cup {Sight(m) : m \in Found}
              /\ Returns
           \/ Raises /\ UNCHANGED seen
    BY <1>1 DEF ReadOne, Sight, fixed
  <2>2. I.v \in Held
    BY <2>1, HeldOnward DEF Entering, Using
  <2>3. Raises => mode' = "raise" \/ I.quiet
    BY DEF Raises
  <2> QED
    BY <1>1, <2>1, <2>2, <2>3 DEF GoesOn
<1>2. CASE ~ReadOne
  <2>1. ~(GoesOn /\ I.do = "read")
    <3> SUFFICES ASSUME GoesOn, I.do = "read" PROVE FALSE
      OBVIOUS
    <3> QED
      BY <1>2, Acts
  <2>2. seen' = seen
    <3>1. CASE \/ Finish \/ OpenPool \/ Warmer \/ WaitForWarm \/ EnsureVolume \/ AcquireOne
               \/ ReleaseOne \/ RehydrateOne \/ TrackOne \/ TakeSnapshot \/ DropSnapshot
      BY <3>1 DEF Finish, OpenPool, Warmer, WaitForWarm, EnsureVolume, AcquireOne, ReleaseOne,
         RehydrateOne, TrackOne, TakeSnapshot, DropSnapshot, ghosts
    <3>2. CASE \/ ExecOne \/ WriteOne \/ OpenSession \/ DiscardOne \/ EnterTry
               \/ LeaveLease \/ LeaveTry \/ LeaveSession \/ LeaveManagerLive \/ LeavePool
      BY <3>2 DEF ExecOne, WriteOne, OpenSession, DiscardOne, EnterTry, LeaveLease, LeaveTry,
         LeaveSession, LeaveManagerLive, LeavePool, ghosts
    <3> QED
      BY <1>2, <3>1, <3>2 DEF Next, Begins
  <2> QED
    BY <2>1, <2>2
<1> QED
  BY <1>1, <1>2

LEMMA BlindNext ==
  ASSUME Flow, Blind, [Next]_vars
  PROVE  Blind'
<1>1. CASE UNCHANGED vars
  BY <1>1 DEF vars, Blind
<1>2. ASSUME NEW name \in Scripts, Start(name) PROVE Blind'
  BY <1>2 DEF Start, Blind
<1>3. CASE Next /\ ~Begins
  <2>1. seen' = seen \/ script \in Reading
    BY <1>3, SeenMoves, Where DEF Place, Reading
  <2>2. script' = script \/ script' = NoName
    BY <1>3, Runs DEF Begins
  <2>3. ReadOne => script' = script
    BY DEF ReadOne, fixed
  <2> QED
    BY <1>3, <2>1, <2>2, <2>3, SeenMoves DEF Blind
<1> QED
  BY <1>1, <1>2, <1>3 DEF Begins

LEMMA SeenInit == Init => NoteRead /\ ProbeRead /\ MarkerRead /\ Blind /\ VerdictHonest
BY DEF Init, NoteRead, ProbeRead, MarkerRead, Blind, VerdictHonest, NoName

\* In the demo's scripts every sandbox is new and empty, and they write on the
\* volume.
LEMMA NoteBase ==
  ASSUME Flow, Data, Next, script \in {"read", "both"}, NEW s \in DOMAIN disk',
         \A t \in DOMAIN disk : disk[t].base = NoId
  PROVE  disk'[s].base = NoId
<1>1. DiskStep(s)
  BY DiskMoves
<1>2. WriteOne => I.on = "demo"
  BY Where, WritesHeld DEF Place
<1>3. ~RehydrateOne /\ ~OpenSession
  BY Where DEF RehydrateOne, OpenSession, Place
<1> QED
  BY <1>1, <1>2, <1>3 DEF DiskStep, Furnished, Fresh

LEMMA NoteReadNext ==
  ASSUME Flow, Data, Kinds, NoteRead, [Next]_vars
  PROVE  NoteRead'
<1>1. CASE UNCHANGED vars
  BY <1>1 DEF vars, NoteRead, Passed
<1> SUFFICES ASSUME Next, script' \in {"read", "both"}, mode' = "call"
             PROVE  NoteRead'
  BY <1>1 DEF NoteRead
<1>2. /\ runs \in Nat /\ volume["demo"] \in Marks /\ volume["demo"].run \in Int
      /\ volume["demo"].run <= runs /\ "demo" \in Volumes
  BY BoundAssumption DEF Kinds, Marks, Volumes, Data, Users
<1>3. CASE Begins /\ at' = 1 /\ seen' = {} /\ DOMAIN disk' = {} /\ runs' = runs + 1 /\ volume' = volume
  BY <1>2, <1>3 DEF NoteRead, Passed
<1>4. CASE /\ script' = script /\ runs' = runs /\ mode = "call"
           /\ GoesOn \/ ((Warmer \/ LeaveManagerLive) /\ UNCHANGED <<at, frames>>)
  <2>0. /\ script \in {"read", "both"} /\ script # NoName /\ runs >= 1 /\ ~Begins
        /\ at \in Nat
    BY <1>4, NoNameIsNoScript DEF Kinds, Begins, Start, Flow, Scripts
  <2>1. /\ \A s \in DOMAIN disk : disk[s].base = NoId
        /\ volume["demo"].run = runs =>
              /\ script = "both" /\ volume["demo"].by \in 1..made
              /\ at = 9 => volume["demo"].by # var["a"]
        /\ \A x \in seen : x.base = NoId /\ x.mark # [run |-> runs, by |-> x.on]
        /\ at > Passed => seen # {}
    BY <1>4, <2>0 DEF NoteRead
  <2>2. \A s \in DOMAIN disk' : disk'[s].base = NoId
    BY <2>0, <2>1, NoteBase
  <2>3. VolumeStep("demo")
    BY <1>2, VolumeMoves DEF Kinds
  <2>4. EmptyVolume.run # runs
    BY <2>0 DEF EmptyVolume
  <2>5. volume'["demo"].run = runs => script = "both" /\ volume'["demo"].by \in 1..made'
    <3> HAVE volume'["demo"].run = runs
    <3>1. made \in Nat /\ made' \in {made, made + 1}
      BY <2>0, MadeMoves DEF Data, Stock, StockIs
    <3>2. CASE volume'["demo"] = volume["demo"]
      BY <2>1, <3>1, <3>2
    <3>3. CASE WriteOne /\ volume'["demo"] = Mark /\ I.v \in Held
      <4>1. script = "both"
        BY <2>0, <3>3, WritesHeld, Where DEF Place
      <4>2. var[I.v] \in 1..made
        BY <3>3, OutMade DEF Data, Users, HoldIs
      <4> QED
        BY <3>1, <3>3, <4>1, <4>2 DEF Mark
    <3> QED
      BY <2>3, <2>4, <3>2, <3>3 DEF VolumeStep
  <2>6. volume'["demo"].run = runs /\ at' = 9 => volume'["demo"].by # var'["a"]
    <3> HAVE volume'["demo"].run = runs /\ at' = 9
    <3>1. CASE (Warmer \/ LeaveManagerLive) /\ UNCHANGED <<at, frames>>
      BY <2>1, <3>1 DEF Warmer, LeaveManagerLive
    <3>2. CASE GoesOn
      <4>1. at = 8 /\ script = "both"
        BY <2>0, <2>5, <3>2 DEF GoesOn
      <4>2. AcquireOne /\ I.on = "demo" /\ Call("lease") /\ I.do = "lease"
        BY <3>2, <4>1, Acts DEF Place, GoesOn
      <4>3. Word(I, "lease", "a")
        BY <4>1, BothTurnsText DEF I
      <4>4. ~Raises
        BY <3>2, <4>2, RaisesLoud DEF Caught, GoesOn
      <4>5. var' = [var EXCEPT !["a"] = made + 1] /\ volume' = volume
        BY <4>2, <4>3, <4>4 DEF AcquireOne, Given, Word
      <4>6. var'["a"] = made + 1 /\ made \in Nat
        BY <4>5 DEF Data, Users, HoldIs, Variables, Stock, StockIs
      <4>7. volume["demo"].by \in 1..made
        BY <2>1, <4>5
      <4> QED
        BY <4>5, <4>6, <4>7
    <3> QED
      BY <1>4, <3>1, <3>2
  <2>7. \/ seen' = seen
        \/ /\ ReadOne /\ Call("read") /\ I.v \in Held
           /\ seen' = seen \cup {Sight(m) : m \in Found}
    BY <2>0, SeenMoves
  <2>8. \A x \in seen' : x.base = NoId /\ x.mark # [run |-> runs, by |-> x.on]
    <3>1. CASE seen' = seen
      BY <2>1, <3>1
    <3>2. CASE /\ ReadOne /\ Call("read") /\ I.v \in Held
               /\ seen' = seen \cup {Sight(m) : m \in Found}
      <4>1. I.on = "demo" /\ at \in Nat /\ (script = "both" => at = 9) /\ (script = "read" => at = 3)
        BY <2>0, <3>2, Where DEF Place
      <4>2. I.v = "a"
        BY <2>0, <4>1, BothTurnsText, ReadTurnText DEF I, Word
      <4>3. disk[var["a"]].base = NoId
        BY <2>1, <3>2, <4>2, OutMade DEF Data, Users, HoldIs
      <4>4. Found \subseteq {volume["demo"]}
        BY <4>1 DEF Found
      <4>5. volume["demo"] # [run |-> runs, by |-> var["a"]]
        <5>1. volume["demo"].run = runs => volume["demo"].by # var["a"]
          BY <2>1, <4>1
        <5> QED
          BY <5>1
      <4>6. \A m \in Found : Sight(m).base = NoId /\ Sight(m).mark # [run |-> runs, by |-> Sight(m).on]
        BY <4>2, <4>3, <4>4, <4>5 DEF Sight
      <4> QED
        BY <2>1, <3>2, <4>6
    <3> QED
      BY <2>7, <3>1, <3>2
  <2>9. at' > Passed => seen' # {}
    <3>1. CASE at > Passed
      BY <2>1, <2>7, <3>1
    <3>2. CASE GoesOn /\ at = Passed
      <4>1. I.do = "read" /\ I.checked /\ ~I.quiet
        BY <2>0, <3>2, Acts DEF Place, Passed
      <4>2. seen' = seen \cup {Sight(m) : m \in Found} /\ Found # {}
        BY <2>0, <3>2, <4>1, SeenMoves
      <4> QED
        BY <4>2
    <3>3. Passed \in Nat
      BY DEF Passed
    <3> QED
      BY <1>4, <2>0, <3>1, <3>2, <3>3 DEF GoesOn
  <2>10. Passed' = Passed
    BY <1>4 DEF Passed
  <2> QED
    BY <1>4, <2>2, <2>5, <2>6, <2>8, <2>9, <2>10 DEF NoteRead
<1>5. script' \in Reading
  BY DEF Reading
<1> QED
  BY <1>3, <1>4, <1>5, Stays

\* Leaving the session's block at its end, without an exception, is a checkpoint.
LEMMA ProbeSaves ==
  ASSUME Flow, Data, Shots, Kinds, Next, script = "volume_probe", GoesOn, at = 6
  PROVE  /\ UNCHANGED volume /\ script' = script /\ runs' = runs
         /\ store'[Sid] \in DOMAIN shot' /\ shot'[store'[Sid]].base = var["a"]
<1>1. mode = "call" /\ mode' = "call" /\ I.do = "end" /\ script # NoName /\ Call("end")
  <2>1. I.do = "end"
    BY Acts DEF Place
  <2> QED
    BY <2>1, NoNameIsNoScript DEF GoesOn, Scripts
<1>2. Nest(script) = <<Block("pool", NoName), Block("manager", NoName), Block("session", "a")>>
  BY DEF Nest, Leasing
<1>3. Len(frames) = 3
  BY <1>1 DEF Flow, Blocks, Depth
<1>4. \A kind : Leaving(kind) => kind = "session"
  BY <1>2, <1>3, Top DEF Block
<1>5. LeaveSession
  BY <1>1, <1>4, Acts DEF LeaveLease, LeaveTry, LeavePool
<1>6. PICK saved \in BOOLEAN : Checkpoint(Sid, saved) /\ Left(~saved)
  BY <1>5 DEF LeaveSession, CloseSession
<1>7. saved
  BY <1>1, <1>6 DEF Left
<1>8. Rotated
  BY <1>5, <1>6, <1>7, Rotates
<1>9. frames[3].kind = "session" /\ frames[3].v = "a"
  BY <1>1, <1>2, <1>3 DEF Flow, Blocks, Block
<1>10. live[Sid] = var["a"]
  BY <1>3, <1>9 DEF Data, Users, Lively, LiveIs, Opened
<1>11. store'[Sid] = NewShot
  BY <1>5, <1>8, LeavingLive DEF Rotated, Shots
<1> QED
  BY <1>5, <1>8, <1>10, <1>11 DEF Rotated, Copy, LeaveSession, fixed

\* The second session's sandbox is made from the snapshot of the first.
LEMMA ProbeOpens ==
  ASSUME Flow, Data, Shots, Next, script = "volume_probe", GoesOn, at = 7,
         store[Sid] \in DOMAIN shot
  PROVE  UNCHANGED volume /\ disk'[var'["a"]] = shot[store[Sid]]
<1>1. OpenSession /\ Call("session")
  BY Acts DEF Place, GoesOn
<1>2. ~Raises
  BY <1>1, RaisesLoud DEF Caught, GoesOn
<1>3. store[Sid] \in Nat \ {0}
  BY ShotAssumption DEF Shots
<1>4. ~(store[Sid] <= 0)
  BY <1>3
<1>5. Make(shot[store[Sid]]) /\ var' = [var EXCEPT ![I.v] = made + 1] /\ volume' = volume
  BY <1>1, <1>2, <1>4 DEF OpenSession
<1>6. Word(I, "session", "a")
  BY VolumeProbeText DEF I
<1>7. var'["a"] = made + 1
  BY <1>5, <1>6 DEF Word, Data, Users, HoldIs, Variables
<1> QED
  BY <1>5, <1>7 DEF Make

\* A checked write that goes on has been made.
LEMMA ProbeWrites ==
  ASSUME Flow, Data, Kinds, Next, script = "volume_probe", GoesOn, at = 5
  PROVE  volume'["probe"].by = var'["a"]
<1>1. WriteOne /\ Call("write") /\ I.on = "probe" /\ I.checked /\ ~I.quiet
  BY Acts DEF Place, GoesOn
<1>2. ~Raises
  BY <1>1 DEF Raises, GoesOn
<1>3. Put /\ var' = var
  BY <1>1, <1>2 DEF WriteOne
<1>4. volume' = [volume EXCEPT !["probe"] = Mark]
  BY <1>1, <1>3 DEF Put
<1>5. Word(I, "write", "a")
  BY VolumeProbeText DEF I
<1> QED
  BY <1>3, <1>4, <1>5 DEF Word, Mark, Kinds, Volumes

LEMMA ProbeReadNext ==
  ASSUME Flow, Data, Shots, Kinds, ProbeRead, [Next]_vars
  PROVE  ProbeRead'
<1>1. CASE UNCHANGED vars
  BY <1>1 DEF vars, ProbeRead, Passed, Sid
<1> SUFFICES ASSUME Next, script' = "volume_probe", mode' = "call"
             PROVE  ProbeRead'
  BY <1>1 DEF ProbeRead
<1>2. CASE Begins /\ at' = 1 /\ seen' = {} /\ DOMAIN disk' = {} /\ runs' = runs + 1 /\ volume' = volume
  BY <1>2 DEF ProbeRead, Passed
<1>3. CASE /\ script' = script /\ runs' = runs /\ mode = "call"
           /\ GoesOn \/ ((Warmer \/ LeaveManagerLive) /\ UNCHANGED <<at, frames>>)
  <2>0. /\ script = "volume_probe" /\ script # NoName /\ ~Begins /\ at \in Nat
        /\ Sid' = Sid /\ Passed = 8 /\ Passed' = 8
    BY <1>3, NoNameIsNoScript DEF Begins, Start, Flow, Scripts, Sid, Passed
  <2>1. /\ at = 6 => volume["probe"].by = var["a"]
        /\ at = 7 => store[Sid] \in DOMAIN shot /\ shot[store[Sid]].base = volume["probe"].by
        /\ at = 8 => disk[var["a"]].base = volume["probe"].by
        /\ \A x \in seen : x.base = x.mark.by
        /\ at > 8 => seen # {}
    BY <1>3, <2>0 DEF ProbeRead
  <2>2. at \in {7, 8} => ~LeaveManagerLive
    <3> SUFFICES ASSUME at \in {7, 8}, Call("end") PROVE FALSE
      BY <1>3, LeavesAt DEF LeaveManagerLive
    <3>1. Place(script, at, I) /\ I.do = "end"
      BY Where
    <3>2. at = 7 \/ at = 8
      OBVIOUS
    <3> QED
      BY <2>0, <3>1, <3>2 DEF Place
  <2>3. at' = 6 => volume'["probe"].by = var'["a"]
    <3> HAVE at' = 6
    <3>1. CASE GoesOn
      BY <2>0, <3>1, ProbeWrites DEF GoesOn
    <3>2. CASE (Warmer \/ LeaveManagerLive) /\ UNCHANGED <<at, frames>>
      BY <2>1, <3>2 DEF Warmer, LeaveManagerLive
    <3> QED
      BY <1>3, <3>1, <3>2
  <2>4. at' = 7 => store'[Sid] \in DOMAIN shot' /\ shot'[store'[Sid]].base = volume'["probe"].by
    <3> HAVE at' = 7
    <3>1. CASE GoesOn
      <4>1. at = 6
        BY <2>0, <3>1 DEF GoesOn
      <4> QED
        BY <2>0, <2>1, <3>1, <4>1, ProbeSaves
    <3>2. CASE Warmer /\ UNCHANGED <<at, frames>>
      BY <2>1, <3>2 DEF Warmer
    <3> QED
      BY <1>3, <2>2, <3>1, <3>2
  <2>5. at' = 8 => disk'[var'["a"]].base = volume'["probe"].by
    <3> HAVE at' = 8
    <3>1. CASE GoesOn
      <4>1. at = 7
        BY <2>0, <3>1 DEF GoesOn
      <4> QED
        BY <2>0, <2>1, <3>1, <4>1, ProbeOpens
    <3>2. CASE Warmer /\ UNCHANGED <<at, frames>>
      <4>1. volume' = volume /\ var' = var /\ Make(Fresh)
        BY <3>2 DEF Warmer
      <4>2. Has(script, 8, "a")
        BY <2>0 DEF Has, Depth, Nest, Leasing
      <4>3. var["a"] \in Out
        BY <1>3, <3>2, <4>2 DEF Held, Variables, Data, Users, HoldIs
      <4>4. var["a"] \in DOMAIN disk /\ var["a"] # made + 1
        BY <4>3, OutMade DEF Data
      <4>5. disk'[var["a"]] = disk[var["a"]]
        BY <4>1, <4>4 DEF Make
      <4> QED
        BY <2>1, <3>2, <4>1, <4>5
    <3> QED
      BY <1>3, <2>2, <3>1, <3>2
  <2>6. \/ seen' = seen
        \/ /\ ReadOne /\ Call("read") /\ I.v \in Held
           /\ seen' = seen \cup {Sight(m) : m \in Found}
    BY <2>0, SeenMoves
  <2>7. \A x \in seen' : x.base = x.mark.by
    <3>1. CASE seen' = seen
      BY <2>1, <3>1
    <3>2. CASE /\ ReadOne /\ Call("read") /\ I.v \in Held
               /\ seen' = seen \cup {Sight(m) : m \in Found}
      <4>1. I.on = "probe" /\ at = 8
        BY <2>0, <3>2, Where DEF Place
      <4>2. I.v = "a"
        BY <2>0, <4>1, VolumeProbeText DEF I, Word
      <4>3. Found \subseteq {volume["probe"]}
        BY <4>1 DEF Found
      <4>4. \A m \in Found : Sight(m).base = Sight(m).mark.by
        BY <2>1, <4>1, <4>2, <4>3 DEF Sight
      <4> QED
        BY <2>1, <3>2, <4>4
    <3> QED
      BY <2>6, <3>1, <3>2
  <2>8. at' > 8 => seen' # {}
    <3>1. CASE at > 8
      BY <2>1, <2>6, <3>1
    <3>2. CASE GoesOn /\ at = 8
      <4>1. I.do = "read" /\ I.checked /\ ~I.quiet
        BY <2>0, <3>2, Acts DEF Place
      <4>2. seen' = seen \cup {Sight(m) : m \in Found} /\ Found # {}
        BY <2>0, <3>2, <4>1, SeenMoves
      <4> QED
        BY <4>2
    <3> QED
      BY <1>3, <2>0, <3>1, <3>2 DEF GoesOn
  <2> QED
    BY <2>0, <2>3, <2>4, <2>5, <2>7, <2>8 DEF ProbeRead
<1>4. script' \in Reading
  BY DEF Reading
<1> QED
  BY <1>2, <1>3, <1>4, Stays

\* Introspection has no session, and its snapshot is taken by the sixth call and
\* used by the eighth.
LEMMA Introspects ==
  ASSUME Flow, Next, script = "introspect", script' = script, mode' = "call"
  PROVE  /\ ~OpenSession /\ ~LeaveSession /\ ~LeaveManagerLive
         /\ TakeSnapshot => at = 6 /\ at' = 7
         /\ RehydrateOne => at = 8 /\ at' = 9
<1>1. ~OpenSession
  BY Where DEF OpenSession, Place
<1>2. ASSUME NEW kind \in {"session", "manager"}, Leaving(kind) PROVE FALSE
  <2>1. Len(frames) \in 1..Len(Nest(script)) /\ Nest(script)[Len(frames)].kind = kind
    BY <1>2, Top
  <2>2. Nest(script) = <<Block("pool", NoName)>>
    BY DEF Nest, Leasing
  <2> QED
    BY <2>1, <2>2 DEF Block
<1>3. ASSUME TakeSnapshot PROVE at = 6 /\ at' = 7
  <2>1. Call("snapshot") /\ (Returns \/ Raises) /\ at = 6
    BY <1>3, Where DEF TakeSnapshot, Place
  <2>2. at' = at + 1
    BY <2>1, FlowOnward DEF Entering
  <2> QED
    BY <2>1, <2>2
<1>4. ASSUME RehydrateOne PROVE at = 8 /\ at' = 9
  <2>1. Call("rehydrate") /\ (Returns \/ Raises) /\ at = 8
    BY <1>4, Where DEF RehydrateOne, Place
  <2>2. at' = at + 1
    BY <2>1, FlowOnward DEF Entering
  <2> QED
    BY <2>1, <2>2
<1> QED
  BY <1>1, <1>2, <1>3, <1>4 DEF LeaveSession, LeaveManagerLive

LEMMA MarkerTaken ==
  ASSUME Flow, Data, Next, script = "introspect", GoesOn, at = 6
  PROVE  /\ var[I.v] \in DOMAIN disk /\ var'["snap"] = NewShot
         /\ shot'[NewShot] = Copy(var[I.v])
<1>1. TakeSnapshot /\ Call("snapshot") /\ script' = script
  BY Acts DEF Place, GoesOn
<1>2. ~Raises
  BY <1>1, RaisesLoud DEF Caught, GoesOn
<1>3. I.v \in Held
  BY <1>1, HeldOnward DEF TakeSnapshot, Entering, Using
<1>4. var[I.v] \in DOMAIN disk
  BY <1>3, OutMade DEF Data, Users, HoldIs
<1>5. AddShot(var[I.v]) /\ var' = [var EXCEPT !["snap"] = NewShot]
  BY <1>1, <1>2 DEF TakeSnapshot
<1>6. var'["snap"] = NewShot
  BY <1>5 DEF Data, Users, HoldIs, Variables
<1> QED
  BY <1>4, <1>5, <1>6 DEF AddShot, Copy

LEMMA MarkerCopied ==
  ASSUME Flow, Data, Next, script = "introspect", GoesOn, at = 8
  PROVE  var["snap"] \in DOMAIN shot /\ disk'[var'["b"]] = shot[var["snap"]]
<1>1. RehydrateOne /\ Call("rehydrate")
  BY Acts DEF Place, GoesOn
<1>2. ~Raises
  BY <1>1, RaisesLoud DEF Caught, GoesOn
<1>3. Word(I, "rehydrate", "b")
  BY IntrospectText DEF I
<1>4. var["snap"] \in DOMAIN shot /\ Make(shot[var["snap"]]) /\ var' = [var EXCEPT ![I.v] = made + 1]
  BY <1>1, <1>2 DEF RehydrateOne
<1>5. var'["b"] = made + 1
  BY <1>3, <1>4 DEF Word, Data, Users, HoldIs, Variables
<1> QED
  BY <1>4, <1>5 DEF Make

\* From then on nothing is written.
LEMMA MarkerStays ==
  ASSUME Flow, Data, Next, script = "introspect", mode = "call", at \in 9..11, at' \in 9..11,
         GoesOn \/ (Warmer /\ UNCHANGED <<at, frames>>)
  PROVE  var'["b"] = var["b"] /\ disk'[var["b"]] = disk[var["b"]]
<1>1. CASE GoesOn
  <2>1. at = 9 \/ at = 10
    BY <1>1 DEF GoesOn
  <2>2. I.do \in {"track", "exec"}
    <3>1. Word(Code("introspect")[9], "track", "b") /\ Word(Code("introspect")[10], "exec", "b")
      BY IntrospectText
    <3> QED
      BY <2>1, <3>1 DEF I, Word
  <2>3. TrackOne \/ ExecOne
    BY <1>1, <2>2, Acts
  <2> QED
    BY <2>3 DEF TrackOne, ExecOne, service
<1>2. CASE Warmer
  <2>1. var["b"] \in DOMAIN disk /\ var["b"] # made + 1
    <3>1. CASE at = 9
      <4>1. var["b"] \in Untracked
        BY <3>1 DEF Untracked
      <4> QED
        BY <4>1 DEF Data, Stock, StockIs
    <3>2. CASE at \in 10..11
      <4>1. "b" \in Held
        BY <3>2 DEF Held, Has, Variables
      <4> QED
        BY <4>1, OutMade DEF Data, Users, HoldIs
    <3> QED
      BY <3>1, <3>2
  <2>2. var' = var /\ Make(Fresh)
    BY <1>2 DEF Warmer
  <2> QED
    BY <2>1, <2>2 DEF Make
<1> QED
  BY <1>1, <1>2

LEMMA MarkerReadNext ==
  ASSUME Flow, Data, Kinds, MarkerRead, [Next]_vars
  PROVE  MarkerRead'
<1>1. CASE UNCHANGED vars
  BY <1>1 DEF vars, MarkerRead
<1> SUFFICES ASSUME Next, script' = "introspect", mode' = "call"
             PROVE  MarkerRead'
  BY <1>1 DEF MarkerRead
<1>2. CASE Begins /\ at' = 1 /\ seen' = {} /\ DOMAIN disk' = {} /\ runs' = runs + 1 /\ volume' = volume
  BY <1>2 DEF MarkerRead
<1>3. CASE /\ script' = script /\ runs' = runs /\ mode = "call"
           /\ GoesOn \/ ((Warmer \/ LeaveManagerLive) /\ UNCHANGED <<at, frames>>)
  <2>0. script = "introspect" /\ ~Begins /\ at \in Nat
    BY <1>3, NoNameIsNoScript DEF Begins, Start, Flow, Scripts
  <2>1. /\ at <= 8 => \A s \in DOMAIN disk : \A m \in disk[s].marks : m.by = s
        /\ at \in 7..8 /\ var["snap"] \in DOMAIN shot =>
              \A m \in shot[var["snap"]].marks : m.by = shot[var["snap"]].base
        /\ at \in 9..11 => \A m \in disk[var["b"]].marks : m.by = disk[var["b"]].base
        /\ \A x \in seen : x.base = x.mark.by
    BY <1>3, <2>0 DEF MarkerRead
  <2>2. /\ ~OpenSession /\ ~LeaveSession /\ ~LeaveManagerLive
        /\ TakeSnapshot => at = 6 /\ at' = 7
        /\ RehydrateOne => at = 8 /\ at' = 9
    BY <1>3, <2>0, Introspects
  <2>3. \/ GoesOn /\ at' = at + 1
        \/ Warmer /\ UNCHANGED <<at, frames>>
    BY <1>3, <2>2 DEF GoesOn
  <2>4. ASSUME at' <= 8, NEW s \in DOMAIN disk', NEW m \in disk'[s].marks PROVE m.by = s
    <3>1. at <= 8
      BY <2>0, <2>3, <2>4
    <3>2. DiskStep(s)
      BY DiskMoves
    <3>3. CASE s \in DOMAIN disk /\ disk'[s] = disk[s]
      BY <2>1, <2>4, <3>1, <3>3
    <3>4. CASE /\ s = var[I.v] /\ s \in DOMAIN disk
               /\ disk' = [disk EXCEPT ![s].marks = @ \cup {Mark}]
      <4>1. disk'[s].marks = disk[s].marks \cup {Mark} /\ Mark.by = s
        BY <3>4 DEF Kinds, Contents, Mark
      <4> QED
        BY <2>1, <2>4, <3>1, <3>4, <4>1
    <3>5. CASE disk'[s] = Fresh
      BY <2>4, <3>5 DEF Fresh
    <3>6. ~RehydrateOne
      BY <2>2, <2>4
    <3> QED
      BY <2>2, <3>2, <3>3, <3>4, <3>5, <3>6 DEF DiskStep, Furnished
  <2>5. ASSUME at' \in 7..8, var'["snap"] \in DOMAIN shot'
        PROVE  \A m \in shot'[var'["snap"]].marks : m.by = shot'[var'["snap"]].base
    <3>1. CASE GoesOn /\ at = 6
      <4>1. /\ var[I.v] \in DOMAIN disk /\ var'["snap"] = NewShot
            /\ shot'[NewShot] = Copy(var[I.v])
        BY <2>0, <3>1, MarkerTaken
      <4>2. \A m \in disk[var[I.v]].marks : m.by = var[I.v]
        BY <2>1, <3>1, <4>1
      <4> QED
        BY <4>1, <4>2 DEF Copy
    <3>2. CASE at \in 7..8
      <4>1. ~TakeSnapshot
        BY <2>2, <3>2
      <4>2. var'["snap"] = var["snap"]
        BY <1>3, <4>1, SnapKept
      <4>3. ShotStep(var["snap"])
        BY <2>5, <4>2, ShotMoves
      <4>4. var["snap"] \in DOMAIN shot /\ shot'[var["snap"]] = shot[var["snap"]]
        BY <2>2, <4>1, <4>3 DEF ShotStep
      <4> QED
        BY <2>1, <3>2, <4>2, <4>4
    <3> QED
      BY <2>0, <2>3, <2>5, <3>1, <3>2
  <2>6. ASSUME at' \in 9..11 PROVE \A m \in disk'[var'["b"]].marks : m.by = disk'[var'["b"]].base
    <3>1. CASE GoesOn /\ at = 8
      <4>1. var["snap"] \in DOMAIN shot /\ disk'[var'["b"]] = shot[var["snap"]]
        BY <2>0, <3>1, MarkerCopied
      <4> QED
        BY <2>1, <3>1, <4>1
    <3>2. CASE at \in 9..11
      <4>1. var'["b"] = var["b"] /\ disk'[var["b"]] = disk[var["b"]]
        BY <1>3, <2>0, <2>3, <2>6, <3>2, MarkerStays
      <4> QED
        BY <2>1, <3>2, <4>1
    <3> QED
      BY <2>0, <2>3, <2>6, <3>1, <3>2
  <2>7. \/ seen' = seen
        \/ /\ ReadOne /\ Call("read") /\ I.v \in Held
           /\ seen' = seen \cup {Sight(m) : m \in Found}
    BY <2>0, SeenMoves
  <2>8. \A x \in seen' : x.base = x.mark.by
    <3>1. CASE seen' = seen
      BY <2>1, <3>1
    <3>2. CASE /\ ReadOne /\ Call("read") /\ I.v \in Held
               /\ seen' = seen \cup {Sight(m) : m \in Found}
      <4>1. I.on = "disk" /\ at = 11
        BY <2>0, <3>2, Where DEF Place
      <4>2. I.v = "b"
        BY <2>0, <4>1, IntrospectText DEF I, Word
      <4>3. Found \subseteq disk[var["b"]].marks
        BY <4>1, <4>2 DEF Found
      <4>4. \A m \in Found : Sight(m).base = Sight(m).mark.by
        BY <2>1, <4>1, <4>2, <4>3 DEF Sight
      <4> QED
        BY <2>1, <3>2, <4>4
    <3> QED
      BY <2>7, <3>1, <3>2
  <2> QED
    BY <2>4, <2>5, <2>6, <2>8 DEF MarkerRead
<1>4. script' \in Reading
  BY DEF Reading
<1> QED
  BY <1>2, <1>3, <1>4, Stays

\* How long the scripts are that read.
LEMMA ReadingEnds ==
  ASSUME script \in Reading
  PROVE  Len(Code(script)) \in Nat /\ Len(Code(script)) >= Passed
<1>1. CASE script = "read"
  BY <1>1, ReadTurnText DEF Passed
<1>2. CASE script = "both"
  BY <1>2, BothTurnsText DEF Passed
<1>3. CASE script = "volume_probe"
  BY <1>3, VolumeProbeText DEF Passed
<1>4. CASE script = "introspect"
  <2>1. Len(Code(script)) = 13
    BY <1>4, IntrospectEnds
  <2>2. Passed = 8
    BY <1>4 DEF Passed
  <2> QED
    BY <2>1, <2>2
<1> QED
  BY <1>1, <1>2, <1>3, <1>4 DEF Reading

\* The verdict is on what was seen when the script ended.
LEMMA VerdictNext ==
  ASSUME Flow, Data, NoteRead, ProbeRead, MarkerRead, Blind, VerdictHonest, [Next]_vars
  PROVE  VerdictHonest'
<1>1. CASE UNCHANGED vars
  BY <1>1 DEF vars, VerdictHonest
<1> SUFFICES ASSUME Next, mode' = "idle", ended'.ok PROVE VerdictHonest'
  BY <1>1 DEF VerdictHonest
<1>2. CASE Finish
  <2>1. /\ ended' = [script |-> script, ok |-> mode = "call"]
        /\ UNCHANGED <<seen, runs>>
        /\ (mode = "call" /\ at > Len(Code(script))) \/ mode = "raise"
    BY <1>2 DEF Finish, ghosts
  <2>2. ended'.script = script /\ (ended'.ok <=> mode = "call")
    BY <2>1
  <2>3. mode = "call" /\ at > Len(Code(script)) /\ at \in Nat /\ script # NoName
    BY <2>1, <2>2 DEF Flow
  <2>4. script \in Reading => at > Passed
    <3> HAVE script \in Reading
    <3>1. Passed \in Nat
      BY DEF Passed
    <3> QED
      BY <2>3, <3>1, ReadingEnds
  <2>5. CASE script \in {"read", "both"}
    BY <2>1, <2>2, <2>3, <2>4, <2>5 DEF VerdictHonest, NoteRead, Reading
  <2>6. CASE script = "volume_probe"
    BY <2>1, <2>2, <2>3, <2>4, <2>6 DEF VerdictHonest, ProbeRead, Reading
  <2>7. CASE script = "introspect"
    BY <2>1, <2>2, <2>3, <2>7 DEF VerdictHonest, MarkerRead
  <2>8. CASE script \notin Reading
    BY <2>1, <2>2, <2>3, <2>8 DEF VerdictHonest, Blind, Reading
  <2> QED
    BY <2>5, <2>6, <2>7, <2>8 DEF Reading
<1>3. ASSUME NEW name \in Scripts, Start(name) PROVE FALSE
  BY <1>3 DEF Start
<1>4. CASE LeaveTry
  BY <1>4 DEF LeaveTry
<1>5. CASE (Warmer \/ LeaveManagerLive) /\ UNCHANGED <<script, at, mode, frames>>
  <2>1. UNCHANGED <<ended, seen, runs>>
    BY <1>5 DEF Warmer, LeaveManagerLive, fixed, ghosts
  <2> QED
    BY <1>5, <2>1 DEF VerdictHonest
<1>6. CASE (script' = script /\ mode' = "raise" /\ at' = at) \/ GoesOn
  BY <1>6 DEF GoesOn
<1> QED
  BY <1>2, <1>3, <1>4, <1>5, <1>6, Moves

Observed ==
    /\ Flow /\ Data /\ Shots /\ Billed /\ Kinds
    /\ NoteRead /\ ProbeRead /\ MarkerRead /\ Blind /\ VerdictHonest

\* A script that reports success has seen what it reports: the note of another
\* sandbox, the volume and the snapshot in the second turn of the volume probe,
\* and the marker in a sandbox that was rehydrated.
THEOREM VerdictsHonest == Spec => []VerdictHonest
<1>1. Init => Observed
  BY FlowInit, DataInit, BilledInit, KindsInit, SeenInit DEF Observed
<1>2. Observed /\ [Next]_vars => Observed'
  <2> SUFFICES ASSUME Observed, [Next]_vars PROVE Observed'
    OBVIOUS
  <2>1. Flow' /\ Data' /\ Kinds'
    BY FlowNext, DataNext, KindsNext DEF Observed
  <2>2. Shots' /\ Billed'
    BY BilledNext DEF Observed
  <2>3. NoteRead' /\ ProbeRead' /\ MarkerRead' /\ Blind'
    BY NoteReadNext, ProbeReadNext, MarkerReadNext, BlindNext DEF Observed
  <2>4. VerdictHonest'
    BY VerdictNext DEF Observed
  <2> QED
    BY <2>1, <2>2, <2>3, <2>4 DEF Observed
<1>3. Observed => VerdictHonest
  BY DEF Observed
<1> QED
  BY <1>1, <1>2, <1>3, PTL DEF Spec

-----------------------------------------------------------------------------
(* The type of the whole state.                                            *)

\* What the pool may hold, which snapshots went astray, what was written and
\* read and which turns ended well; and the snapshot of introspect is one.
Tallied ==
    /\ ended \in [script : Scripts \cup {NoName}, ok : BOOLEAN]
    /\ size \in Nat /\ wrote \in BOOLEAN
    /\ hidden \subseteq ShotIds /\ Noted \subseteq ShotIds
    /\ seen \subseteq [mark : Marks, on : 1..made, base : Nat]
    /\ kept \subseteq 1..runs

\* A script starts with a clean slate and the store's snapshots.
LEMMA TalliedStart ==
  ASSUME Data, Tallied, NEW name \in Scripts, Start(name)
  PROVE  Tallied'
<1>1. runs \in Nat /\ runs' = runs + 1 /\ at' = 1
  BY BoundAssumption DEF Start, Data, Users
<1>2. Noted' = {}
  BY <1>1 DEF Noted
<1>3. kept' \subseteq 1..runs'
  <2>1. kept' = kept /\ kept \subseteq 1..runs
    BY DEF Start, Tallied
  <2> QED
    BY <1>1, <2>1
<1> QED
  BY <1>2, <1>3 DEF Start, Tallied

\* How a script ended, and the turns that ended well.
LEMMA EndedMoves ==
  ASSUME Flow, Kinds, Data, Tallied, Next, ~Begins
  PROVE  /\ ended' \in [script : Scripts \cup {NoName}, ok : BOOLEAN]
         /\ kept' \subseteq 1..runs'
<1>1. CASE Finish
  <2>1. /\ ended' = [script |-> script, ok |-> mode = "call"] /\ runs' = runs
        /\ kept' \subseteq kept \cup {runs}
    BY <1>1 DEF Finish
  <2>2. runs \in 1..runs
    <3>1. script # NoName /\ runs \in Nat
      BY <1>1, BoundAssumption DEF Finish, Flow, Data, Users
    <3> QED
      BY <3>1 DEF Kinds
  <2>3. ended' \in [script : Scripts \cup {NoName}, ok : BOOLEAN]
    BY <2>1 DEF Flow
  <2> QED
    BY <2>1, <2>2, <2>3 DEF Tallied
<1>2. CASE DiscardOne
  <2>1. UNCHANGED <<ended, runs>> /\ kept' \subseteq kept
    BY <1>2 DEF DiscardOne
  <2> QED
    BY <2>1 DEF Tallied
<1>3. CASE UNCHANGED fixed /\ runs' = runs
  BY <1>3 DEF fixed, Tallied
<1>4. CASE \/ OpenPool \/ Warmer \/ WaitForWarm \/ EnsureVolume \/ AcquireOne
           \/ ReleaseOne \/ RehydrateOne \/ TrackOne \/ TakeSnapshot \/ DropSnapshot
  BY <1>3, <1>4 DEF OpenPool, Warmer, WaitForWarm, EnsureVolume, AcquireOne, ReleaseOne,
     RehydrateOne, TrackOne, TakeSnapshot, DropSnapshot, fixed
<1>5. CASE \/ ExecOne \/ WriteOne \/ ReadOne \/ OpenSession \/ EnterTry
           \/ LeaveLease \/ LeaveTry \/ LeaveSession \/ LeaveManagerLive \/ LeavePool
  BY <1>3, <1>5 DEF ExecOne, WriteOne, ReadOne, OpenSession, EnterTry, LeaveLease, LeaveTry,
     LeaveSession, LeaveManagerLive, LeavePool, fixed
<1> QED
  BY <1>1, <1>2, <1>4, <1>5 DEF Next, Begins

\* The warm size is one that was asked for.
LEMMA SizeMoves ==
  ASSUME Flow, Tallied, Next, ~Begins
  PROVE  size' \in Nat
<1>1. CASE OpenPool
  <2>1. Call("pool") \/ Call("manager")
    BY <1>1 DEF OpenPool
  <2>2. I.sizes \subseteq Nat
    BY <2>1, Where DEF Place
  <2>3. size' \in I.sizes \/ size' = size
    BY <1>1 DEF OpenPool
  <2> QED
    BY <2>2, <2>3 DEF Tallied
<1>2. CASE LeavePool
  BY <1>2 DEF LeavePool
<1>3. CASE UNCHANGED size
  BY <1>3 DEF Tallied
<1>4. CASE \/ Finish \/ Warmer \/ WaitForWarm \/ EnsureVolume \/ AcquireOne
           \/ ReleaseOne \/ RehydrateOne \/ TrackOne \/ TakeSnapshot \/ DropSnapshot
  BY <1>3, <1>4 DEF Finish, Warmer, WaitForWarm, EnsureVolume, AcquireOne, ReleaseOne,
     RehydrateOne, TrackOne, TakeSnapshot, DropSnapshot, pool
<1>5. CASE \/ ExecOne \/ WriteOne \/ ReadOne \/ OpenSession \/ DiscardOne \/ EnterTry
           \/ LeaveLease \/ LeaveTry \/ LeaveSession \/ LeaveManagerLive
  BY <1>3, <1>5 DEF ExecOne, WriteOne, ReadOne, OpenSession, DiscardOne, EnterTry, LeaveLease,
     LeaveTry, LeaveSession, LeaveManagerLive, pool
<1> QED
  BY <1>1, <1>2, <1>4, <1>5 DEF Next, Begins

\* What goes astray is a snapshot.
LEMMA HiddenMoves ==
  ASSUME Flow, Data, Shots, Tallied, Next, ~Begins
  PROVE  hidden' \subseteq ShotIds
<1>1. CASE UNCHANGED hidden
  BY <1>1 DEF Tallied
<1>2. CASE TakeSnapshot
  <2>1. \/ UNCHANGED hidden
        \/ AddShot(var[I.v]) /\ hidden' = hidden \cup {NewShot}
    BY <1>2 DEF TakeSnapshot
  <2> QED
    BY <2>1, ShotAdded DEF Tallied
<1>3. CASE DropSnapshot
  <2>1. Call("drop") /\ hidden' \subseteq hidden \cup {var["snap"]}
    BY <1>3 DEF DropSnapshot
  <2>2. script = "introspect" /\ at = 12
    BY <2>1, Where DEF Place
  <2>3. Noted = {var["snap"]}
    BY <2>2 DEF Noted
  <2> QED
    BY <2>1, <2>3 DEF Tallied
<1>4. CASE DiscardOne
  <2>1. hidden' \subseteq hidden \cup DOMAIN shot
    BY <1>4 DEF DiscardOne
  <2> QED
    BY <2>1 DEF Tallied, Shots
<1>5. CASE LeaveSession \/ LeaveManagerLive
  <2>1. PICK saved \in BOOLEAN : Checkpoint(Sid, saved)
    BY <1>5 DEF LeaveSession, LeaveManagerLive, CloseSession
  <2>2. \/ UNCHANGED hidden
        \/ AddShot(live[Sid]) /\ hidden' = hidden \cup {NewShot}
        \/ store[Sid] \in DOMAIN shot /\ hidden' = hidden \cup {store[Sid]}
    BY <2>1 DEF Checkpoint
  <2> QED
    BY <2>2, ShotAdded DEF Tallied, Shots
<1>6. CASE \/ Finish \/ OpenPool \/ Warmer \/ WaitForWarm \/ EnsureVolume \/ AcquireOne
           \/ ReleaseOne \/ RehydrateOne \/ TrackOne
  BY <1>1, <1>6 DEF Finish, OpenPool, Warmer, WaitForWarm, EnsureVolume, AcquireOne, ReleaseOne,
     RehydrateOne, TrackOne, service
<1>7. CASE \/ ExecOne \/ WriteOne \/ ReadOne \/ OpenSession \/ EnterTry
           \/ LeaveLease \/ LeaveTry \/ LeavePool
  BY <1>1, <1>7 DEF ExecOne, WriteOne, ReadOne, OpenSession, EnterTry, LeaveLease, LeaveTry,
     LeavePool, service
<1> QED
  BY <1>2, <1>3, <1>4, <1>5, <1>6, <1>7 DEF Next, Begins

\* The snapshot introspect has to delete is one it has taken.
LEMMA NotedMoves ==
  ASSUME Flow, Data, Tallied, Next
  PROVE  Noted' \subseteq ShotIds
<1>1. CASE ~TakeSnapshot
  BY <1>1, NotedNew DEF Tallied
<1>2. CASE TakeSnapshot
  <2>1. Call("snapshot") /\ "snapshot" \notin Caught /\ script' = script
    BY <1>2 DEF TakeSnapshot, Caught, fixed
  <2>2. at = 6
    BY <2>1, Where DEF Place
  <2>3. CASE AddShot(var[I.v]) /\ var' = [var EXCEPT !["snap"] = NewShot]
    <3>1. NewShot \in ShotIds
      BY <2>3, ShotAdded
    <3>2. var'["snap"] = NewShot
      BY <2>3 DEF Data, Users, HoldIs, Variables
    <3> QED
      BY <3>1, <3>2 DEF Noted
  <2>4. CASE Raises
    <3>1. ~I.quiet
      <4>1. mode = "call" /\ at <= Len(Code(script)) /\ I.do = "snapshot"
        BY <2>1 DEF Call
      <4> QED
        BY <2>1, <4>1, Here DEF Fits
    <3>2. at' = 6
      BY <2>2, <2>4, <3>1 DEF Raises
    <3> QED
      BY <3>2 DEF Noted
  <2> QED
    BY <1>2, <2>3, <2>4 DEF TakeSnapshot
<1> QED
  BY <1>1, <1>2

\* What is found was written by a run.
LEMMA FoundMarks ==
  ASSUME Flow, Data, Kinds, Call("read"), I.v \in Held
  PROVE  /\ Found \subseteq Marks
         /\ \A m \in Found : Sight(m) \in [mark : Marks, on : 1..made, base : Nat]
<1>1. var[I.v] \in 1..made /\ var[I.v] \in DOMAIN disk
  BY OutMade DEF Data, Users, HoldIs
<1>2. disk[var[I.v]] \in Contents
  BY <1>1 DEF Kinds
<1>3. disk[var[I.v]].marks \subseteq Marks /\ disk[var[I.v]].base \in Nat
  BY <1>2 DEF Contents
<1>4. I.on \in {"disk", "demo", "probe"}
  BY Where DEF Place
<1>5. volume["demo"] \in Marks /\ volume["probe"] \in Marks
  BY DEF Kinds, Volumes
<1>6. Found \subseteq Marks
  BY <1>3, <1>4, <1>5 DEF Found
<1> QED
  BY <1>1, <1>3, <1>6 DEF Sight

\* What a script has seen stays within the marks and the sandboxes made.
LEMMA SeenTyped ==
  ASSUME Flow, Data, Kinds, Tallied, Next, ~Begins
  PROVE  seen' \subseteq [mark : Marks, on : 1..made', base : Nat]
<1>1. made \in Nat /\ (made' = made \/ made' = made + 1)
  BY MadeMoves DEF Data, Stock, StockIs
<1>2. seen' \subseteq [mark : Marks, on : 1..made, base : Nat]
  <2>1. CASE seen' = seen
    BY <2>1 DEF Tallied
  <2>2. CASE /\ Call("read") /\ I.v \in Held
             /\ seen' = seen \cup {Sight(m) : m \in Found}
    BY <2>2, FoundMarks DEF Tallied
  <2> QED
    BY <2>1, <2>2, SeenMoves
<1>3. 1..made \subseteq 1..made'
  BY <1>1
<1> QED
  BY <1>2, <1>3

LEMMA TalliedNext ==
  ASSUME Flow, Data, Shots, Kinds, Tallied, [Next]_vars
  PROVE  Tallied'
<1>1. CASE UNCHANGED vars
  BY <1>1 DEF vars, Tallied, Noted
<1>2. CASE Begins
  BY <1>2, TalliedStart DEF Begins
<1>3. CASE Next /\ ~Begins
  <2>1. wrote' \in BOOLEAN
    <3>1. CASE WriteOne
      BY <3>1 DEF WriteOne, Tallied
    <3>2. CASE UNCHANGED wrote
      BY <3>2 DEF Tallied
    <3>3. CASE \/ Finish \/ OpenPool \/ Warmer \/ WaitForWarm \/ EnsureVolume \/ AcquireOne
               \/ ReleaseOne \/ RehydrateOne \/ TrackOne \/ TakeSnapshot \/ DropSnapshot
      BY <3>2, <3>3 DEF Finish, OpenPool, Warmer, WaitForWarm, EnsureVolume, AcquireOne,
         ReleaseOne, RehydrateOne, TrackOne, TakeSnapshot, DropSnapshot, ghosts
    <3>4. CASE \/ ExecOne \/ ReadOne \/ OpenSession \/ DiscardOne \/ EnterTry
               \/ LeaveLease \/ LeaveTry \/ LeaveSession \/ LeaveManagerLive \/ LeavePool
      BY <3>2, <3>4 DEF ExecOne, ReadOne, OpenSession, DiscardOne, EnterTry, LeaveLease,
         LeaveTry, LeaveSession, LeaveManagerLive, LeavePool, ghosts
    <3> QED
      BY <1>3, <3>1, <3>3, <3>4 DEF Next, Begins
  <2> QED
    BY <1>3, <2>1, EndedMoves, SizeMoves, HiddenMoves, NotedMoves, SeenTyped DEF Tallied
<1> QED
  BY <1>1, <1>2, <1>3

LEMMA TalliedInit == Init => Tallied
<1> SUFFICES ASSUME Init PROVE Tallied
  OBVIOUS
<1>1. Noted = {}
  BY DEF Init, Noted
<1>2. ended \in [script : Scripts \cup {NoName}, ok : BOOLEAN]
  BY DEF Init
<1> QED
  BY <1>1, <1>2 DEF Init, Tallied

\* The place of a script in its calls and its blocks.
LEMMA PlaceTyped ==
  ASSUME Flow
  PROVE  /\ script \in Scripts \cup {NoName} /\ mode \in {"idle", "call", "raise"}
         /\ at \in 1..(IF script = NoName THEN 1 ELSE Len(Code(script)) + 1)
         /\ (mode = "idle") <=> (script = NoName)
         /\ frames \in Seq([kind : Entering, v : Variables \cup {NoName}, after : Nat])
         /\ mode = "idle" => frames = <<>>
         /\ Call("end") => frames # <<>>
<1>1. Call("end") => frames # <<>>
  <2> HAVE Call("end")
  <2>1. mode = "call" /\ at <= Len(Code(script)) /\ I.do = "end"
    BY DEF Call
  <2>2. Fits(script, at, I, Nest(script), Len(frames), Depth(script)[at + 1])
    BY <2>1, Here
  <2>3. Len(frames) > 0
    BY <2>1, <2>2 DEF Fits
  <2> QED
    BY <2>3
<1> QED
  BY <1>1, Idle DEF Flow, Blocks

\* The sandboxes, in the pool, with the script and on the service.
LEMMA StockTyped ==
  ASSUME Data
  PROVE  /\ var \in [Variables -> Nat] /\ open \in BOOLEAN /\ made \in Nat
         /\ active \subseteq DOMAIN disk /\ warm \in Seq(active)
         /\ DOMAIN disk \subseteq 1..made /\ strays \subseteq DOMAIN disk
         /\ live \in [SessionIds -> 0..made]
         /\ runs \in 0..MaxRuns
<1>1. /\ strays \subseteq DOMAIN disk /\ DOMAIN disk \subseteq 1..made /\ open \in BOOLEAN
      /\ made \in Nat /\ active \subseteq DOMAIN disk
  BY DEF Data, Stock, StockIs, Closed
<1>2. warm \in Seq(active)
  BY DEF Data, Stock, StockIs
<1>3. live \in [SessionIds -> 0..made]
  <2>1. live \in [SessionIds -> Nat] /\ \A i \in SessionIds : live[i] # NoId => live[i] \in Out
    BY DEF Data, Users, Lively, LiveIs
  <2>2. \A i \in SessionIds : live[i] \in 0..made
    BY <1>1, <2>1, OutMade DEF Data, NoId
  <2> QED
    BY <2>1, <2>2
<1>4. var \in [Variables -> Nat] /\ runs \in 0..MaxRuns
  BY DEF Data, Users, HoldIs
<1> QED
  BY <1>1, <1>2, <1>3, <1>4

Typed == Flow /\ Data /\ Shots /\ Billed /\ Kinds /\ Tallied

\* Every variable keeps its type, and a script stays within its calls and its
\* blocks.
THEOREM TypeCorrect == Spec => []TypeOK
<1>1. Init => Typed
  BY FlowInit, DataInit, BilledInit, KindsInit, TalliedInit DEF Typed
<1>2. Typed /\ [Next]_vars => Typed'
  <2> SUFFICES ASSUME Typed, [Next]_vars PROVE Typed'
    OBVIOUS
  <2>1. Flow' /\ Data' /\ Kinds'
    BY FlowNext, DataNext, KindsNext DEF Typed
  <2>2. Shots' /\ Billed'
    BY BilledNext DEF Typed
  <2>3. Tallied'
    BY TalliedNext DEF Typed
  <2> QED
    BY <2>1, <2>2, <2>3 DEF Typed
<1>3. Typed => TypeOK
  <2> SUFFICES ASSUME Typed PROVE TypeOK
    OBVIOUS
  <2>1. Flow /\ Data /\ Shots /\ Kinds /\ Tallied
    BY DEF Typed
  <2>2. /\ DOMAIN shot \subseteq ShotIds
        /\ store \in [SessionIds -> {NoEntry, 0} \cup ShotIds]
    BY <2>1 DEF Shots
  <2>3. /\ \A s \in DOMAIN disk : disk[s] \in Contents
        /\ \A p \in DOMAIN shot : shot[p] \in Contents
        /\ volume \in [Volumes -> Marks]
    BY <2>1 DEF Kinds
  <2>4. /\ ended \in [script : Scripts \cup {NoName}, ok : BOOLEAN]
        /\ size \in Nat /\ wrote \in BOOLEAN /\ hidden \subseteq ShotIds
        /\ seen \subseteq [mark : Marks, on : 1..made, base : Nat]
        /\ kept \subseteq 1..runs
    BY <2>1 DEF Tallied
  <2> QED
    BY <2>1, <2>2, <2>3, <2>4, PlaceTyped, StockTyped DEF TypeOK
<1> QED
  BY <1>1, <1>2, <1>3, PTL DEF Spec
=============================================================================

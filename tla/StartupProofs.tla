----------------------------- MODULE StartupProofs -----------------------------
(***************************************************************************)
(* For every configuration, with any number of nodes and devices, any      *)
(* choice of Ray's and any interleaving and failure: two groups never      *)
(* start on one device at once, and the collective of a refit is whole.    *)
(***************************************************************************)
EXTENDS StartupProperties, SequenceTheorems, FiniteSetTheorems, TLAPS

-----------------------------------------------------------------------------
(* Scripts. *)

Ops == [op : {"place", "start", "wait", "sleep", "port", "connect"}, group : GroupNames \ {"reward"}]

\* A group is placed before it is started.
PlacedFirst(s) ==
    \A i \in 1..Len(s) :
        s[i].op = "start" => i > 1 /\ s[i - 1] = Op("place", s[i].group)

\* A script: what it starts it has placed, and a port is followed by its collective.
IsScript(s) ==
    /\ s \in Seq(Ops)
    /\ PlacedFirst(s)
    /\ \A i \in 1..Len(s) :
          s[i].op = "port" => i < Len(s) /\ s[i + 1] = Op("connect", s[i].group)

StartsNothing(s) == \A i \in 1..Len(s) : s[i].op # "start"
LooksForNoPort(s) == \A i \in 1..Len(s) : s[i].op # "port"

\* Whatever is started sleeps before the next of its cluster is started.
Orderly(s, conf) ==
    \A i, k \in 1..Len(s) :
        (/\ i < k /\ s[i].op = "start" /\ s[k].op = "start"
         /\ ClusterOf(conf, s[i].group) = ClusterOf(conf, s[k].group))
            => \E j \in 1..Len(s) : i < j /\ j < k /\ s[j] = Op("sleep", s[i].group)

\* Whatever is started sleeps in the end, and before the next is started.
Yields(s) ==
    \A i \in 1..Len(s) :
        s[i].op = "start" =>
            \E j \in 1..Len(s) :
                /\ i < j /\ s[j] = Op("sleep", s[i].group)
                /\ \A k \in 1..Len(s) : i < k /\ k < j => s[k].op # "start"

\* An operation of a joined script belongs to one of its parts.
LEMMA JoinedScripts ==
    ASSUME NEW s \in Seq(Ops), NEW t \in Seq(Ops)
    PROVE  /\ s \o t \in Seq(Ops)
           /\ Len(s) \in Nat /\ Len(t) \in Nat
           /\ Len(s \o t) = Len(s) + Len(t)
           /\ \A i \in 1..Len(s) : i \in 1..Len(s \o t) /\ (s \o t)[i] = s[i]
           /\ \A i \in 1..Len(t) : i + Len(s) \in 1..Len(s \o t) /\ (s \o t)[i + Len(s)] = t[i]
           /\ \A i \in 1..Len(s \o t) :
                 \/ i \in 1..Len(s) /\ (s \o t)[i] = s[i]
                 \/ i - Len(s) \in 1..Len(t) /\ (s \o t)[i] = t[i - Len(s)]
<1>1. /\ s \o t \in Seq(Ops)
      /\ Len(s \o t) = Len(s) + Len(t)
      /\ \A i \in 1..(Len(s) + Len(t)) :
            (s \o t)[i] = IF i <= Len(s) THEN s[i] ELSE t[i - Len(s)]
    BY ConcatProperties
<1>2. Len(s) \in Nat /\ Len(t) \in Nat
    OBVIOUS
<1>3. ASSUME NEW i \in 1..Len(s) PROVE i \in 1..Len(s \o t) /\ (s \o t)[i] = s[i]
    BY <1>1, <1>2
<1>4. ASSUME NEW i \in 1..Len(t)
      PROVE  i + Len(s) \in 1..Len(s \o t) /\ (s \o t)[i + Len(s)] = t[i]
    <2>1. i + Len(s) \in 1..(Len(s) + Len(t)) /\ ~(i + Len(s) <= Len(s)) /\ (i + Len(s)) - Len(s) = i
        BY <1>2
    <2> QED
        BY <2>1, <1>1
<1>5. ASSUME NEW i \in 1..Len(s \o t)
      PROVE  \/ i \in 1..Len(s) /\ (s \o t)[i] = s[i]
             \/ i - Len(s) \in 1..Len(t) /\ (s \o t)[i] = t[i - Len(s)]
    BY <1>1, <1>2
<1> QED
    BY <1>1, <1>2, <1>3, <1>4, <1>5

\* Scripts joined are a script.
LEMMA JoinIsScript ==
    ASSUME NEW s, NEW t, IsScript(s), IsScript(t)
    PROVE  IsScript(s \o t)
<1>1. s \in Seq(Ops) /\ t \in Seq(Ops)
    BY DEF IsScript
<1> DEFINE u == s \o t
<1>2. /\ u \in Seq(Ops) /\ Len(s) \in Nat /\ Len(t) \in Nat /\ Len(u) = Len(s) + Len(t)
      /\ \A i \in 1..Len(s) : i \in 1..Len(u) /\ u[i] = s[i]
      /\ \A i \in 1..Len(t) : i + Len(s) \in 1..Len(u) /\ u[i + Len(s)] = t[i]
      /\ \A i \in 1..Len(u) :
            \/ i \in 1..Len(s) /\ u[i] = s[i]
            \/ i - Len(s) \in 1..Len(t) /\ u[i] = t[i - Len(s)]
    BY <1>1, JoinedScripts
<1> HIDE DEF u
<1>3. ASSUME NEW i \in 1..Len(u), u[i].op = "start"
      PROVE  i > 1 /\ u[i - 1] = Op("place", u[i].group)
    <2>1. CASE i \in 1..Len(s) /\ u[i] = s[i]
        <3>1. i > 1 /\ s[i - 1] = Op("place", s[i].group)
            BY <1>3, <2>1 DEF IsScript, PlacedFirst
        <3>2. i - 1 \in 1..Len(s)
            BY <2>1, <3>1
        <3> QED
            BY <1>2, <2>1, <3>1, <3>2
    <2>2. CASE i - Len(s) \in 1..Len(t) /\ u[i] = t[i - Len(s)]
        <3> DEFINE k == i - Len(s)
        <3>1. k \in 1..Len(t) /\ t[k].op = "start"
            BY <1>3, <2>2
        <3> HIDE DEF k
        <3>2. k > 1 /\ t[k - 1] = Op("place", t[k].group)
            BY <3>1 DEF IsScript, PlacedFirst
        <3>3. k - 1 \in 1..Len(t) /\ (k - 1) + Len(s) = i - 1 /\ i > 1
            BY <1>2, <3>1, <3>2 DEF k
        <3>4. u[i - 1] = t[k - 1]
            BY <1>2, <3>3
        <3>5. u[i] = t[k]
            BY <2>2 DEF k
        <3> QED
            BY <3>2, <3>3, <3>4, <3>5
    <2> QED
        BY <1>2, <1>3, <2>1, <2>2
<1>4. ASSUME NEW i \in 1..Len(u), u[i].op = "port"
      PROVE  i < Len(u) /\ u[i + 1] = Op("connect", u[i].group)
    <2>1. CASE i \in 1..Len(s) /\ u[i] = s[i]
        <3>1. i < Len(s) /\ s[i + 1] = Op("connect", s[i].group)
            BY <1>4, <2>1 DEF IsScript
        <3>2. i + 1 \in 1..Len(s)
            BY <1>2, <2>1, <3>1
        <3> QED
            BY <1>2, <2>1, <3>1, <3>2
    <2>2. CASE i - Len(s) \in 1..Len(t) /\ u[i] = t[i - Len(s)]
        <3> DEFINE k == i - Len(s)
        <3>1. k \in 1..Len(t) /\ t[k].op = "port"
            BY <1>4, <2>2
        <3> HIDE DEF k
        <3>2. k < Len(t) /\ t[k + 1] = Op("connect", t[k].group)
            BY <3>1 DEF IsScript
        <3>3. k + 1 \in 1..Len(t) /\ (k + 1) + Len(s) = i + 1 /\ i < Len(u)
            BY <1>2, <3>1, <3>2 DEF k
        <3>4. u[i + 1] = t[k + 1]
            BY <1>2, <3>3
        <3>5. u[i] = t[k]
            BY <2>2 DEF k
        <3> QED
            BY <3>2, <3>3, <3>4, <3>5
    <2> QED
        BY <1>2, <1>4, <2>1, <2>2
<1>5. IsScript(u)
    BY <1>2, <1>3, <1>4 DEF IsScript, PlacedFirst
<1> QED
    BY <1>5 DEF u

\* What yields in the end is orderly.
LEMMA YieldsIsOrderly ==
    ASSUME NEW conf, NEW s \in Seq(Ops), Yields(s)
    PROVE  Orderly(s, conf)
<1> SUFFICES ASSUME NEW i \in 1..Len(s), NEW k \in 1..Len(s),
                    i < k, s[i].op = "start", s[k].op = "start"
             PROVE  \E j \in 1..Len(s) : i < j /\ j < k /\ s[j] = Op("sleep", s[i].group)
    BY DEF Orderly
<1>1. PICK j \in 1..Len(s) : /\ i < j /\ s[j] = Op("sleep", s[i].group)
                             /\ \A m \in 1..Len(s) : i < m /\ m < j => s[m].op # "start"
    BY DEF Yields
<1>2. s[j].op # "start"
    BY <1>1 DEF Op
<1>3. j < k
    BY <1>1, <1>2
<1> QED
    BY <1>1, <1>3

\* Two scripts that yield yield one after the other.
LEMMA JoinYields ==
    ASSUME NEW s \in Seq(Ops), NEW t \in Seq(Ops), Yields(s), Yields(t)
    PROVE  Yields(s \o t)
<1> DEFINE u == s \o t
<1>1. /\ u \in Seq(Ops) /\ Len(s) \in Nat /\ Len(t) \in Nat /\ Len(u) = Len(s) + Len(t)
      /\ \A i \in 1..Len(s) : i \in 1..Len(u) /\ u[i] = s[i]
      /\ \A i \in 1..Len(t) : i + Len(s) \in 1..Len(u) /\ u[i + Len(s)] = t[i]
      /\ \A i \in 1..Len(u) :
            \/ i \in 1..Len(s) /\ u[i] = s[i]
            \/ i - Len(s) \in 1..Len(t) /\ u[i] = t[i - Len(s)]
    BY JoinedScripts
<1> HIDE DEF u
<1>2. ASSUME NEW i \in 1..Len(u), u[i].op = "start"
      PROVE  \E j \in 1..Len(u) :
                /\ i < j /\ u[j] = Op("sleep", u[i].group)
                /\ \A k \in 1..Len(u) : i < k /\ k < j => u[k].op # "start"
    <2>1. CASE i \in 1..Len(s) /\ u[i] = s[i]
        <3>1. PICK j \in 1..Len(s) : /\ i < j /\ s[j] = Op("sleep", s[i].group)
                                     /\ \A m \in 1..Len(s) : i < m /\ m < j => s[m].op # "start"
            BY <1>2, <2>1 DEF Yields
        <3>2. j \in 1..Len(u) /\ u[j] = s[j]
            BY <1>1
        <3>3. ASSUME NEW k \in 1..Len(u), i < k, k < j PROVE u[k].op # "start"
            <4>1. k \in 1..Len(s)
                BY <3>3, <1>1
            <4> QED
                BY <1>1, <3>1, <3>3, <4>1
        <3> QED
            BY <2>1, <3>1, <3>2, <3>3
    <2>2. CASE i - Len(s) \in 1..Len(t) /\ u[i] = t[i - Len(s)]
        <3> DEFINE h == i - Len(s)
        <3>1. h \in 1..Len(t) /\ u[i] = t[h] /\ i = h + Len(s)
            BY <1>1, <2>2
        <3> HIDE DEF h
        <3>2. PICK j \in 1..Len(t) : /\ h < j /\ t[j] = Op("sleep", t[h].group)
                                     /\ \A m \in 1..Len(t) : h < m /\ m < j => t[m].op # "start"
            BY <1>2, <3>1 DEF Yields
        <3>3. j + Len(s) \in 1..Len(u) /\ u[j + Len(s)] = t[j] /\ i < j + Len(s)
            BY <1>1, <3>1, <3>2
        <3>4. ASSUME NEW k \in 1..Len(u), i < k, k < j + Len(s) PROVE u[k].op # "start"
            <4>1. k - Len(s) \in 1..Len(t) /\ h < k - Len(s) /\ k - Len(s) < j
                BY <3>4, <3>1, <1>1
            <4>2. u[k] = t[k - Len(s)]
                <5>1. ~(k \in 1..Len(s))
                    BY <4>1, <1>1
                <5> QED
                    BY <5>1, <1>1
            <4> QED
                BY <3>2, <4>1, <4>2
        <3> QED
            BY <3>1, <3>2, <3>3, <3>4
    <2> QED
        BY <1>1, <1>2, <2>1, <2>2
<1>3. Yields(u)
    BY <1>2 DEF Yields
<1> QED
    BY <1>3 DEF u

\* What yields may precede what is orderly.
LEMMA JoinOrderly ==
    ASSUME NEW conf, NEW s \in Seq(Ops), NEW t \in Seq(Ops), Yields(s), Orderly(t, conf)
    PROVE  Orderly(s \o t, conf)
<1> DEFINE u == s \o t
<1>1. /\ u \in Seq(Ops) /\ Len(s) \in Nat /\ Len(t) \in Nat /\ Len(u) = Len(s) + Len(t)
      /\ \A i \in 1..Len(s) : i \in 1..Len(u) /\ u[i] = s[i]
      /\ \A i \in 1..Len(t) : i + Len(s) \in 1..Len(u) /\ u[i + Len(s)] = t[i]
      /\ \A i \in 1..Len(u) :
            \/ i \in 1..Len(s) /\ u[i] = s[i]
            \/ i - Len(s) \in 1..Len(t) /\ u[i] = t[i - Len(s)]
    BY JoinedScripts
<1> HIDE DEF u
<1>2. ASSUME NEW i \in 1..Len(u), NEW k \in 1..Len(u),
             i < k, u[i].op = "start", u[k].op = "start",
             ClusterOf(conf, u[i].group) = ClusterOf(conf, u[k].group)
      PROVE  \E j \in 1..Len(u) : i < j /\ j < k /\ u[j] = Op("sleep", u[i].group)
    <2>1. CASE i \in 1..Len(s) /\ u[i] = s[i]
        <3>1. PICK j \in 1..Len(s) : /\ i < j /\ s[j] = Op("sleep", s[i].group)
                                     /\ \A m \in 1..Len(s) : i < m /\ m < j => s[m].op # "start"
            BY <1>2, <2>1 DEF Yields
        <3>2. j \in 1..Len(u) /\ u[j] = s[j]
            BY <1>1
        <3>3. j < k
            <4>1. ASSUME ~(j < k) PROVE FALSE
                <5>1. k \in 1..Len(s)
                    BY <4>1, <1>1
                <5>2. u[k] = s[k]
                    BY <5>1, <1>1
                <5>3. k # j
                    BY <1>2, <3>1, <5>2 DEF Op
                <5> QED
                    BY <1>2, <3>1, <4>1, <5>1, <5>2, <5>3
            <4> QED
                BY <4>1
        <3> QED
            BY <2>1, <3>1, <3>2, <3>3
    <2>2. CASE i - Len(s) \in 1..Len(t) /\ u[i] = t[i - Len(s)]
        <3> DEFINE h == i - Len(s)
                   n == k - Len(s)
        <3>1. h \in 1..Len(t) /\ u[i] = t[h] /\ i = h + Len(s)
            BY <1>1, <2>2
        <3>2. n \in 1..Len(t) /\ u[k] = t[n] /\ k = n + Len(s) /\ h < n
            <4>1. ~(k \in 1..Len(s))
                BY <1>1, <1>2, <3>1
            <4> QED
                BY <1>1, <1>2, <4>1
        <3> HIDE DEF h, n
        <3>3. PICK j \in 1..Len(t) : h < j /\ j < n /\ t[j] = Op("sleep", t[h].group)
            BY <1>2, <3>1, <3>2 DEF Orderly
        <3>4. j + Len(s) \in 1..Len(u) /\ u[j + Len(s)] = t[j] /\ i < j + Len(s) /\ j + Len(s) < k
            BY <1>1, <3>1, <3>2, <3>3
        <3> QED
            BY <3>1, <3>3, <3>4
    <2> QED
        BY <1>1, <1>2, <2>1, <2>2
<1>3. Orderly(u, conf)
    BY <1>2 DEF Orderly
<1> QED
    BY <1>3 DEF u

\* What starts nothing may follow what is orderly.
LEMMA JoinWithoutStart ==
    ASSUME NEW conf, NEW s \in Seq(Ops), NEW t \in Seq(Ops), StartsNothing(t)
    PROVE  /\ Orderly(s, conf) => Orderly(s \o t, conf)
           /\ StartsNothing(s) => StartsNothing(s \o t)
<1> DEFINE u == s \o t
<1>1. /\ u \in Seq(Ops) /\ Len(s) \in Nat /\ Len(t) \in Nat /\ Len(u) = Len(s) + Len(t)
      /\ \A i \in 1..Len(s) : i \in 1..Len(u) /\ u[i] = s[i]
      /\ \A i \in 1..Len(u) :
            \/ i \in 1..Len(s) /\ u[i] = s[i]
            \/ i - Len(s) \in 1..Len(t) /\ u[i] = t[i - Len(s)]
    BY JoinedScripts
<1> HIDE DEF u
<1>2. ASSUME NEW i \in 1..Len(u), u[i].op = "start" PROVE i \in 1..Len(s) /\ u[i] = s[i]
    BY <1>1, <1>2 DEF StartsNothing
<1>3. Orderly(s, conf) => Orderly(u, conf)
    <2> SUFFICES ASSUME Orderly(s, conf), NEW i \in 1..Len(u), NEW k \in 1..Len(u),
                        i < k, u[i].op = "start", u[k].op = "start",
                        ClusterOf(conf, u[i].group) = ClusterOf(conf, u[k].group)
                 PROVE  \E j \in 1..Len(u) : i < j /\ j < k /\ u[j] = Op("sleep", u[i].group)
        BY DEF Orderly
    <2>1. i \in 1..Len(s) /\ u[i] = s[i] /\ k \in 1..Len(s) /\ u[k] = s[k]
        BY <1>2
    <2>2. PICK j \in 1..Len(s) : i < j /\ j < k /\ s[j] = Op("sleep", s[i].group)
        BY <2>1 DEF Orderly
    <2> QED
        BY <1>1, <2>1, <2>2
<1>4. StartsNothing(s) => StartsNothing(u)
    BY <1>2 DEF StartsNothing
<1> QED
    BY <1>3, <1>4 DEF u

\* Joining adds no search for a port.
LEMMA JoinWithoutPort ==
    ASSUME NEW s \in Seq(Ops), NEW t \in Seq(Ops), LooksForNoPort(s), LooksForNoPort(t)
    PROVE  LooksForNoPort(s \o t)
<1>1. \A i \in 1..Len(s \o t) :
          \/ i \in 1..Len(s) /\ (s \o t)[i] = s[i]
          \/ i - Len(s) \in 1..Len(t) /\ (s \o t)[i] = t[i - Len(s)]
    BY JoinedScripts
<1> QED
    BY <1>1 DEF LooksForNoPort

\* A script that starts one group.
StartsOne(s, g) ==
    \E i \in 1..Len(s) :
        s[i] = Op("start", g) /\ \A k \in 1..Len(s) : s[k].op = "start" => k = i

Has(s, o) == \E i \in 1..Len(s) : s[i] = o

\* Everything that a script starts is in G.
StartsWithin(s, G) == \A i \in 1..Len(s) : s[i].op = "start" => s[i].group \in G

\* A single start is orderly.
LEMMA StartsOneIsOrderly ==
    ASSUME NEW conf, NEW s \in Seq(Ops), NEW g, StartsOne(s, g)
    PROVE  Orderly(s, conf) /\ Has(s, Op("start", g)) /\ StartsWithin(s, {g})
BY DEF StartsOne, Orderly, Has, StartsWithin, Op

\* What starts nothing yields.
LEMMA NothingYields ==
    ASSUME NEW conf, NEW s \in Seq(Ops), StartsNothing(s)
    PROVE  Yields(s) /\ Orderly(s, conf) /\ StartsWithin(s, {})
BY DEF StartsNothing, Yields, Orderly, StartsWithin

\* A script that starts one group starts one group with more work behind it.
LEMMA JoinStartsOne ==
    ASSUME NEW s \in Seq(Ops), NEW t \in Seq(Ops), NEW g, StartsOne(s, g), StartsNothing(t)
    PROVE  StartsOne(s \o t, g)
<1>1. /\ \A i \in 1..Len(s) : i \in 1..Len(s \o t) /\ (s \o t)[i] = s[i]
      /\ \A i \in 1..Len(s \o t) :
            \/ i \in 1..Len(s) /\ (s \o t)[i] = s[i]
            \/ i - Len(s) \in 1..Len(t) /\ (s \o t)[i] = t[i - Len(s)]
    BY JoinedScripts
<1>2. PICK i \in 1..Len(s) : s[i] = Op("start", g) /\ \A k \in 1..Len(s) : s[k].op = "start" => k = i
    BY DEF StartsOne
<1>3. \A k \in 1..Len(s \o t) : (s \o t)[k].op = "start" => k = i
    BY <1>1, <1>2 DEF StartsNothing
<1> QED
    BY <1>1, <1>2, <1>3 DEF StartsOne

\* Two that are started in clusters of their own.
LEMMA JoinApart ==
    ASSUME NEW conf, NEW s \in Seq(Ops), NEW t \in Seq(Ops), NEW g, NEW h,
           StartsOne(s, g), StartsOne(t, h), ClusterOf(conf, g) # ClusterOf(conf, h)
    PROVE  Orderly(s \o t, conf)
<1> DEFINE u == s \o t
<1>1. \A i \in 1..Len(u) :
          \/ i \in 1..Len(s) /\ u[i] = s[i]
          \/ i - Len(s) \in 1..Len(t) /\ u[i] = t[i - Len(s)]
    BY JoinedScripts
<1> HIDE DEF u
<1>2. PICK m \in 1..Len(s) : s[m] = Op("start", g) /\ \A k \in 1..Len(s) : s[k].op = "start" => k = m
    BY DEF StartsOne
<1>3. PICK n \in 1..Len(t) : t[n] = Op("start", h) /\ \A k \in 1..Len(t) : t[k].op = "start" => k = n
    BY DEF StartsOne
<1>4. Len(s) \in Nat /\ Len(t) \in Nat /\ Op("start", g).group = g /\ Op("start", h).group = h
    BY DEF Op
<1>5. \A i \in 1..Len(u) :
         u[i].op = "start" => (i = m /\ u[i].group = g) \/ (i = n + Len(s) /\ u[i].group = h)
    <2> SUFFICES ASSUME NEW i \in 1..Len(u), u[i].op = "start"
                 PROVE  (i = m /\ u[i].group = g) \/ (i = n + Len(s) /\ u[i].group = h)
        OBVIOUS
    <2>1. CASE i \in 1..Len(s) /\ u[i] = s[i]
        BY <1>2, <1>4, <2>1
    <2>2. CASE i - Len(s) \in 1..Len(t) /\ u[i] = t[i - Len(s)]
        <3>1. i - Len(s) = n
            BY <1>3, <2>2
        <3>2. u[i] = Op("start", h)
            BY <1>3, <2>2, <3>1
        <3> QED
            BY <1>3, <1>4, <3>1, <3>2
    <2> QED
        BY <1>1, <2>1, <2>2
<1>6. Orderly(u, conf)
    BY <1>5 DEF Orderly
<1> QED
    BY <1>6 DEF u

\* What a part does the whole does.
LEMMA JoinHas ==
    ASSUME NEW s \in Seq(Ops), NEW t \in Seq(Ops), NEW o, Has(s, o) \/ Has(t, o)
    PROVE  Has(s \o t, o)
<1>1. /\ \A i \in 1..Len(s) : i \in 1..Len(s \o t) /\ (s \o t)[i] = s[i]
      /\ \A i \in 1..Len(t) : i + Len(s) \in 1..Len(s \o t) /\ (s \o t)[i + Len(s)] = t[i]
    BY JoinedScripts
<1> QED
    BY <1>1 DEF Has

\* A group that is put to sleep after its start yields.
LEMMA SleepYields ==
    ASSUME NEW s \in Seq(Ops), NEW g \in GroupNames \ {"reward"}, StartsOne(s, g)
    PROVE  Yields(s \o <<Op("sleep", g)>>)
<1> DEFINE t == <<Op("sleep", g)>>
           u == s \o t
<1>1. t \in Seq(Ops) /\ Len(t) = 1 /\ t[1] = Op("sleep", g)
    BY DEF Ops, Op
<1>2. StartsNothing(t)
    BY <1>1 DEF StartsNothing, Op
<1> HIDE DEF t
<1>3. /\ u \in Seq(Ops) /\ Len(s) \in Nat /\ Len(u) = Len(s) + Len(t)
      /\ \A i \in 1..Len(s) : i \in 1..Len(u) /\ u[i] = s[i]
      /\ \A i \in 1..Len(t) : i + Len(s) \in 1..Len(u) /\ u[i + Len(s)] = t[i]
      /\ \A i \in 1..Len(u) :
            \/ i \in 1..Len(s) /\ u[i] = s[i]
            \/ i - Len(s) \in 1..Len(t) /\ u[i] = t[i - Len(s)]
    BY <1>1, JoinedScripts
<1> HIDE DEF u
<1>4. PICK m \in 1..Len(s) : s[m] = Op("start", g) /\ \A k \in 1..Len(s) : s[k].op = "start" => k = m
    BY DEF StartsOne
<1>5. ASSUME NEW i \in 1..Len(u), u[i].op = "start"
      PROVE  \E j \in 1..Len(u) :
                /\ i < j /\ u[j] = Op("sleep", u[i].group)
                /\ \A k \in 1..Len(u) : i < k /\ k < j => u[k].op # "start"
    <2>1. i \in 1..Len(s) /\ u[i] = s[i] /\ i = m
        BY <1>2, <1>3, <1>4, <1>5 DEF StartsNothing
    <2>2. 1 + Len(s) \in 1..Len(u) /\ u[1 + Len(s)] = Op("sleep", g) /\ i < 1 + Len(s)
        BY <1>1, <1>3, <2>1
    <2>3. u[i].group = g
        BY <1>4, <2>1 DEF Op
    <2>4. ASSUME NEW k \in 1..Len(u), i < k, k < 1 + Len(s) PROVE u[k].op # "start"
        <3>1. k \in 1..Len(s)
            BY <2>4, <1>3
        <3> QED
            BY <3>1, <2>1, <2>4, <1>3, <1>4
    <2> QED
        BY <2>2, <2>3, <2>4
<1>6. Yields(u)
    BY <1>5 DEF Yields
<1> QED
    BY <1>6 DEF u, t

-----------------------------------------------------------------------------
(* The scripts of the setup functions. *)

\* To do nothing is a script.
LEMMA NoScript ==
    IsScript(<<>>) /\ StartsNothing(<<>>) /\ LooksForNoPort(<<>>)
BY DEF IsScript, StartsNothing, LooksForNoPort, PlacedFirst

\* One call is a script.
LEMMA SingleScript ==
    ASSUME NEW g \in GroupNames \ {"reward"}, NEW op \in {"wait", "sleep", "connect"}
    PROVE  /\ IsScript(<<Op(op, g)>>) /\ StartsNothing(<<Op(op, g)>>)
           /\ LooksForNoPort(<<Op(op, g)>>)
<1> DEFINE s == <<Op(op, g)>>
<1>1. s \in Seq(Ops) /\ Len(s) = 1 /\ s[1] = Op(op, g)
    BY DEF Ops, Op
<1>2. \A i \in 1..Len(s) : s[i].op \notin {"start", "port"}
    BY <1>1 DEF Op
<1> QED
    BY <1>1, <1>2 DEF IsScript, StartsNothing, LooksForNoPort, PlacedFirst

\* A call that depends on the configuration is a script.
LEMMA IfScript ==
    ASSUME NEW g \in GroupNames \ {"reward"}, NEW op \in {"wait", "sleep", "connect"}, NEW c
    PROVE  /\ IsScript(If(c, Op(op, g))) /\ StartsNothing(If(c, Op(op, g)))
           /\ LooksForNoPort(If(c, Op(op, g)))
BY NoScript, SingleScript DEF If

\* Policy.__init__ places a group and starts it.
LEMMA StartScript ==
    ASSUME NEW g \in GroupNames \ {"reward"}
    PROVE  IsScript(StartOps(g)) /\ StartsOne(StartOps(g), g) /\ LooksForNoPort(StartOps(g))
<1> DEFINE s == <<Op("place", g), Op("start", g)>>
<1>1. /\ s \in Seq(Ops) /\ Len(s) = 2
      /\ s[1] = Op("place", g) /\ s[2] = Op("start", g)
    BY DEF Ops, Op
<1> HIDE DEF s
<1>2. \A i \in 1..Len(s) : i \in {1, 2} /\ s[i].op # "port" /\ (s[i].op = "start" => i = 2)
    BY <1>1 DEF Op
<1>3. s[2].group = g
    BY <1>1 DEF Op
<1>4. IsScript(s)
    BY <1>1, <1>2, <1>3 DEF IsScript, PlacedFirst
<1>5. StartsOne(s, g) /\ LooksForNoPort(s)
    BY <1>1, <1>2 DEF StartsOne, LooksForNoPort
<1> QED
    BY <1>4, <1>5 DEF StartOps, s

\* What starts one group, and nothing looks for a port.
Launches(s, g) == IsScript(s) /\ StartsOne(s, g) /\ LooksForNoPort(s)

\* A launch with calls behind it is a launch.
LEMMA JoinLaunches ==
    ASSUME NEW s, NEW t, NEW g, Launches(s, g), IsScript(t), StartsNothing(t), LooksForNoPort(t)
    PROVE  Launches(s \o t, g)
BY JoinIsScript, JoinStartsOne, JoinWithoutPort DEF Launches, IsScript

\* The driver has waited for the engines of a group before it goes on.
Readies(s, g, conf) == conf.gen = "vllm" => Has(s, Op("wait", g))

\* Engines are launched, and awaited.
LEMMA EngineScript ==
    ASSUME NEW conf, NEW g \in EngineNames
    PROVE  Launches(EngineOps(conf, g), g) /\ Readies(EngineOps(conf, g), g, conf)
<1>1. g \in GroupNames \ {"reward"}
    BY DEF GroupNames, EngineNames
<1>2. Launches(StartOps(g), g)
    BY <1>1, StartScript DEF Launches
<1> DEFINE c == conf.gen = "vllm"
           t == If(c, Op("wait", g))
<1> HIDE DEF c
<1>3. IsScript(t) /\ StartsNothing(t) /\ LooksForNoPort(t)
    BY <1>1, IfScript
<1> HIDE DEF t
<1>4. Launches(StartOps(g) \o t, g)
    BY <1>2, <1>3, JoinLaunches
<1>5. c => Has(StartOps(g) \o t, Op("wait", g))
    <2>1. c => Has(t, Op("wait", g))
        BY DEF t, If, Has
    <2>2. StartOps(g) \in Seq(Ops) /\ t \in Seq(Ops)
        BY <1>2, <1>3 DEF Launches, IsScript
    <2> QED
        BY <2>1, <2>2, JoinHas
<1> QED
    BY <1>4, <1>5 DEF EngineOps, Readies, t, c

\* Something that starts and sleeps, and looks for no port.
PutsAside(s) == IsScript(s) /\ Yields(s) /\ LooksForNoPort(s)

\* A launched group that is put to sleep is put aside.
LEMMA LaunchedSleeps ==
    ASSUME NEW s, NEW g \in GroupNames \ {"reward"}, Launches(s, g)
    PROVE  /\ PutsAside(s \o <<Op("sleep", g)>>) /\ StartsOne(s \o <<Op("sleep", g)>>, g)
<1>1. /\ IsScript(<<Op("sleep", g)>>) /\ StartsNothing(<<Op("sleep", g)>>)
      /\ LooksForNoPort(<<Op("sleep", g)>>)
    BY SingleScript
<1>2. Launches(s \o <<Op("sleep", g)>>, g)
    BY <1>1, JoinLaunches
<1>3. Yields(s \o <<Op("sleep", g)>>)
    BY SleepYields DEF Launches, IsScript
<1> QED
    BY <1>2, <1>3 DEF Launches, PutsAside

\* Groups are put aside one after the other.
LEMMA JoinPutsAside ==
    ASSUME NEW s, NEW t, PutsAside(s), PutsAside(t)
    PROVE  PutsAside(s \o t)
BY JoinIsScript, JoinYields, JoinWithoutPort DEF PutsAside, IsScript

\* The rollout engines are put aside when they share their devices.
LEMMA RolloutScript ==
    ASSUME NEW conf
    PROVE  /\ Launches(RolloutOps(conf), "rollout")
           /\ conf.colocated => PutsAside(RolloutOps(conf))
           /\ Readies(RolloutOps(conf), "rollout", conf)
           /\ StartsOne(RolloutOps(conf), "rollout")
<1>1. "rollout" \in EngineNames /\ "rollout" \in GroupNames \ {"reward"}
    BY DEF EngineNames, GroupNames
<1>2. /\ Launches(EngineOps(conf, "rollout"), "rollout")
      /\ Readies(EngineOps(conf, "rollout"), "rollout", conf)
    BY <1>1, EngineScript
<1> DEFINE s == EngineOps(conf, "rollout")
           c == conf.colocated
<1> HIDE DEF s, c
<1>3. Launches(s, "rollout") /\ Readies(s, "rollout", conf)
    BY <1>2 DEF s
<1>4. Launches(s \o If(c, Op("sleep", "rollout")), "rollout")
    <2> DEFINE t == If(c, Op("sleep", "rollout"))
    <2>1. IsScript(t) /\ StartsNothing(t) /\ LooksForNoPort(t)
        BY <1>1, IfScript
    <2> HIDE DEF t
    <2>2. Launches(s \o t, "rollout")
        BY <1>3, <2>1, JoinLaunches
    <2> QED
        BY <2>2 DEF t
<1>6. Readies(s \o If(c, Op("sleep", "rollout")), "rollout", conf)
    <2>1. s \in Seq(Ops) /\ If(c, Op("sleep", "rollout")) \in Seq(Ops)
        BY <1>1, <1>3, IfScript DEF Launches, IsScript
    <2> QED
        BY <2>1, <1>3, JoinHas DEF Readies
<1>5. c => PutsAside(s \o If(c, Op("sleep", "rollout")))
    <2>1. PutsAside(s \o <<Op("sleep", "rollout")>>)
        BY <1>1, <1>3, LaunchedSleeps
    <2> QED
        BY <2>1 DEF If
<1> QED
    BY <1>4, <1>5, <1>6 DEF RolloutOps, Launches, s, c

\* A group of validation engines is put aside when it shares its devices.
LEMMA ValGroupScript ==
    ASSUME NEW conf, NEW g \in {"val 1", "val 2"}
    PROVE  /\ PutsAside(ValGroupOps(conf, g))
           /\ g \in ValGroups(conf) => Readies(ValGroupOps(conf, g), g, conf)
<1>1. g \in EngineNames /\ g \in GroupNames \ {"reward"}
    BY DEF EngineNames, GroupNames
<1>2. CASE g \in ValGroups(conf)
    <2>1. Launches(EngineOps(conf, g), g)
        BY <1>1, EngineScript
    <2>2. /\ PutsAside(EngineOps(conf, g) \o <<Op("sleep", g)>>)
          /\ StartsOne(EngineOps(conf, g) \o <<Op("sleep", g)>>, g)
        BY <1>1, <2>1, LaunchedSleeps
    <2>3. Readies(EngineOps(conf, g) \o <<Op("sleep", g)>>, g, conf)
        <3>1. IsScript(EngineOps(conf, g)) /\ Readies(EngineOps(conf, g), g, conf)
            BY <1>1, EngineScript DEF Launches
        <3>2. EngineOps(conf, g) \in Seq(Ops) /\ <<Op("sleep", g)>> \in Seq(Ops)
            BY <1>1, <3>1, SingleScript DEF IsScript
        <3> QED
            BY <3>1, <3>2, JoinHas DEF Readies
    <2> QED
        BY <1>2, <2>2, <2>3 DEF ValGroupOps
<1>3. CASE g \notin ValGroups(conf)
    <2>1. PutsAside(<<>>)
        <3>1. IsScript(<<>>) /\ StartsNothing(<<>>) /\ LooksForNoPort(<<>>) /\ <<>> \in Seq(Ops)
            BY NoScript DEF IsScript
        <3>2. Yields(<<>>)
            BY <3>1, NothingYields
        <3> QED
            BY <3>1, <3>2 DEF PutsAside
    <2> QED
        BY <1>3, <2>1 DEF ValGroupOps
<1> QED
    BY <1>2, <1>3

\* So are all groups of validation engines.
LEMMA ValidationScript ==
    ASSUME NEW conf
    PROVE  /\ PutsAside(ValidationOps(conf))
           /\ \A g \in ValGroups(conf) : Readies(ValidationOps(conf), g, conf)
<1> DEFINE s == ValGroupOps(conf, "val 1")
           t == ValGroupOps(conf, "val 2")
<1>1. /\ PutsAside(s) /\ ("val 1" \in ValGroups(conf) => Readies(s, "val 1", conf))
      /\ PutsAside(t) /\ ("val 2" \in ValGroups(conf) => Readies(t, "val 2", conf))
    BY ValGroupScript
<1>2. ValGroups(conf) \subseteq {"val 1", "val 2"}
    BY DEF ValGroups
<1> HIDE DEF s, t
<1>3. PutsAside(s \o t)
    BY <1>1, JoinPutsAside
<1>4. s \in Seq(Ops) /\ t \in Seq(Ops)
    BY <1>1 DEF PutsAside, IsScript
<1>5. ("val 1" \in ValGroups(conf) => Readies(s \o t, "val 1", conf))
      /\ ("val 2" \in ValGroups(conf) => Readies(s \o t, "val 2", conf))
    BY <1>1, <1>4, JoinHas DEF Readies
<1> QED
    BY <1>2, <1>3, <1>5 DEF ValidationOps, s, t

\* The teacher of a distillation is put aside.
LEMMA TeacherScript == PutsAside(TeacherOps)
<1>1. "teacher" \in GroupNames \ {"reward"}
    BY DEF GroupNames
<1>2. Launches(StartOps("teacher"), "teacher")
    BY <1>1, StartScript DEF Launches
<1> QED
    BY <1>1, <1>2, LaunchedSleeps DEF TeacherOps

\* A script that only connects engine groups to the policy.
OnlyConnects(s, conf) ==
    /\ IsScript(s) /\ StartsNothing(s)
    /\ \A i \in 1..Len(s) :
          s[i].op = "port" => ~conf.colocated /\ s[i].group \in Refitted(conf)

\* Collectives are formed one after the other.
LEMMA JoinOnlyConnects ==
    ASSUME NEW conf, NEW s, NEW t, OnlyConnects(s, conf), OnlyConnects(t, conf)
    PROVE  OnlyConnects(s \o t, conf)
<1>0. IsScript(s) /\ IsScript(t) /\ StartsNothing(s) /\ StartsNothing(t)
    BY DEF OnlyConnects
<1>1. IsScript(s \o t) /\ s \in Seq(Ops) /\ t \in Seq(Ops)
    <2>1. IsScript(s \o t)
        BY <1>0, JoinIsScript
    <2> QED
        BY <1>0, <2>1 DEF IsScript
<1>2. StartsNothing(s \o t)
    BY <1>0, <1>1, JoinWithoutStart
<1>3. \A i \in 1..Len(s \o t) :
         \/ i \in 1..Len(s) /\ (s \o t)[i] = s[i]
         \/ i - Len(s) \in 1..Len(t) /\ (s \o t)[i] = t[i - Len(s)]
    BY <1>1, JoinedScripts
<1> QED
    BY <1>1, <1>2, <1>3 DEF OnlyConnects

\* What starts nothing and looks for no port only connects.
LEMMA QuietConnects ==
    ASSUME NEW conf, NEW s, IsScript(s), StartsNothing(s), LooksForNoPort(s)
    PROVE  OnlyConnects(s, conf)
BY DEF OnlyConnects, LooksForNoPort

\* The collective of one group of engines is formed after its port was found.
LEMMA ConnectGroupScript ==
    ASSUME NEW conf, NEW g \in EngineNames
    PROVE  /\ OnlyConnects(ConnectGroup(conf, g), conf)
           /\ conf.colocated => LooksForNoPort(ConnectGroup(conf, g))
<1>1. CASE conf.colocated \/ g \notin Refitted(conf)
    BY <1>1, NoScript, QuietConnects DEF ConnectGroup
<1>2. CASE ~(conf.colocated \/ g \notin Refitted(conf))
    <2> DEFINE s == <<Op("port", g), Op("connect", g)>>
    <2>1. /\ s \in Seq(Ops) /\ Len(s) = 2
          /\ s[1] = Op("port", g) /\ s[2] = Op("connect", g)
        <3>1. g \in GroupNames \ {"reward"}
            BY DEF EngineNames, GroupNames
        <3>2. Op("port", g) \in Ops /\ Op("connect", g) \in Ops
            BY <3>1 DEF Ops, Op
        <3> QED
            BY <3>2
    <2> HIDE DEF s
    <2>2. \A i \in 1..Len(s) : i \in {1, 2} /\ s[i].op # "start" /\ s[i].group = g
                              /\ (s[i].op = "port" => i = 1)
        BY <2>1 DEF Op
    <2>3. IsScript(s) /\ StartsNothing(s)
        BY <2>1, <2>2 DEF IsScript, PlacedFirst, StartsNothing
    <2>4. OnlyConnects(s, conf)
        BY <1>2, <2>2, <2>3 DEF OnlyConnects
    <2> QED
        BY <1>2, <2>4 DEF ConnectGroup, s
<1> QED
    BY <1>1, <1>2

\* The collectives of all groups are formed one after the other.
LEMMA ConnectScript ==
    ASSUME NEW conf
    PROVE  /\ OnlyConnects(ConnectOps(conf), conf)
           /\ conf.colocated => LooksForNoPort(ConnectOps(conf))
<1> DEFINE s == ConnectGroup(conf, "rollout")
           t == ConnectGroup(conf, "val 1")
           u == ConnectGroup(conf, "val 2")
<1>1. /\ OnlyConnects(s, conf) /\ OnlyConnects(t, conf) /\ OnlyConnects(u, conf)
      /\ conf.colocated => LooksForNoPort(s) /\ LooksForNoPort(t) /\ LooksForNoPort(u)
    BY ConnectGroupScript DEF EngineNames
<1> HIDE DEF s, t, u
<1>2. OnlyConnects(s \o t, conf)
    BY <1>1, JoinOnlyConnects
<1>3. OnlyConnects((s \o t) \o u, conf)
    BY <1>1, <1>2, JoinOnlyConnects
<1>4. s \in Seq(Ops) /\ t \in Seq(Ops) /\ u \in Seq(Ops) /\ s \o t \in Seq(Ops)
    BY <1>1, <1>2 DEF OnlyConnects, IsScript
<1>5. conf.colocated => LooksForNoPort(s \o t)
    BY <1>1, <1>4, JoinWithoutPort
<1>6. conf.colocated => LooksForNoPort((s \o t) \o u)
    BY <1>1, <1>4, <1>5, JoinWithoutPort
<1> QED
    BY <1>3, <1>6 DEF ConnectOps, s, t, u

PhaseThreads == {"main", "policy"}

\* What has been done when the first port is looked for.
Needed(conf) == {Op("start", "policy")} \union {Op("wait", g) : g \in Refitted(conf)}

\* The phases of a program: nothing is started beside something of its cluster that is
\* awake, and ports are looked for when all that they are to connect has been started.
SafePhases(P, conf) ==
    /\ Len(P) \in Nat
    /\ \A p \in 1..Len(P) : \A t \in PhaseThreads : IsScript(P[p][t]) /\ Orderly(P[p][t], conf)
    /\ \A p, q \in 1..Len(P) : q < p =>
          \A t, u \in PhaseThreads : StartsNothing(P[p][t]) \/ Yields(P[q][u])
    /\ \A p \in 1..Len(P) :
          \/ P[p]["policy"] = <<>>
          \/ /\ p > 1
             /\ \E g, h \in GroupNames :
                   /\ StartsWithin(P[p]["main"], {g}) /\ StartsWithin(P[p]["policy"], {h})
                   /\ ClusterOf(conf, g) # ClusterOf(conf, h)
    /\ \A p \in 1..Len(P) : LooksForNoPort(P[p]["policy"])
    /\ \A p \in 1..Len(P) :
          \/ LooksForNoPort(P[p]["main"])
          \/ /\ p = Len(P) /\ OnlyConnects(P[p]["main"], conf)
             /\ (~Refused(conf) /\ conf.gen = "vllm") =>
                   \A o \in Needed(conf) :
                      \E q \in 1..Len(P), t \in PhaseThreads : q < p /\ Has(P[q][t], o)

\* A phase of the main thread alone.
LEMMA MainPhase ==
    ASSUME NEW conf, NEW s, IsScript(s), Orderly(s, conf)
    PROVE  /\ \A t \in PhaseThreads : IsScript(InMain(s)[t]) /\ Orderly(InMain(s)[t], conf)
           /\ InMain(s)["main"] = s /\ InMain(s)["policy"] = <<>>
           /\ LooksForNoPort(InMain(s)["policy"])
           /\ Yields(s) => \A t \in PhaseThreads : Yields(InMain(s)[t])
           /\ StartsNothing(s) => \A t \in PhaseThreads : StartsNothing(InMain(s)[t])
<1>1. InMain(s)["main"] = s /\ InMain(s)["policy"] = <<>>
    BY DEF InMain
<1>2. IsScript(<<>>) /\ StartsNothing(<<>>) /\ LooksForNoPort(<<>>) /\ <<>> \in Seq(Ops)
    BY NoScript DEF IsScript
<1>3. Yields(<<>>) /\ Orderly(<<>>, conf)
    BY <1>2, NothingYields
<1> QED
    BY <1>1, <1>2, <1>3 DEF PhaseThreads

\* Programs of one phase, and of two of which the second only connects.
LEMMA OnePhase ==
    ASSUME NEW conf, NEW s, IsScript(s), Orderly(s, conf), LooksForNoPort(s)
    PROVE  SafePhases(<<InMain(s)>>, conf)
<1> DEFINE P == <<InMain(s)>>
<1>1. Len(P) = 1 /\ P[1] = InMain(s)
    OBVIOUS
<1> HIDE DEF P
<1>2. \A p \in 1..Len(P) : p = 1
    BY <1>1
<1>3. SafePhases(P, conf)
    BY <1>1, <1>2, MainPhase DEF SafePhases
<1> QED
    BY <1>3 DEF P

\* A program of two phases: everything is started in the first, connected in the second.
LEMMA TwoPhases ==
    ASSUME NEW conf, NEW s, NEW c,
           IsScript(s), Orderly(s, conf), LooksForNoPort(s), OnlyConnects(c, conf),
           \/ LooksForNoPort(c)
           \/ (~Refused(conf) /\ conf.gen = "vllm") => \A o \in Needed(conf) : Has(s, o)
    PROVE  SafePhases(<<InMain(s), InMain(c)>>, conf)
<1> DEFINE P == <<InMain(s), InMain(c)>>
<1>1. Len(P) = 2 /\ P[1] = InMain(s) /\ P[2] = InMain(c)
    OBVIOUS
<1> HIDE DEF P
<1>2. \A p \in 1..Len(P) : p \in {1, 2}
    BY <1>1
<1>4. IsScript(c) /\ StartsNothing(c) /\ Orderly(c, conf)
    BY NothingYields DEF OnlyConnects, IsScript
<1>5. /\ \A t \in PhaseThreads : IsScript(P[1][t]) /\ Orderly(P[1][t], conf)
      /\ P[1]["main"] = s /\ P[1]["policy"] = <<>> /\ LooksForNoPort(P[1]["policy"])
    BY <1>1, MainPhase
<1>6. /\ \A t \in PhaseThreads : IsScript(P[2][t]) /\ Orderly(P[2][t], conf) /\ StartsNothing(P[2][t])
      /\ P[2]["main"] = c /\ P[2]["policy"] = <<>> /\ LooksForNoPort(P[2]["policy"])
    BY <1>1, <1>4, MainPhase
<1>7. /\ Len(P) \in Nat
      /\ \A p \in 1..Len(P) : \A t \in PhaseThreads : IsScript(P[p][t]) /\ Orderly(P[p][t], conf)
    BY <1>1, <1>2, <1>5, <1>6
<1>8. \A p, q \in 1..Len(P) : q < p =>
         \A t, u \in PhaseThreads : StartsNothing(P[p][t]) \/ Yields(P[q][u])
    BY <1>1, <1>2, <1>6
<1>9. \A p \in 1..Len(P) : P[p]["policy"] = <<>> /\ LooksForNoPort(P[p]["policy"])
    BY <1>2, <1>5, <1>6
<1>10. \A p \in 1..Len(P) :
          \/ LooksForNoPort(P[p]["main"])
          \/ /\ p = Len(P) /\ OnlyConnects(P[p]["main"], conf)
             /\ (~Refused(conf) /\ conf.gen = "vllm") =>
                  \A o \in Needed(conf) :
                      \E q \in 1..Len(P), t \in PhaseThreads : q < p /\ Has(P[q][t], o)
    <2>1. LooksForNoPort(P[1]["main"])
        BY <1>5
    <2>2. ASSUME ~LooksForNoPort(P[2]["main"]), ~Refused(conf), conf.gen = "vllm",
                 NEW o \in Needed(conf)
          PROVE  \E q \in 1..Len(P), t \in PhaseThreads : q < 2 /\ Has(P[q][t], o)
        <3>1. Has(s, o)
            BY <2>2, <1>6
        <3>2. 1 \in 1..Len(P) /\ 1 < 2 /\ "main" \in PhaseThreads /\ Has(P[1]["main"], o)
            BY <1>1, <1>5, <3>1 DEF PhaseThreads
        <3> QED
            BY <3>2
    <2> QED
        BY <1>1, <1>2, <1>6, <2>1, <2>2
<1>11. SafePhases(P, conf)
    BY <1>7, <1>8, <1>9, <1>10 DEF SafePhases
<1> QED
    BY <1>11 DEF P

\* The policy is launched.
LEMMA PolicyScript ==
    /\ Launches(StartOps("policy"), "policy")
    /\ StartsOne(StartOps("policy"), "policy")
    /\ IsScript(<<Op("wait", "policy")>>) /\ StartsNothing(<<Op("wait", "policy")>>)
    /\ LooksForNoPort(<<Op("wait", "policy")>>)
<1>1. "policy" \in GroupNames \ {"reward"}
    BY DEF GroupNames
<1> QED
    BY <1>1, StartScript, SingleScript DEF Launches

\* The end of grpo.setup.
LEMMA EndingScript ==
    ASSUME NEW conf
    PROVE  OnlyConnects((<<Op("wait", "policy")>> \o ConnectOps(conf)) \o <<Op("wait", "policy")>>, conf)
<1> DEFINE w == <<Op("wait", "policy")>>
           c == ConnectOps(conf)
<1>1. OnlyConnects(w, conf)
    BY PolicyScript, QuietConnects
<1>2. OnlyConnects(c, conf)
    BY ConnectScript
<1> HIDE DEF w, c
<1>3. OnlyConnects(w \o c, conf)
    BY <1>1, <1>2, JoinOnlyConnects
<1>4. OnlyConnects((w \o c) \o w, conf)
    BY <1>1, <1>3, JoinOnlyConnects
<1> QED
    BY <1>4 DEF w, c

\* The start of grpo is safe.
LEMMA GrpoIsSafe ==
    ASSUME NEW conf
    PROVE  SafePhases(GrpoPhases(conf), conf)
<1> DEFINE ending == (<<Op("wait", "policy")>> \o ConnectOps(conf)) \o <<Op("wait", "policy")>>
           start == StartOps("policy")
           valid == ValidationOps(conf)
           engines == RolloutOps(conf)
           both == engines \o start
           middle == IF conf.colocated THEN InMain(both) ELSE [main |-> engines, policy |-> start]
           P == <<InMain(valid), middle, InMain(ending)>>
<1>1. OnlyConnects(ending, conf) /\ IsScript(ending) /\ StartsNothing(ending)
    BY EndingScript DEF OnlyConnects
<1>2. Launches(start, "policy") /\ StartsOne(start, "policy") /\ IsScript(start)
    BY PolicyScript DEF Launches
<1>3. GrpoPhases(conf) = IF conf.gen = "megatron" THEN <<InMain(start), InMain(ending)>> ELSE P
    BY DEF GrpoPhases
<1>4. PutsAside(valid) /\ \A g \in ValGroups(conf) : Readies(valid, g, conf)
    BY ValidationScript
<1>5. /\ Launches(engines, "rollout") /\ Readies(engines, "rollout", conf) /\ IsScript(engines)
      /\ StartsOne(engines, "rollout") /\ (conf.colocated => PutsAside(engines))
    BY RolloutScript DEF Launches
<1>6. ending \in Seq(Ops) /\ start \in Seq(Ops) /\ valid \in Seq(Ops) /\ engines \in Seq(Ops)
    BY <1>1, <1>2, <1>4, <1>5 DEF PutsAside, IsScript
<1> HIDE DEF ending, start, valid, engines
<1>7. CASE conf.gen = "megatron"
    <2>1. Orderly(start, conf) /\ LooksForNoPort(start)
        BY <1>2, <1>6, StartsOneIsOrderly DEF Launches
    <2>2. SafePhases(<<InMain(start), InMain(ending)>>, conf)
        <3>1. (~Refused(conf) /\ conf.gen = "vllm") => \A o \in Needed(conf) : Has(start, o)
            BY <1>7
        <3> QED
            BY <1>1, <1>2, <2>1, <3>1, TwoPhases
    <2> QED
        BY <1>3, <1>7, <2>2
<1>8. CASE conf.gen # "megatron"
    <2>1. Len(P) = 3 /\ P[1] = InMain(valid) /\ P[2] = middle /\ P[3] = InMain(ending)
        OBVIOUS
    <2> HIDE DEF P
    <2>2. \A p \in 1..Len(P) : p \in {1, 2, 3}
        BY <2>1
    <2>3. /\ \A t \in PhaseThreads : IsScript(P[1][t]) /\ Orderly(P[1][t], conf) /\ Yields(P[1][t])
          /\ P[1]["main"] = valid /\ P[1]["policy"] = <<>>
          /\ LooksForNoPort(P[1]["policy"]) /\ LooksForNoPort(P[1]["main"])
        BY <1>4, <1>6, <2>1, MainPhase, YieldsIsOrderly DEF PutsAside
    <2>4. /\ \A t \in PhaseThreads : IsScript(P[3][t]) /\ Orderly(P[3][t], conf) /\ StartsNothing(P[3][t])
          /\ P[3]["main"] = ending /\ P[3]["policy"] = <<>> /\ LooksForNoPort(P[3]["policy"])
        BY <1>1, <1>6, <2>1, MainPhase, NothingYields
    <2>5. /\ \A t \in PhaseThreads : IsScript(P[2][t]) /\ Orderly(P[2][t], conf)
          /\ LooksForNoPort(P[2]["policy"]) /\ LooksForNoPort(P[2]["main"])
          /\ \/ P[2]["policy"] = <<>>
             \/ \E g, h \in GroupNames :
                   /\ StartsWithin(P[2]["main"], {g}) /\ StartsWithin(P[2]["policy"], {h})
                   /\ ClusterOf(conf, g) # ClusterOf(conf, h)
          /\ \E t \in PhaseThreads : Has(P[2][t], Op("start", "policy"))
          /\ \E t \in PhaseThreads : Readies(P[2][t], "rollout", conf)
        <3>0. /\ Has(start, Op("start", "policy")) /\ Orderly(start, conf) /\ StartsWithin(start, {"policy"})
              /\ Orderly(engines, conf) /\ StartsWithin(engines, {"rollout"})
              /\ LooksForNoPort(start) /\ LooksForNoPort(engines)
            BY <1>2, <1>5, <1>6, StartsOneIsOrderly DEF Launches
        <3>1. CASE conf.colocated
            <4>1. P[2] = InMain(both)
                BY <2>1, <3>1
            <4>2. Orderly(both, conf)
                <5>1. Yields(engines)
                    BY <1>5, <3>1 DEF PutsAside
                <5> QED
                    BY <5>1, <1>6, <3>0, JoinOrderly
            <4>3. IsScript(both) /\ LooksForNoPort(both)
                BY <1>2, <1>5, <1>6, <3>0, JoinIsScript, JoinWithoutPort
            <4>4. Has(both, Op("start", "policy")) /\ Readies(both, "rollout", conf)
                BY <1>5, <1>6, <3>0, JoinHas DEF Readies
            <4> HIDE DEF both
            <4>5. /\ \A t \in PhaseThreads : IsScript(P[2][t]) /\ Orderly(P[2][t], conf)
                  /\ P[2]["main"] = both /\ P[2]["policy"] = <<>> /\ LooksForNoPort(P[2]["policy"])
                BY <4>1, <4>2, <4>3, MainPhase
            <4> QED
                BY <4>3, <4>4, <4>5 DEF PhaseThreads
        <3>2. CASE ~conf.colocated
            <4>1. P[2]["main"] = engines /\ P[2]["policy"] = start
                BY <2>1, <3>2
            <4>2. /\ ClusterOf(conf, "rollout") # ClusterOf(conf, "policy")
                  /\ "rollout" \in GroupNames /\ "policy" \in GroupNames
                BY <3>2 DEF ClusterOf, EngineNames, GroupNames
            <4>3. /\ \A t \in PhaseThreads : IsScript(P[2][t]) /\ Orderly(P[2][t], conf)
                  /\ LooksForNoPort(P[2]["policy"]) /\ LooksForNoPort(P[2]["main"])
                BY <4>1, <1>2, <1>5, <3>0 DEF PhaseThreads
            <4>4. \E g, h \in GroupNames :
                      /\ StartsWithin(P[2]["main"], {g}) /\ StartsWithin(P[2]["policy"], {h})
                      /\ ClusterOf(conf, g) # ClusterOf(conf, h)
                BY <4>1, <4>2, <3>0
            <4> QED
                BY <4>1, <4>3, <4>4, <1>5, <3>0 DEF PhaseThreads
        <3> QED
            BY <3>1, <3>2
    <2>6. /\ Len(P) \in Nat
          /\ \A p \in 1..Len(P) : \A t \in PhaseThreads : IsScript(P[p][t]) /\ Orderly(P[p][t], conf)
          /\ \A p \in 1..Len(P) : LooksForNoPort(P[p]["policy"])
        BY <2>1, <2>2, <2>3, <2>4, <2>5
    <2>7. \A p, q \in 1..Len(P) : q < p =>
             \A t, u \in PhaseThreads : StartsNothing(P[p][t]) \/ Yields(P[q][u])
        BY <2>1, <2>2, <2>3, <2>4
    <2>8. \A p \in 1..Len(P) :
              \/ P[p]["policy"] = <<>>
              \/ /\ p > 1
                 /\ \E g, h \in GroupNames :
                       /\ StartsWithin(P[p]["main"], {g}) /\ StartsWithin(P[p]["policy"], {h})
                       /\ ClusterOf(conf, g) # ClusterOf(conf, h)
        <3> SUFFICES ASSUME NEW p \in 1..Len(P), P[p]["policy"] # <<>>
                     PROVE  /\ p > 1
                            /\ \E g, h \in GroupNames :
                                  /\ StartsWithin(P[p]["main"], {g})
                                  /\ StartsWithin(P[p]["policy"], {h})
                                  /\ ClusterOf(conf, g) # ClusterOf(conf, h)
            OBVIOUS
        <3>1. p = 2
            BY <2>2, <2>3, <2>4
        <3>2. p > 1
            BY <3>1
        <3> QED
            BY <2>5, <3>1, <3>2
    <2>9. \A p \in 1..Len(P) :
              \/ LooksForNoPort(P[p]["main"])
              \/ /\ p = Len(P) /\ OnlyConnects(P[p]["main"], conf)
                 /\ (~Refused(conf) /\ conf.gen = "vllm") =>
                      \A o \in Needed(conf) :
                         \E q \in 1..Len(P), t \in PhaseThreads : q < p /\ Has(P[q][t], o)
        <3>1. ASSUME conf.gen = "vllm", NEW o \in Needed(conf)
              PROVE  \E q \in 1..Len(P), t \in PhaseThreads : q < 3 /\ Has(P[q][t], o)
            <4>1. \A q \in {1, 2} : q \in 1..Len(P) /\ q < 3
                BY <2>1
            <4>2. \/ o = Op("start", "policy") \/ o = Op("wait", "rollout")
                  \/ \E g \in ValGroups(conf) : o = Op("wait", g)
                BY <3>1 DEF Needed, Refitted
            <4>3. CASE o = Op("start", "policy") \/ o = Op("wait", "rollout")
                BY <2>5, <3>1, <4>1, <4>3 DEF Readies
            <4>4. CASE \E g \in ValGroups(conf) : o = Op("wait", g)
                <5>1. Has(P[1]["main"], o) /\ "main" \in PhaseThreads
                    BY <1>4, <2>3, <3>1, <4>4 DEF Readies, PhaseThreads
                <5> QED
                    BY <4>1, <5>1
            <4> QED
                BY <4>2, <4>3, <4>4
        <3> QED
            BY <1>1, <2>1, <2>2, <2>3, <2>4, <2>5, <3>1
    <2>10. SafePhases(P, conf)
        BY <2>6, <2>7, <2>8, <2>9 DEF SafePhases
    <2> QED
        BY <1>3, <1>8, <2>10
<1> QED
    BY <1>7, <1>8

\* The start of a distillation is safe.
LEMMA DistillationIsSafe ==
    ASSUME NEW conf, ValGroups(conf) = {}
    PROVE  SafePhases(DistillationPhases(conf), conf)
<1> DEFINE start == StartOps("policy")
           wait == <<Op("wait", "policy")>>
           teacher == TeacherOps
           engines == RolloutOps(conf)
           student == IF conf.gen = "megatron" THEN start ELSE (engines \o start) \o wait
           c == ConnectOps(conf)
<1>1. /\ IsScript(start) /\ StartsOne(start, "policy") /\ LooksForNoPort(start)
      /\ IsScript(wait) /\ StartsNothing(wait) /\ LooksForNoPort(wait)
    BY PolicyScript DEF Launches
<1>2. PutsAside(teacher)
    BY TeacherScript
<1>3. /\ IsScript(engines) /\ LooksForNoPort(engines) /\ Readies(engines, "rollout", conf)
      /\ StartsOne(engines, "rollout") /\ (conf.colocated => PutsAside(engines))
    BY RolloutScript DEF Launches
<1>4. OnlyConnects(c, conf)
    BY ConnectScript
<1>5. DistillationPhases(conf) = <<InMain(teacher \o student), InMain(c)>>
    BY DEF DistillationPhases
<1>6. /\ start \in Seq(Ops) /\ wait \in Seq(Ops) /\ teacher \in Seq(Ops) /\ engines \in Seq(Ops)
    BY <1>1, <1>2, <1>3 DEF PutsAside, IsScript
<1> HIDE DEF start, wait, teacher, engines, c
<1>7. engines \o start \in Seq(Ops) /\ IsScript(engines \o start) /\ LooksForNoPort(engines \o start)
    <2>1. IsScript(engines \o start)
        BY <1>1, <1>3, JoinIsScript
    <2>2. LooksForNoPort(engines \o start)
        BY <1>1, <1>3, <1>6, JoinWithoutPort
    <2> QED
        BY <2>1, <2>2 DEF IsScript
<1>8. Orderly(start, conf) /\ Orderly(engines, conf) /\ Has(start, Op("start", "policy"))
    BY <1>1, <1>3, <1>6, StartsOneIsOrderly
<1>9. Orderly(engines \o start, conf)
    <2>1. CASE conf.colocated
        <3>1. Yields(engines)
            BY <1>3, <2>1 DEF PutsAside
        <3> QED
            BY <3>1, <1>6, <1>8, JoinOrderly
    <2>2. CASE ~conf.colocated
        <3>1. ClusterOf(conf, "rollout") # ClusterOf(conf, "policy")
            BY <2>2 DEF ClusterOf, EngineNames
        <3> QED
            BY <3>1, <1>1, <1>3, <1>6, JoinApart
    <2> QED
        BY <2>1, <2>2
<1>10. IsScript(student) /\ LooksForNoPort(student) /\ Orderly(student, conf) /\ student \in Seq(Ops)
    <2>1. IsScript((engines \o start) \o wait)
        BY <1>1, <1>7, JoinIsScript
    <2>2. LooksForNoPort((engines \o start) \o wait)
        BY <1>1, <1>6, <1>7, JoinWithoutPort
    <2>3. Orderly((engines \o start) \o wait, conf)
        BY <1>1, <1>6, <1>7, <1>9, JoinWithoutStart
    <2> QED
        BY <1>1, <1>8, <2>1, <2>2, <2>3 DEF IsScript
<1>11. conf.gen = "vllm" => Has(student, Op("start", "policy")) /\ Has(student, Op("wait", "rollout"))
    <2> SUFFICES ASSUME conf.gen = "vllm"
                 PROVE  Has(student, Op("start", "policy")) /\ Has(student, Op("wait", "rollout"))
        OBVIOUS
    <2>1. Has(engines \o start, Op("start", "policy")) /\ Has(engines \o start, Op("wait", "rollout"))
        <3>1. Has(engines, Op("wait", "rollout"))
            BY <1>3 DEF Readies
        <3> QED
            BY <3>1, <1>6, <1>8, JoinHas
    <2>2. Has((engines \o start) \o wait, Op("start", "policy"))
          /\ Has((engines \o start) \o wait, Op("wait", "rollout"))
        BY <2>1, <1>6, <1>7, JoinHas
    <2> QED
        BY <2>2
<1> HIDE DEF student
<1>12. /\ IsScript(teacher \o student) /\ LooksForNoPort(teacher \o student)
       /\ Orderly(teacher \o student, conf)
    BY <1>2, <1>6, <1>10, JoinIsScript, JoinWithoutPort, JoinOrderly DEF PutsAside
<1>13. (~Refused(conf) /\ conf.gen = "vllm") => \A o \in Needed(conf) : Has(teacher \o student, o)
    <2> SUFFICES ASSUME conf.gen = "vllm", NEW o \in Needed(conf)
                 PROVE  Has(teacher \o student, o)
        OBVIOUS
    <2>1. o = Op("start", "policy") \/ o = Op("wait", "rollout")
        BY DEF Needed, Refitted
    <2>2. Has(student, o)
        BY <1>11, <2>1
    <2> QED
        BY <2>2, <1>6, <1>10, JoinHas
<1>14. SafePhases(<<InMain(teacher \o student), InMain(c)>>, conf)
    BY <1>4, <1>12, <1>13, TwoPhases
<1> QED
    BY <1>5, <1>14

\* The start of every program is safe.
LEMMA ProgramIsSafe ==
    ASSUME NEW conf, IsMix(conf)
    PROVE  SafePhases(Phases(conf), conf)
<1>1. CASE conf.program = "grpo"
    BY <1>1, GrpoIsSafe DEF Phases
<1>2. CASE conf.program = "distillation"
    <2>1. ValGroups(conf) = {}
        <3>4. conf.vals \in 0..2 /\ (conf.vals > 0 => conf.program = "grpo")
            BY DEF IsMix
        <3>1. conf.vals \in Nat /\ ~(conf.vals > 0)
            BY <1>2, <3>4
        <3>2. ~(conf.vals >= 1) /\ ~(conf.vals >= 2)
            BY <3>1
        <3>3. ASSUME NEW g \in ValGroups(conf) PROVE FALSE
            <4>1. CASE g = "val 1"
                BY <3>2, <3>3, <4>1 DEF ValGroups
            <4>2. CASE g # "val 1"
                BY <3>2, <3>3, <4>2 DEF ValGroups
            <4> QED
                BY <4>1, <4>2
        <3> QED
            BY <3>3
    <2>2. SafePhases(DistillationPhases(conf), conf)
        BY <2>1, DistillationIsSafe
    <2> QED
        BY <1>2, <2>2 DEF Phases
<1>3. CASE conf.program = "eval"
    <2> DEFINE s == EngineOps(conf, "rollout")
    <2>1. Launches(s, "rollout")
        BY EngineScript DEF EngineNames
    <2> HIDE DEF s
    <2>2. IsScript(s) /\ LooksForNoPort(s) /\ Orderly(s, conf)
        BY <2>1, StartsOneIsOrderly DEF Launches, IsScript
    <2>3. SafePhases(<<InMain(s)>>, conf)
        BY <2>2, OnePhase
    <2>4. Phases(conf) = EvalPhases(conf)
        BY <1>3 DEF Phases
    <2>5. EvalPhases(conf) = <<InMain(s)>>
        BY DEF EvalPhases, s
    <2> QED
        BY <2>3, <2>4, <2>5
<1>4. CASE conf.program \in {"sft", "dpo", "rm"}
    <2> DEFINE s == StartOps("policy")
               w == <<Op("wait", "policy")>>
    <2>1. Launches(s, "policy") /\ IsScript(w) /\ StartsNothing(w) /\ LooksForNoPort(w)
        BY PolicyScript
    <2>2. PolicyOps = s \o w
        BY DEF PolicyOps
    <2> HIDE DEF s, w
    <2>3. Launches(s \o w, "policy")
        BY <2>1, JoinLaunches
    <2>4. IsScript(s \o w) /\ LooksForNoPort(s \o w) /\ Orderly(s \o w, conf)
        BY <2>3, StartsOneIsOrderly DEF Launches, IsScript
    <2>5. SafePhases(<<InMain(s \o w)>>, conf)
        BY <2>4, OnePhase
    <2>6. Phases(conf) = <<InMain(PolicyOps)>>
        BY <1>4 DEF Phases, SftPhases, DpoPhases, RmPhases
    <2> QED
        BY <2>2, <2>5, <2>6
<1>5. conf.program \in {"grpo", "distillation", "sft", "dpo", "rm", "eval"}
    BY DEF IsMix
<1> QED
    BY <1>1, <1>2, <1>3, <1>4, <1>5

-----------------------------------------------------------------------------
(* Placement. *)

\* Where the bundles of a cluster lie, once placed: in groups of one length, and no two
\* bundles of a group on one device.
PlacedOn(pgs, cluster, devices) ==
    \E m \in Nat \ {0}, p \in Nat \ {0} :
        /\ pgs \in [1..m -> [1..p -> devices]]
        /\ m * p = WorldSize(cluster)
        /\ \A i \in 1..m : \A a, b \in 1..p : a # b => pgs[i][a] # pgs[i][b]

\* The devices of a placement group in some order.
LEMMA OrderedPart ==
    ASSUME NEW D, NEW n, NEW free, D \in kSubset(n, free), NEW f \in SetToSeqs(D)
    PROVE  /\ f \in [1..n -> free]
           /\ \A a, b \in 1..n : a # b => f[a] # f[b]
BY DEF kSubset, SetToSeqs

\* The devices of several placement groups in some order.
LEMMA OrderedParts ==
    ASSUME NEW m \in Nat \ {0}, NEW p \in Nat \ {0}, NEW free,
           NEW parts \in [1..m -> kSubset(p, free)], NEW pgs \in Orders(parts)
    PROVE  /\ pgs \in [1..m -> [1..p -> free]] /\ Len(pgs) = m
           /\ \A i \in 1..m : \A a, b \in 1..p : a # b => pgs[i][a] # pgs[i][b]
<1>1. /\ DOMAIN pgs = 1..m /\ \A i \in 1..m : pgs[i] \in SetToSeqs(parts[i])
      /\ pgs = [i \in DOMAIN pgs |-> pgs[i]]
    BY DEF Orders
<1>2. \A i \in 1..m : /\ pgs[i] \in [1..p -> free]
                      /\ \A a, b \in 1..p : a # b => pgs[i][a] # pgs[i][b]
    BY <1>1, OrderedPart
<1> QED
    BY <1>1, <1>2

\* Placement groups of their own nodes lie on different devices.
LEMMA PlacementsApart ==
    ASSUME NEW cluster, cluster.nodes \in Nat \ {0}, cluster.perNode \in Nat \ {0},
           NEW strategy, NEW free, NEW pgs \in Placements(cluster, strategy, FALSE, free)
    PROVE  PlacedOn(pgs, cluster, free) /\ pgs # <<>>
<1> DEFINE m == cluster.nodes
           p == cluster.perNode
<1>1. PICK parts : parts \in PerNode(cluster, free) /\ pgs \in Orders(parts)
    BY DEF Placements
<1>2. parts \in [1..m -> kSubset(p, free)]
    BY <1>1 DEF PerNode
<1>3. m \in Nat \ {0} /\ p \in Nat \ {0} /\ m * p = WorldSize(cluster)
    BY DEF WorldSize
<1> HIDE DEF m, p
<1>4. /\ pgs \in [1..m -> [1..p -> free]] /\ Len(pgs) = m
      /\ \A i \in 1..m : \A a, b \in 1..p : a # b => pgs[i][a] # pgs[i][b]
    BY <1>1, <1>2, <1>3, OrderedParts
<1> QED
    BY <1>3, <1>4 DEF PlacedOn

\* A single placement group lies on different devices.
LEMMA PlacementsTogether ==
    ASSUME NEW cluster, cluster.nodes \in Nat \ {0}, cluster.perNode \in Nat \ {0},
           NEW strategy, NEW free, NEW pgs \in Placements(cluster, strategy, TRUE, free)
    PROVE  PlacedOn(pgs, cluster, free) /\ Len(pgs) = 1 /\ pgs # <<>>
<1> DEFINE p == WorldSize(cluster)
<1>1. PICK parts : parts \in Together(cluster, strategy, free) /\ pgs \in Orders(parts)
    BY DEF Placements
<1>2. p \in Nat \ {0}
    <2>1. \A a, b \in Nat \ {0} : a * b \in Nat \ {0}
        OBVIOUS
    <2> QED
        BY <2>1 DEF WorldSize
<1>3. PICK m \in Nat \ {0} : m = 1
    OBVIOUS
<1>4. m * p = p
    BY <1>2, <1>3
<1> HIDE DEF p
<1>5. parts \in [1..m -> kSubset(p, free)]
    <2>1. PICK D \in kSubset(p, free) : parts = <<D>>
        BY <1>1 DEF Together, p
    <2>2. parts = [i \in 1..1 |-> D]
        BY <2>1
    <2> QED
        BY <1>3, <2>2
<1>6. /\ pgs \in [1..m -> [1..p -> free]] /\ Len(pgs) = m
      /\ \A i \in 1..m : \A a, b \in 1..p : a # b => pgs[i][a] # pgs[i][b]
    BY <1>1, <1>2, <1>5, OrderedParts
<1>7. m * p = WorldSize(cluster)
    BY <1>4 DEF p
<1> QED
    BY <1>2, <1>3, <1>6, <1>7 DEF PlacedOn

-----------------------------------------------------------------------------
(* Ranks in a set. *)

\* A finite strict order has an element at every place.
LEMMA NthExists ==
    ASSUME NEW S, IsFiniteSet(S), NEW before \in [S -> SUBSET S],
           \A b \in S : b \notin before[b],
           \A b, c \in S : b # c => b \in before[c] \/ c \in before[b],
           \A b, c \in S : b \in before[c] => before[b] \subseteq before[c],
           NEW i \in 1..Cardinality(S)
    PROVE  Nth(S, i, before) \in S /\ Cardinality(before[Nth(S, i, before)]) = i - 1
<1> DEFINE n == Cardinality(S)
           rank == [b \in S |-> Cardinality(before[b])]
<1>1. n \in Nat
    BY FS_CardinalityType
<1>2. ASSUME NEW b \in S
      PROVE  IsFiniteSet(before[b]) /\ Cardinality(before[b]) \in 0..(n - 1)
    <2>1. before[b] \in SUBSET S /\ before[b] # S
        OBVIOUS
    <2>2. IsFiniteSet(before[b]) /\ Cardinality(before[b]) <= n /\ Cardinality(before[b]) # n
        BY <2>1, FS_Subset
    <2>3. Cardinality(before[b]) \in Nat
        BY <2>2, FS_CardinalityType
    <2> QED
        BY <1>1, <2>2, <2>3
<1>3. ASSUME NEW b \in S, NEW c \in S, b \in before[c]
      PROVE  Cardinality(before[b]) # Cardinality(before[c])
    <2>1. before[b] \in SUBSET before[c] /\ before[b] # before[c]
        BY <1>3
    <2> QED
        BY <2>1, <1>2, FS_Subset
<1>4. rank \in [S -> 0..(n - 1)] /\ \A b, c \in S : rank[b] = rank[c] => b = c
    BY <1>2, <1>3
<1>5. rank \in Injection(S, 0..(n - 1))
    BY <1>4 DEF Injection, IsInjective
<1>6. IsFiniteSet(0..(n - 1)) /\ Cardinality(0..(n - 1)) = n
    <2>1. 0 \in Int /\ n - 1 \in Int /\ (IF 0 > n - 1 THEN 0 ELSE (n - 1) - 0 + 1) = n
        BY <1>1
    <2> HIDE DEF n
    <2> QED
        BY <2>1, FS_Interval
<1> HIDE DEF n, rank
<1>7. rank \in Surjection(S, 0..(n - 1))
    BY <1>5, <1>6, FS_Injection DEF n
<1>8. i - 1 \in 0..(n - 1)
    BY <1>1 DEF n
<1>9. \E b \in S : rank[b] = i - 1
    BY <1>7, <1>8 DEF Surjection
<1>10. \E b \in S : Cardinality(before[b]) = i - 1
    BY <1>9 DEF rank
<1> QED
    BY <1>10 DEF Nth

\* The i-th of a set of numbers belongs to it.
LEMMA NthNumber ==
    ASSUME NEW S, S \subseteq Nat, IsFiniteSet(S), NEW i \in 1..Cardinality(S)
    PROVE  /\ Nth(S, i, Below(S)) \in S
           /\ Cardinality(Below(S)[Nth(S, i, Below(S))]) = i - 1
<1> DEFINE before == Below(S)
<1>1. /\ before \in [S -> SUBSET S]
      /\ \A b \in S : before[b] = {c \in S : c < b}
    BY DEF Below
<1> HIDE DEF before
<1>2. /\ \A b \in S : b \notin before[b]
      /\ \A b, c \in S : b # c => b \in before[c] \/ c \in before[b]
      /\ \A b, c \in S : b \in before[c] => before[b] \subseteq before[c]
    <2>1. \A b, c, d \in S : /\ ~(b < b) /\ (b # c => b < c \/ c < b)
                             /\ (d < b /\ b < c => d < c)
        OBVIOUS
    <2>2. \A b, c \in S : c \in before[b] <=> c < b
        BY <1>1
    <2>3. \A b, c \in S : b \in before[c] => before[b] \subseteq before[c]
        BY <1>1, <2>1, <2>2
    <2> QED
        BY <2>1, <2>2, <2>3
<1>3. Nth(S, i, before) \in S /\ Cardinality(before[Nth(S, i, before)]) = i - 1
    BY <1>1, <1>2, NthExists
<1> QED
    BY <1>3 DEF before

Devices == Nat \X Nat

\* The sorted bundles are the bundles.
LEMMA SortedShape ==
    ASSUME NEW n \in Nat, NEW pg \in [1..n -> Devices],
           \A a, b \in 1..n : a # b => pg[a] # pg[b]
    PROVE  SortedBundles(pg) \in [1..n -> 1..n]
<1> DEFINE S == 1..n
           before == EarlierDevices(pg)
<1>1. IsFiniteSet(S) /\ Cardinality(S) = n
    BY FS_Interval
<1>2. DOMAIN pg = S
    OBVIOUS
<1>3. /\ before \in [S -> SUBSET S]
      /\ \A b \in S : before[b] = {c \in S : DeviceBefore(pg[c], pg[b])}
    BY <1>2 DEF EarlierDevices
<1>4. \A b \in S : pg[b][1] \in Nat /\ pg[b][2] \in Nat /\ pg[b] = <<pg[b][1], pg[b][2]>>
    BY DEF Devices
<1>5. \A a, b \in S : a # b => pg[a][1] # pg[b][1] \/ pg[a][2] # pg[b][2]
    BY <1>4
<1> HIDE DEF before
<1>6. \A b \in S : b \notin before[b]
    BY <1>3, <1>4 DEF DeviceBefore
<1>7. \A b, c \in S : b # c => b \in before[c] \/ c \in before[b]
    BY <1>3, <1>4, <1>5 DEF DeviceBefore
<1>8. \A b, c \in S : b \in before[c] => before[b] \subseteq before[c]
    BY <1>3, <1>4 DEF DeviceBefore
<1>9. \A i \in S : Nth(S, i, before) \in S
    BY <1>1, <1>3, <1>6, <1>7, <1>8, NthExists
<1> QED
    BY <1>2, <1>9 DEF SortedBundles, before
-----------------------------------------------------------------------------
(* The bundles of the workers. *)

\* Tied groups of `size' bundles each, on the placement groups of a cluster.
AreTied(tied, pgs, size) ==
    \E n \in Nat :
        /\ DOMAIN tied = 1..n /\ Len(tied) = n
        /\ \A k \in 1..n :
              /\ DOMAIN tied[k].bundles = 1..size /\ Len(tied[k].bundles) = size
              /\ \A j \in 1..size :
                    /\ Len(pgs) = 1 => tied[k].bundles[j] \in DOMAIN pgs[1]
                    /\ Len(pgs) # 1 => /\ tied[k].pg \in 1..Len(pgs)
                                       /\ tied[k].bundles[j] \in DOMAIN pgs[tied[k].pg]

\* Quotient and rest.
LEMMA Division ==
    ASSUME NEW a \in Nat, NEW b \in Nat \ {0}
    PROVE  a \div b \in Nat /\ a % b \in 0..(b - 1) /\ a = (a \div b) * b + (a % b)
OBVIOUS

\* The quotient of a number below a product.
LEMMA DivideBy ==
    ASSUME NEW i \in Nat \ {0}, NEW n \in Nat, NEW q \in Nat \ {0}, i <= n * q
    PROVE  /\ (i - 1) \div q \in Nat /\ ((i - 1) \div q) + 1 \in 1..n
           /\ (i - 1) % q \in 0..(q - 1) /\ i - 1 = ((i - 1) \div q) * q + ((i - 1) % q)
<1> DEFINE d == (i - 1) \div q
           r == (i - 1) % q
<1>1. i - 1 \in Nat /\ d \in Nat /\ r \in 0..(q - 1) /\ i - 1 = d * q + r
    OBVIOUS
<1> HIDE DEF d, r
<1>2. ASSUME d >= n PROVE FALSE
    <2>1. d * q >= n * q
        BY <1>1, <1>2, \A a, b \in Nat, c \in Nat \ {0} : a >= b => a * c >= b * c
    <2>2. n * q \in Nat /\ d * q \in Nat
        BY <1>1
    <2> QED
        BY <1>1, <2>1, <2>2
<1>3. d + 1 \in 1..n
    BY <1>1, <1>2
<1> QED
    BY <1>1, <1>3 DEF d, r

\* All placement groups together hold the bundles of the cluster.
LEMMA GroupCount ==
    ASSUME NEW m \in Nat \ {0}, NEW p \in Nat \ {0}, NEW D, NEW pgs \in [1..m -> [1..p -> D]]
    PROVE  Len(pgs) = m /\ DOMAIN pgs = 1..m
OBVIOUS

\* Bundles cut within each placement group are devices of the cluster.
LEMMA SlicesAreTied ==
    ASSUME NEW m \in Nat \ {0}, NEW p \in Nat \ {0}, NEW D, NEW pgs \in [1..m -> [1..p -> D]],
           NEW size \in Nat \ {0}
    PROVE  AreTied(SlicesPerNode(pgs, size), pgs, size)
<1> DEFINE q == p \div size
           tied == SlicesPerNode(pgs, size)
           n == m * q
           first(k) == ((k - 1) % q) * size
<1>1. Len(pgs) = m /\ Len(pgs[1]) = p /\ DOMAIN pgs[1] = 1..p
    <2>1. pgs[1] \in [1..p -> D]
        OBVIOUS
    <2> QED
        BY <2>1
<1>2. q \in Nat /\ q * size <= p
    <2>1. p \div size \in Nat /\ p % size \in 0..(size - 1) /\ p = (p \div size) * size + (p % size)
        BY Division
    <2>2. (p \div size) * size \in Nat
        BY <2>1
    <2> QED
        BY <2>1, <2>2
<1>3. n \in Nat
    BY <1>2
<1>4. tied = [k \in 1..n |-> Tied(((k - 1) \div q) + 1, [j \in 1..size |-> first(k) + j])]
    BY <1>1 DEF SlicesPerNode
<1> HIDE DEF q, tied, n
<1>5. DOMAIN tied = 1..n /\ Len(tied) = n
    BY <1>3, <1>4
<1>6. ASSUME NEW k \in 1..n
      PROVE  /\ tied[k].pg \in 1..m
             /\ DOMAIN tied[k].bundles = 1..size /\ Len(tied[k].bundles) = size
             /\ \A j \in 1..size : tied[k].bundles[j] \in 1..p
    <2>1. tied[k].pg = ((k - 1) \div q) + 1 /\ tied[k].bundles = [j \in 1..size |-> first(k) + j]
        BY <1>4 DEF Tied
    <2>2. q \in Nat \ {0}
        BY <1>2, <1>3, \A a \in Nat : a * 0 = 0 DEF n
    <2>3. /\ ((k - 1) \div q) + 1 \in 1..m /\ (k - 1) % q \in 0..(q - 1)
        <3>1. k \in Nat \ {0} /\ k <= m * q
            BY <1>3 DEF n
        <3> QED
            BY <2>2, <3>1, DivideBy
    <2>4. ASSUME NEW j \in 1..size PROVE first(k) + j \in 1..p
        <3> DEFINE r == (k - 1) % q
        <3>1. r \in Nat /\ r + 1 <= q
            BY <2>2, <2>3
        <3> HIDE DEF r
        <3>2. (r + 1) * size <= q * size
            BY <1>2, <3>1, \A a, b \in Nat, c \in Nat \ {0} : a <= b => a * c <= b * c
        <3>3. (r + 1) * size = r * size + size /\ r * size \in Nat /\ q * size \in Nat
            BY <1>2, <3>1
        <3>4. r * size + j \in 1..p
            BY <1>2, <3>2, <3>3
        <3> QED
            BY <3>4 DEF r
    <2> QED
        BY <2>1, <2>3, <2>4
<1>7. AreTied(tied, pgs, size)
    <2>1. ASSUME NEW k \in 1..n, Len(pgs) # 1
          PROVE  tied[k].pg \in 1..Len(pgs) /\ DOMAIN pgs[tied[k].pg] = 1..p
        BY <1>1, <1>6
    <2> QED
        BY <1>1, <1>3, <1>5, <1>6, <2>1 DEF AreTied
<1> QED
    BY <1>7 DEF tied

\* So are bundles cut from a single placement group.
LEMMA SingleSlices ==
    ASSUME NEW m \in Nat \ {0}, NEW p \in Nat \ {0}, NEW D, NEW pgs \in [1..m -> [1..p -> D]],
           NEW world, m * p = world
    PROVE  Len(SlicesPerNode(pgs, 1)) = world
<1>1. Len(pgs) = m /\ Len(pgs[1]) = p
    <2>1. pgs[1] \in [1..p -> D]
        OBVIOUS
    <2> QED
        BY <2>1
<1>2. p \div 1 = p /\ world \in Nat
    OBVIOUS
<1>3. DOMAIN SlicesPerNode(pgs, 1) = 1..world
    BY <1>1, <1>2 DEF SlicesPerNode
<1>4. SlicesPerNode(pgs, 1) = [k \in 1..world |-> SlicesPerNode(pgs, 1)[k]]
    BY <1>1, <1>2 DEF SlicesPerNode
<1> QED
    BY <1>2, <1>4

\* Engines over the nodes.
LEMMA EvenlyLaid ==
    ASSUME NEW n \in Nat \ {0}, NEW pg \in [1..n -> Devices], EvenNodes(pg)
    PROVE  \E c \in Nat \ {0} :
              LET nodes == NodesOf(Range(pg))
              IN  /\ nodes \subseteq Nat /\ IsFiniteSet(nodes) /\ Cardinality(nodes) \in Nat \ {0}
                  /\ n = Cardinality(nodes) * c
                  /\ \A node \in nodes : /\ NodeBundles(pg, node) \subseteq 1..n
                                         /\ Cardinality(NodeBundles(pg, node)) = c
<1> DEFINE S == 1..n
           N == NodesOf(Range(pg))
           on == [node \in N |-> NodeBundles(pg, node)]
           sizes == {Cardinality(NodeBundles(pg, node)) : node \in N}
           home == [b \in S |-> pg[b][1]]
           before == [b \in S |-> {c \in S : c < b /\ home[c] = home[b]}]
<1>1. IsFiniteSet(S) /\ Cardinality(S) = n /\ DOMAIN pg = S /\ S \subseteq Nat
    BY FS_Interval
<1>2. \A b \in S : home[b] = pg[b][1] /\ home[b] \in Nat /\ home[b] \in N
    BY <1>1 DEF Devices, NodesOf, Range
<1>3. N \subseteq Nat /\ \A node \in N : \E b \in S : home[b] = node
    <2>1. ASSUME NEW node \in N PROVE \E b \in S : home[b] = node
        <3>1. PICK d \in Range(pg) : node = d[1]
            BY DEF NodesOf
        <3>2. PICK b \in S : d = pg[b]
            BY <1>1, <3>1 DEF Range
        <3> QED
            BY <3>1, <3>2
    <2> QED
        BY <1>2, <2>1
<1>4. IsFiniteSet(N) /\ N # {}
    <2>1. home \in Surjection(S, N)
        BY <1>2, <1>3 DEF Surjection
    <2>2. IsFiniteSet(N)
        BY <1>1, <2>1, FS_Surjection
    <2>3. home[1] \in N
        BY <1>2
    <2> QED
        BY <2>2, <2>3
<1>5. \A node \in N : on[node] = {b \in S : home[b] = node} /\ on[node] = NodeBundles(pg, node)
    BY <1>1, <1>2 DEF NodeBundles
<1>6. \A node \in N : IsFiniteSet(on[node]) /\ on[node] # {} /\ Cardinality(on[node]) \in Nat \ {0}
    <2> TAKE node \in N
    <2>1. on[node] \in SUBSET S /\ on[node] # {}
        BY <1>3, <1>5
    <2>2. IsFiniteSet(on[node])
        BY <2>1, <1>1, FS_Subset
    <2> HIDE DEF on
    <2> QED
        BY <2>1, <2>2, FS_CardinalityType, FS_EmptySet
<1>7. PICK c : \A node \in N : Cardinality(on[node]) = c
    <2>1. Cardinality(sizes) = 1
        BY DEF EvenNodes
    <2>2. PICK node \in N : TRUE
        BY <1>4
    <2>3. IsFiniteSet(sizes)
        <3> DEFINE f == [m \in N |-> Cardinality(NodeBundles(pg, m))]
        <3>1. f \in Surjection(N, sizes)
            BY DEF Surjection
        <3> HIDE DEF f, sizes
        <3> QED
            BY <3>1, <1>4, FS_Surjection
    <2> HIDE DEF sizes
    <2>4. PICK x : sizes = {x}
        BY <2>1, <2>3, FS_Singleton
    <2>5. \A m \in N : Cardinality(on[m]) = x
        BY <2>4, <1>5 DEF sizes
    <2> QED
        BY <2>5
<1>8. c \in Nat \ {0}
    BY <1>4, <1>6, <1>7
<1> DEFINE T == N \X (1..c)
           f == [b \in S |-> <<home[b], Cardinality(before[b]) + 1>>]
<1>9. \A b \in S : /\ before[b] = {d \in on[home[b]] : d < b}
                   /\ before[b] \in SUBSET on[home[b]] /\ b \in on[home[b]] /\ b \notin before[b]
    <2> TAKE b \in S
    <2>1. before[b] = {d \in S : d < b /\ home[d] = home[b]}
        OBVIOUS
    <2>2. ~(b < b)
        BY <1>1
    <2> HIDE DEF on, before, home, N
    <2>3. home[b] \in N
        BY <1>2
    <2>4. on[home[b]] = {d \in S : home[d] = home[b]}
        BY <1>5, <2>3
    <2> QED
        BY <2>1, <2>2, <2>4
<1> HIDE DEF on, before, home, N
<1>10. \A b \in S : IsFiniteSet(before[b]) /\ Cardinality(before[b]) \in 0..(c - 1)
    <2> TAKE b \in S
    <2>1. IsFiniteSet(on[home[b]]) /\ Cardinality(on[home[b]]) = c /\ on[home[b]] # before[b]
        BY <1>2, <1>6, <1>7, <1>9
    <2>2. /\ IsFiniteSet(before[b]) /\ Cardinality(before[b]) <= c
          /\ Cardinality(before[b]) # c
        BY <2>1, <1>9, FS_Subset
    <2>3. Cardinality(before[b]) \in Nat
        BY <2>2, FS_CardinalityType
    <2> QED
        BY <1>8, <2>2, <2>3
<1>11. ASSUME NEW a \in S, NEW b \in S, a < b, home[a] = home[b]
       PROVE  Cardinality(before[a]) # Cardinality(before[b])
    <2>1. before[a] \in SUBSET before[b] /\ a \in before[b] /\ a \notin before[a]
        <3>1. \A d \in S : d < a => d < b
            BY <1>11, <1>1
        <3>2. on[home[a]] \subseteq S
            BY <1>2, <1>5
        <3>3. before[a] \subseteq before[b]
            <4> SUFFICES ASSUME NEW d \in before[a] PROVE d \in before[b]
                OBVIOUS
            <4>1. before[a] = {e \in on[home[a]] : e < a} /\ before[b] = {e \in on[home[b]] : e < b}
                BY <1>9
            <4>2. d \in on[home[b]] /\ d \in S /\ d < a
                BY <1>11, <3>2, <4>1
            <4> QED
                BY <3>1, <4>1, <4>2
        <3>4. a \in before[b]
            BY <1>9, <1>11
        <3> QED
            BY <1>9, <3>3, <3>4
    <2> QED
        BY <2>1, <1>10, FS_Subset
<1>12. f \in [S -> T] /\ \A a, b \in S : f[a] = f[b] => a = b
    <2>1. \A b \in S : /\ f[b] = <<home[b], Cardinality(before[b]) + 1>>
                       /\ home[b] \in N /\ Cardinality(before[b]) + 1 \in 1..c
        BY <1>2, <1>8, <1>10
    <2>2. \A a, b \in S : f[a] = f[b] => home[a] = home[b] /\ Cardinality(before[a]) = Cardinality(before[b])
        BY <2>1, <1>10
    <2>3. \A a, b \in S : a < b \/ b < a \/ a = b
        BY <1>1
    <2> QED
        BY <2>1, <2>2, <2>3, <1>11
<1>13. f \in Injection(S, T)
    BY <1>12 DEF Injection, IsInjective
<1>14. IsFiniteSet(T) /\ Cardinality(T) = Cardinality(N) * c
    <2>1. IsFiniteSet(1..c) /\ Cardinality(1..c) = c
        BY <1>8, FS_Interval
    <2> QED
        BY <2>1, <1>4, FS_Product
<1>15. f \in Surjection(S, T)
    <2>1. ASSUME NEW node \in N, NEW i \in 1..c
          PROVE  \E b \in S : f[b] = <<node, i>>
        <3> DEFINE B == on[node]
        <3>1. B \subseteq S /\ B \subseteq Nat /\ IsFiniteSet(B) /\ Cardinality(B) = c
            BY <1>1, <1>5, <1>6, <1>7
        <3>2. \A b \in B : home[b] = node /\ b \in S
            BY <1>5
        <3>3. \A b \in B : Below(B)[b] = before[b]
            BY <3>2, <1>9 DEF Below
        <3> HIDE DEF B
        <3>4. /\ Nth(B, i, Below(B)) \in B
              /\ Cardinality(Below(B)[Nth(B, i, Below(B))]) = i - 1
            BY <3>1, NthNumber
        <3> DEFINE b == Nth(B, i, Below(B))
        <3>5. b \in S /\ home[b] = node /\ Cardinality(before[b]) = i - 1
            BY <3>2, <3>3, <3>4
        <3> HIDE DEF b
        <3>6. f[b] = <<node, i>>
            BY <3>5
        <3> QED
            BY <3>5, <3>6
    <2>2. ASSUME NEW t \in T PROVE \E b \in S : f[b] = t
        <3>1. PICK node \in N, i \in 1..c : t = <<node, i>>
            OBVIOUS
        <3> QED
            BY <2>1, <3>1
    <2> QED
        BY <2>2, <1>12 DEF Surjection
<1> HIDE DEF f, T
<1>16. n = Cardinality(N) * c
    BY <1>1, <1>13, <1>14, <1>15, FS_Injection
<1>17. Cardinality(N) \in Nat \ {0}
    BY <1>4, FS_CardinalityType, FS_EmptySet
<1>18. /\ N \subseteq Nat /\ IsFiniteSet(N) /\ Cardinality(N) \in Nat \ {0} /\ n = Cardinality(N) * c
       /\ \A node \in N : NodeBundles(pg, node) \subseteq 1..n /\ Cardinality(NodeBundles(pg, node)) = c
    BY <1>3, <1>4, <1>5, <1>7, <1>16, <1>17
<1> QED
    BY <1>8, <1>18 DEF N

\* So are bundles cut within each node of a single placement group.
LEMMA NodeSlicesAreTied ==
    ASSUME NEW n \in Nat \ {0}, NEW pgs, Len(pgs) = 1, pgs[1] \in [1..n -> Devices],
           EvenNodes(pgs[1]), NEW size \in Nat \ {0}
    PROVE  AreTied(EngineSlices(pgs[1], size), pgs, size)
<1> DEFINE pg == pgs[1]
           N == NodesOf(Range(pg))
           m == Cardinality(N)
           q == n \div size
           tied == EngineSlices(pg, size)
           index(i) == ((i - 1) \div (n \div m)) + 1
           bundles(i) == NodeBundles(pg, Nth(N, index(i), Below(N)))
           flat(i) == Nth(bundles(i), ((i - 1) % (n \div m)) + 1, Below(bundles(i)))
<1>1. pg \in [1..n -> Devices] /\ Len(pg) = n /\ DOMAIN pg = 1..n
    OBVIOUS
<1>2. PICK c \in Nat \ {0} :
          /\ N \subseteq Nat /\ IsFiniteSet(N) /\ m \in Nat \ {0} /\ n = m * c
          /\ \A node \in N : NodeBundles(pg, node) \subseteq 1..n /\ Cardinality(NodeBundles(pg, node)) = c
    BY EvenlyLaid
<1>3. tied = [k \in 1..q |-> Tied(index((k - 1) * size + 1), [j \in 1..size |-> flat((k - 1) * size + j)])]
    BY <1>1 DEF EngineSlices
<1> HIDE DEF pg, N, m, q, tied
<1>4. n \div m = c
    <2>1. \A a, b \in Nat \ {0} : (a * b) \div a = b
        BY Z3
    <2> QED
        BY <1>2, <2>1
<1>5. q \in Nat /\ q * size <= n
    <2>1. n \div size \in Nat /\ n % size \in 0..(size - 1) /\ n = (n \div size) * size + (n % size)
        BY Division
    <2>2. (n \div size) * size \in Nat
        BY <2>1
    <2> QED
        BY <2>1, <2>2 DEF q
<1>6. ASSUME NEW i \in 1..n PROVE flat(i) \in 1..n
    <2>1. i \in Nat \ {0} /\ i <= m * c /\ m \in Nat
        BY <1>2
    <2>2. ((i - 1) \div c) + 1 \in 1..m /\ (i - 1) % c \in 0..(c - 1)
        BY <2>1, DivideBy
    <2>3. index(i) \in 1..m /\ ((i - 1) % (n \div m)) + 1 \in 1..c
        BY <1>4, <2>2
    <2> HIDE DEF index
    <2> DEFINE node == Nth(N, index(i), Below(N))
    <2>4. node \in N
        <3>1. index(i) \in 1..Cardinality(N)
            BY <2>3 DEF m
        <3> QED
            BY <1>2, <3>1, NthNumber
    <2> HIDE DEF node
    <2> DEFINE B == NodeBundles(pg, node)
               r == ((i - 1) % (n \div m)) + 1
    <2>5. B \subseteq 1..n /\ Cardinality(B) = c
        BY <1>2, <2>4
    <2>6. IsFiniteSet(B) /\ B \subseteq Nat
        <3>1. IsFiniteSet(1..n)
            <4>1. 1 \in Int /\ n \in Int
                OBVIOUS
            <4> QED
                BY <4>1, FS_Interval
        <3> QED
            BY <2>5, <3>1, FS_Subset
    <2>7. r \in 1..Cardinality(B)
        BY <2>3, <2>5
    <2> HIDE DEF B, r
    <2>8. Nth(B, r, Below(B)) \in B
        BY <2>6, <2>7, NthNumber
    <2>9. flat(i) = Nth(B, r, Below(B))
        BY DEF B, r, node
    <2> HIDE DEF flat
    <2> QED
        BY <2>5, <2>8, <2>9
<1> HIDE DEF flat, index
<1>7. DOMAIN tied = 1..q /\ Len(tied) = q
    BY <1>3, <1>5
<1>8. ASSUME NEW k \in 1..q
      PROVE  /\ DOMAIN tied[k].bundles = 1..size /\ Len(tied[k].bundles) = size
             /\ \A j \in 1..size : tied[k].bundles[j] \in DOMAIN pgs[1]
    <2>1. tied[k].bundles = [j \in 1..size |-> flat((k - 1) * size + j)]
        BY <1>3 DEF Tied
    <2>2. ASSUME NEW j \in 1..size PROVE (k - 1) * size + j \in 1..n
        <3>1. k * size <= q * size
            BY <1>5, \A a, b \in Nat, d \in Nat \ {0} : a <= b => a * d <= b * d
        <3>2. k * size = (k - 1) * size + size /\ (k - 1) * size \in Nat /\ q * size \in Nat
            BY <1>5
        <3> QED
            BY <1>5, <3>1, <3>2
    <2> QED
        BY <1>1, <1>6, <2>1, <2>2 DEF pg
<1>9. AreTied(tied, pgs, size)
    BY <1>5, <1>7, <1>8 DEF AreTied
<1> QED
    BY <1>9 DEF tied, pg

\* The bundles of a policy are devices of its cluster.
LEMMA PolicyBundlesAreTied ==
    ASSUME NEW cluster, NEW pgs, PlacedOn(pgs, cluster, Devices)
    PROVE  /\ AreTied(PolicyBundles(cluster, pgs, FALSE), pgs, 1)
           /\ Len(PolicyBundles(cluster, pgs, FALSE)) = WorldSize(cluster)
<1>1. PICK m \in Nat \ {0}, p \in Nat \ {0} :
          /\ pgs \in [1..m -> [1..p -> Devices]]
          /\ m * p = WorldSize(cluster)
    BY DEF PlacedOn
<1>2. PICK one \in Nat \ {0} : one = 1
    OBVIOUS
<1>3. AreTied(SlicesPerNode(pgs, one), pgs, one)
    BY <1>1, SlicesAreTied
<1>4. Len(SlicesPerNode(pgs, 1)) = WorldSize(cluster)
    BY <1>1, SingleSlices
<1> QED
    BY <1>2, <1>3, <1>4 DEF PolicyBundles, OnePerBundle

\* So are those of a policy in a single placement group, which are sorted.
LEMMA SortedPolicyIsTied ==
    ASSUME NEW cluster, NEW pgs, PlacedOn(pgs, cluster, Devices), Len(pgs) = 1
    PROVE  /\ AreTied(PolicyBundles(cluster, pgs, TRUE), pgs, 1)
           /\ Len(PolicyBundles(cluster, pgs, TRUE)) = WorldSize(cluster)
<1>1. PICK m \in Nat \ {0}, p \in Nat \ {0} :
          /\ pgs \in [1..m -> [1..p -> Devices]]
          /\ m * p = WorldSize(cluster)
          /\ \A i \in 1..m : \A a, b \in 1..p : a # b => pgs[i][a] # pgs[i][b]
    BY DEF PlacedOn
<1> DEFINE tied == PolicyBundles(cluster, pgs, TRUE)
           pg == pgs[1]
           sorted == SortedBundles(pg)
<1>2. m = 1 /\ pg \in [1..p -> Devices] /\ p = WorldSize(cluster) /\ DOMAIN pg = 1..p
    <2>1. Len(pgs) = m
        BY <1>1, GroupCount
    <2>2. m = 1
        BY <2>1
    <2>3. pgs[1] \in [1..p -> Devices]
        BY <1>1, <2>2
    <2>4. \A a \in Nat \ {0} : 1 * a = a
        OBVIOUS
    <2>5. p = WorldSize(cluster)
        BY <1>1, <2>2, <2>4
    <2> QED
        BY <2>2, <2>3, <2>5
<1>3. \A a, b \in 1..p : a # b => pg[a] # pg[b]
    BY <1>1, <1>2
<1>4. tied = [i \in 1..p |-> Tied(((i - 1) \div cluster.perNode) + 1, <<sorted[i]>>)]
    BY <1>2 DEF PolicyBundles
<1> HIDE DEF pg
<1>5. sorted \in [1..p -> 1..p]
    BY <1>2, <1>3, SortedShape
<1> HIDE DEF tied, sorted
<1>6. DOMAIN tied = 1..p /\ Len(tied) = p
    BY <1>4
<1>7. ASSUME NEW k \in 1..p
      PROVE  /\ DOMAIN tied[k].bundles = 1..1 /\ Len(tied[k].bundles) = 1
             /\ \A j \in 1..1 : tied[k].bundles[j] \in DOMAIN pgs[1]
    <2>1. tied[k].bundles = <<sorted[k]>> /\ sorted[k] \in 1..p
        BY <1>4, <1>5 DEF Tied
    <2> QED
        BY <1>2, <2>1 DEF pg
<1>8. AreTied(tied, pgs, 1)
    BY <1>6, <1>7 DEF AreTied
<1> QED
    BY <1>2, <1>6, <1>8 DEF tied

\* The bundles of vLLM engines are devices of their cluster.
LEMMA EngineBundlesAreTied ==
    ASSUME NEW cluster, NEW pgs, PlacedOn(pgs, cluster, Devices),
           NEW size \in Nat \ {0}, EngineBundles(pgs, size) # <<>>
    PROVE  AreTied(EngineBundles(pgs, size), pgs, size)
<1>1. PICK m \in Nat \ {0}, p \in Nat \ {0} :
          /\ pgs \in [1..m -> [1..p -> Devices]]
          /\ m * p = WorldSize(cluster)
    BY DEF PlacedOn
<1>2. AreTied(SlicesPerNode(pgs, size), pgs, size)
    BY <1>1, SlicesAreTied
<1>3. Len(pgs) = 1 => pgs[1] \in [1..p -> Devices]
    BY <1>1
<1>4. (Len(pgs) = 1 /\ EvenNodes(pgs[1])) => AreTied(EngineSlices(pgs[1], size), pgs, size)
    BY <1>1, <1>3, NodeSlicesAreTied
<1> QED
    BY <1>2, <1>4 DEF EngineBundles, OnePerBundle

\* The bundles of SGLang servers are devices of their cluster.
LEMMA ServerBundlesAreTied ==
    ASSUME NEW cluster, NEW pgs, PlacedOn(pgs, cluster, Devices),
           NEW size \in Nat \ {0}, NEW servers \in Nat, ServerBundles(pgs, size, servers) # <<>>
    PROVE  AreTied(ServerBundles(pgs, size, servers), pgs, size)
<1>1. PICK m \in Nat \ {0}, p \in Nat \ {0} : pgs \in [1..m -> [1..p -> Devices]]
    BY DEF PlacedOn
<1> DEFINE all == SlicesPerNode(pgs, size)
<1>2. AreTied(all, pgs, size)
    BY <1>1, SlicesAreTied
<1>3. ServerBundles(pgs, size, servers) = SubSeq(all, 1, servers) /\ ~(Len(all) < servers)
    BY DEF ServerBundles
<1> HIDE DEF all
<1>4. PICK n \in Nat :
        /\ DOMAIN all = 1..n /\ Len(all) = n
        /\ \A k \in 1..n :
              /\ DOMAIN all[k].bundles = 1..size /\ Len(all[k].bundles) = size
              /\ \A j \in 1..size :
                    /\ Len(pgs) = 1 => all[k].bundles[j] \in DOMAIN pgs[1]
                    /\ Len(pgs) # 1 => /\ all[k].pg \in 1..Len(pgs)
                                       /\ all[k].bundles[j] \in DOMAIN pgs[all[k].pg]
    BY <1>2 DEF AreTied
<1> DEFINE s == SubSeq(all, 1, servers)
<1>5. DOMAIN s = 1..servers /\ Len(s) = servers /\ \A k \in 1..servers : s[k] = all[k] /\ k \in 1..n
    BY <1>3, <1>4
<1> HIDE DEF s
<1>6. AreTied(s, pgs, size)
    BY <1>4, <1>5 DEF AreTied
<1> QED
    BY <1>3, <1>6 DEF s

\* The workers on tied groups.
LEMMA WorkersOnTied ==
    ASSUME NEW m \in Nat \ {0}, NEW D, NEW p \in Nat, NEW pgs \in [1..m -> [1..p -> D]],
           NEW size \in Nat \ {0}, NEW tied, AreTied(tied, pgs, size), tied # <<>>
    PROVE  LET workers == Workers(tied, pgs)
               n == Len(tied)
           IN  /\ n \in Nat \ {0} /\ DOMAIN workers = 1..(n * size)
               /\ \A i \in 1..(n * size) :
                     /\ workers[i].shard = (i - 1) \div size
                     /\ workers[i].leader = ((i - 1) % size = 0)
                     /\ \E k \in DOMAIN pgs : workers[i].device \in Range(pgs[k])
<1>1. PICK n \in Nat :
        /\ DOMAIN tied = 1..n /\ Len(tied) = n
        /\ \A k \in 1..n :
              /\ DOMAIN tied[k].bundles = 1..size /\ Len(tied[k].bundles) = size
              /\ \A j \in 1..size :
                    /\ Len(pgs) = 1 => tied[k].bundles[j] \in DOMAIN pgs[1]
                    /\ Len(pgs) # 1 => /\ tied[k].pg \in 1..Len(pgs)
                                       /\ tied[k].bundles[j] \in DOMAIN pgs[tied[k].pg]
    BY DEF AreTied
<1>2. n \in Nat \ {0}
    <2>1. ASSUME n = 0 PROVE FALSE
        <3>1. tied = <<>>
            BY <1>1, <2>1
        <3> QED
            BY <3>1
    <2> QED
        BY <2>1
<1>3. Len(tied[1].bundles) = size /\ n * size \in Nat
    BY <1>1, <1>2
<1> DEFINE workers == Workers(tied, pgs)
<1>4. /\ DOMAIN workers = 1..(n * size)
      /\ \A i \in 1..(n * size) :
            LET group == tied[((i - 1) \div size) + 1]
                bundle == group.bundles[((i - 1) % size) + 1]
            IN  /\ workers[i].shard = (i - 1) \div size
                /\ workers[i].leader = ((i - 1) % size = 0)
                /\ workers[i].device = DeviceOf(pgs, group.pg, bundle)
    BY <1>1, <1>3 DEF Workers
<1> HIDE DEF workers
<1>5. ASSUME NEW i \in 1..(n * size)
      PROVE  \E k \in DOMAIN pgs : workers[i].device \in Range(pgs[k])
    <2> DEFINE a == ((i - 1) \div size) + 1
               b == ((i - 1) % size) + 1
               pg == tied[a].pg
               bundle == tied[a].bundles[b]
    <2>1. i \in Nat \ {0} /\ i <= n * size
        BY <1>3
    <2>2. a \in 1..n /\ b \in 1..size
        <3>1. ((i - 1) \div size) + 1 \in 1..n /\ (i - 1) % size \in 0..(size - 1)
            BY <2>1, DivideBy
        <3> QED
            BY <3>1
    <2>3. workers[i].device = DeviceOf(pgs, pg, bundle)
        BY <1>4
    <2> HIDE DEF a, b
    <2>4. /\ Len(pgs) = 1 => bundle \in DOMAIN pgs[1]
          /\ Len(pgs) # 1 => pg \in 1..Len(pgs) /\ bundle \in DOMAIN pgs[pg]
        BY <1>1, <2>2
    <2> HIDE DEF pg, bundle
    <2>5. Len(pgs) = m /\ DOMAIN pgs = 1..m
        OBVIOUS
    <2>6. CASE Len(pgs) = 1
        <3>1. workers[i].device = pgs[1][bundle] /\ 1 \in DOMAIN pgs
            BY <2>3, <2>5, <2>6 DEF DeviceOf
        <3> QED
            BY <2>4, <2>6, <3>1 DEF Range
    <2>7. CASE Len(pgs) # 1
        <3>1. workers[i].device = pgs[pg][bundle]
            BY <2>3, <2>7 DEF DeviceOf
        <3> QED
            BY <2>4, <2>5, <2>7, <3>1 DEF Range
    <2> QED
        BY <2>6, <2>7
<1> QED
    BY <1>1, <1>2, <1>4, <1>5 DEF workers

-----------------------------------------------------------------------------
(* The inductive invariant. *)

\* What the driver's threads have got past, in phase ph, at positions a.
Did(P, ph, a, o) ==
    \E t \in PhaseThreads : \E p \in 1..Len(P) : \E i \in 1..Len(P[p][t]) :
        P[p][t][i] = o /\ (p < ph \/ (p = ph /\ i < a[t]))

HasDone(op, g) == Did(Phases(mix), phase, at, Op(op, g))

PgsOf(c) == placed[c].pgs
DevicesIn(pgs) == UNION {Range(pgs[i]) : i \in DOMAIN pgs}

\* What the workers of a group were told, in the order of their ranks.
Told(crews, g) == [r \in DOMAIN crews[g] |-> crews[g][r].place]

Shapes ==
    /\ chosen \in DOMAIN Mixes
    /\ phase \in Nat \ {0} /\ phase <= Len(Phases(mix)) + 1
    /\ at \in [Threads -> Nat \ {0}]
    /\ DOMAIN crew = GroupNames
    /\ \A g \in GroupNames : \A r \in DOMAIN crew[g] :
          DOMAIN crew[g][r] = {"at", "weights", "reference", "place"}
    /\ DOMAIN placed = {"train", "inference", "reward"}
    /\ \A c \in DOMAIN placed : DOMAIN placed[c] = {"pgs", "unified"}
    /\ ports \in [EngineNames -> Nat]

\* Nothing moves in the driver of a configuration that is refused.
RefusedInv ==
    Refused(mix) => "main" \in raised /\ phase = 1 /\ at["main"] = 1

\* What has been done has its effect.
DoneInv ==
    \A g \in GroupNames \ {"reward"} :
        /\ HasDone("place", g) => PgsOf(ClusterOf(mix, g)) # <<>>
        /\ HasDone("start", g) => Ranks(g) # {}
        /\ HasDone("sleep", g) => g \in asleep
        /\ (HasDone("wait", g) /\ g \in EngineNames /\ ~mix.colocated /\ mix.gen = "vllm")
              => Ranks(g) # {} /\ Complete(g)

\* What there is has been made.
MadeInv ==
    /\ \A g \in GroupNames \ {"reward"} : Ranks(g) # {} => HasDone("start", g)
    /\ \A g \in EngineNames : ports[g] # 0 => HasDone("port", g)

\* The environment of the reward model.
RewardInv ==
    /\ (Ranks("reward") # {} \/ PgsOf("reward") # <<>>) => mix.rmGpus > 0
    /\ at["reward"] > 1 => PgsOf("reward") # <<>>

\* Every cluster has its devices, and no two have one.
PlacedInv ==
    /\ \A c \in DOMAIN placed : PgsOf(c) # <<>> =>
          /\ PlacedOn(PgsOf(c), Clusters(mix)[c], Machine(mix))
          /\ placed[c].unified \in BOOLEAN
          /\ placed[c].unified => Len(PgsOf(c)) = 1
    /\ \A c, d \in DOMAIN placed : c # d => DevicesIn(PgsOf(c)) \intersect DevicesIn(PgsOf(d)) = {}

\* The workers of a group are those that the placement of its cluster makes.
CrewInv ==
    \A g \in GroupNames : Ranks(g) # {} =>
        /\ PgsOf(ClusterOf(mix, g)) # <<>>
        /\ Bundles(g) # <<>>
        /\ Told(crew, g) = Workers(Bundles(g), PgsOf(ClusterOf(mix, g)))

\* A port is either bound or will be by the next step, and no two are the same.
PortsInv ==
    /\ \A g \in EngineNames : ports[g] # 0 =>
          \/ g \in connected
          \/ /\ phase <= Len(Phases(mix)) /\ at["main"] > 1
             /\ at["main"] <= Len(Phases(mix)[phase]["main"])
             /\ Phases(mix)[phase]["main"][at["main"]] = Op("connect", g)
    /\ \A g, h \in EngineNames : (g # h /\ ports[g] # 0 /\ ports[h] # 0) => ports[g] # ports[h]

StartInv ==
    /\ Shapes /\ RefusedInv /\ DoneInv /\ MadeInv /\ RewardInv
    /\ PlacedInv /\ CrewInv /\ PortsInv

-----------------------------------------------------------------------------
(* The driver's scripts, and what they have done. *)

\* The configuration that was chosen has a safe start.
LEMMA PlanFacts ==
    ASSUME chosen \in DOMAIN Mixes
    PROVE  /\ IsMix(mix) /\ Program = Phases(mix) /\ SafePhases(Phases(mix), mix)
           /\ \A g \in GroupNames : TypeOf(g) = Group(mix, g)
           /\ \A c : ClusterNamed(c) = Clusters(mix)[c]
           /\ \A g : ClusterRecord(g) = Clusters(mix)[ClusterOf(mix, g)]
<1>1. IsMix(mix)
    BY StartupAssumption DEF mix
<1>2. Program = Phases(mix) /\ \A g \in GroupNames : TypeOf(g) = Group(mix, g)
    BY DEF Program, Plans, TypeOf, mix
<1>3. \A c : ClusterNamed(c) = Clusters(mix)[c]
    BY DEF Plans, ClusterNamed, mix
<1> QED
    BY <1>1, <1>2, <1>3, ProgramIsSafe DEF ClusterRecord

\* One step of a thread is one operation more that has been done.
LEMMA DidNext ==
    ASSUME NEW P, NEW ph \in Nat \ {0}, ph <= Len(P), Len(P) \in Nat,
           NEW a \in [Threads -> Nat \ {0}], NEW t \in PhaseThreads,
           P[ph][t] \in Seq(Ops), a[t] \in 1..Len(P[ph][t]),
           NEW o
    PROVE  Did(P, ph, [a EXCEPT ![t] = @ + 1], o) <=> (Did(P, ph, a, o) \/ o = P[ph][t][a[t]])
<1> DEFINE b == [a EXCEPT ![t] = @ + 1]
<1>1. t \in Threads /\ PhaseThreads \subseteq Threads
    BY DEF Threads, PhaseThreads
<1>2. /\ b[t] = a[t] + 1 /\ \A u \in PhaseThreads : u # t => b[u] = a[u]
      /\ a[t] \in Nat /\ \A u \in PhaseThreads : a[u] \in Nat
    BY <1>1
<1> HIDE DEF b
<1>3. ASSUME Did(P, ph, a, o) PROVE Did(P, ph, b, o)
    <2>0. PICK u \in PhaseThreads, p \in 1..Len(P) : \E i \in 1..Len(P[p][u]) :
              P[p][u][i] = o /\ (p < ph \/ (p = ph /\ i < a[u]))
        BY <1>3 DEF Did
    <2>1. PICK i \in 1..Len(P[p][u]) :
              P[p][u][i] = o /\ (p < ph \/ (p = ph /\ i < a[u]))
        BY <2>0
    <2>2. p < ph \/ (p = ph /\ i < b[u])
        <3>1. CASE p < ph
            BY <3>1
        <3>2. CASE p = ph /\ i < a[u] /\ u = t
            <4>1. i \in 1..Len(P[ph][t])
                BY <3>2
            <4>2. i \in Nat
                BY <4>1
            <4> QED
                BY <1>2, <3>2, <4>2
        <3>3. CASE p = ph /\ i < a[u] /\ u # t
            BY <1>2, <3>3
        <3> QED
            BY <2>1, <3>1, <3>2, <3>3
    <2> QED
        BY <2>1, <2>2 DEF Did
<1>4. ASSUME o = P[ph][t][a[t]] PROVE Did(P, ph, b, o)
    <2>1. ph \in 1..Len(P) /\ a[t] < b[t]
        BY <1>2
    <2> QED
        BY <1>4, <2>1 DEF Did
<1>5. ASSUME Did(P, ph, b, o) PROVE Did(P, ph, a, o) \/ o = P[ph][t][a[t]]
    <2>0. PICK u \in PhaseThreads, p \in 1..Len(P) : \E i \in 1..Len(P[p][u]) :
              P[p][u][i] = o /\ (p < ph \/ (p = ph /\ i < b[u]))
        BY <1>5 DEF Did
    <2>1. PICK i \in 1..Len(P[p][u]) :
              P[p][u][i] = o /\ (p < ph \/ (p = ph /\ i < b[u]))
        BY <2>0
    <2>2. CASE p < ph \/ (p = ph /\ i < a[u])
        BY <2>1, <2>2 DEF Did
    <2>3. CASE p = ph /\ ~(i < a[u])
        <3>1. i < b[u] /\ u = t
            BY <1>2, <2>1, <2>3
        <3>2. i \in Nat
            <4>1. i \in 1..Len(P[ph][t])
                BY <2>3, <3>1
            <4> QED
                BY <4>1
        <3>3. i = a[t]
            BY <1>2, <2>3, <3>1, <3>2
        <3> QED
            BY <2>1, <2>3, <3>1, <3>3
    <2> QED
        BY <2>1, <2>2, <2>3
<1> QED
    BY <1>3, <1>4, <1>5 DEF b

\* Leaving a phase adds nothing.
LEMMA DidOn ==
    ASSUME NEW P, NEW ph \in Nat \ {0}, ph <= Len(P), Len(P) \in Nat,
           NEW a \in [Threads -> Nat \ {0}],
           \A t \in PhaseThreads : P[ph][t] \in Seq(Ops) /\ a[t] > Len(P[ph][t]), NEW o
    PROVE  Did(P, ph + 1, [a EXCEPT !["main"] = 1, !["policy"] = 1], o) <=> Did(P, ph, a, o)
<1> DEFINE b == [a EXCEPT !["main"] = 1, !["policy"] = 1]
<1>1. \A t \in PhaseThreads : b[t] = 1 /\ a[t] \in Nat
    BY DEF PhaseThreads, Threads
<1> HIDE DEF b
<1>2. ASSUME Did(P, ph, a, o) PROVE Did(P, ph + 1, b, o)
    <2>0. PICK u \in PhaseThreads, p \in 1..Len(P) : \E i \in 1..Len(P[p][u]) :
              P[p][u][i] = o /\ (p < ph \/ (p = ph /\ i < a[u]))
        BY <1>2 DEF Did
    <2>1. PICK i \in 1..Len(P[p][u]) :
              P[p][u][i] = o /\ (p < ph \/ (p = ph /\ i < a[u]))
        BY <2>0
    <2>2. p < ph + 1
        BY <2>1
    <2> QED
        BY <2>1, <2>2 DEF Did
<1>3. ASSUME Did(P, ph + 1, b, o) PROVE Did(P, ph, a, o)
    <2>0. PICK u \in PhaseThreads, p \in 1..Len(P) : \E i \in 1..Len(P[p][u]) :
              P[p][u][i] = o /\ (p < ph + 1 \/ (p = ph + 1 /\ i < b[u]))
        BY <1>3 DEF Did
    <2>1. PICK i \in 1..Len(P[p][u]) :
              P[p][u][i] = o /\ (p < ph + 1 \/ (p = ph + 1 /\ i < b[u]))
        BY <2>0
    <2>2. p < ph \/ (p = ph /\ i < a[u])
        <3>1. CASE p < ph
            BY <3>1
        <3>2. CASE p = ph
            <4>1. i \in 1..Len(P[ph][u]) /\ P[ph][u] \in Seq(Ops) /\ a[u] > Len(P[ph][u])
                BY <3>2
            <4>2. Len(P[ph][u]) \in Nat /\ a[u] \in Nat
                BY <1>1, <4>1
            <4> QED
                BY <3>2, <4>1, <4>2
        <3>3. CASE p = ph + 1
            <4>1. i < 1 /\ ~(p < ph + 1)
                BY <1>1, <2>1, <3>3
            <4>2. P[p][u] # <<>> => i >= 1
                OBVIOUS
            <4>3. i \in 1..Len(P[p][u])
                OBVIOUS
            <4>4. i >= 1 /\ i \in Int
                BY <4>3
            <4> QED
                BY <4>1, <4>4
        <3> QED
            BY <2>1, <3>1, <3>2, <3>3
    <2> QED
        BY <2>1, <2>2 DEF Did
<1> QED
    BY <1>2, <1>3 DEF b

\* What a thread that goes on is about to do.
LEMMA AboutTo ==
    ASSUME StartInv, NEW t \in PhaseThreads, ~Finished(t)
    PROVE  LET s == Phases(mix)[phase][t]
           IN  /\ ~Refused(mix) /\ phase \in 1..Len(Phases(mix)) /\ Len(Phases(mix)) \in Nat
               /\ s \in Seq(Ops) /\ at[t] \in 1..Len(s) /\ Current(t) = s[at[t]] /\ Current(t) \in Ops
               /\ Current(t).op = "start" => HasDone("place", Current(t).group)
               /\ Current(t).op = "port" =>
                    t = "main" /\ at[t] < Len(s) /\ s[at[t] + 1] = Op("connect", Current(t).group)
<1> DEFINE P == Phases(mix)
           s == P[phase][t]
<1>1. /\ chosen \in DOMAIN Mixes /\ phase \in Nat \ {0} /\ at \in [Threads -> Nat \ {0}]
    BY DEF StartInv, Shapes
<1>2. /\ IsMix(mix) /\ Program = P /\ SafePhases(P, mix)
    BY <1>1, PlanFacts
<1> HIDE DEF P
<1>3. t # "reward" /\ t \in Threads
    BY DEF PhaseThreads, Threads
<1>4. at[t] \in Nat \ {0} /\ ~(at[t] > Len(Script(t))) /\ t \notin raised
    BY <1>1, <1>3 DEF Finished
<1>5. Len(P) \in Nat /\ phase <= Len(P)
    <2>1. Len(P) \in Nat
        BY <1>2 DEF SafePhases
    <2>2. ASSUME phase > Len(P) PROVE FALSE
        <3>1. Script(t) = <<>>
            BY <1>2, <1>3, <2>2 DEF Script
        <3> QED
            BY <1>4, <3>1
    <2> QED
        BY <1>1, <2>1, <2>2
<1>6. Script(t) = s /\ phase \in 1..Len(P)
    BY <1>1, <1>2, <1>3, <1>5 DEF Script
<1>7. IsScript(s) /\ s \in Seq(Ops)
    <2>1. IsScript(s)
        BY <1>2, <1>6 DEF SafePhases
    <2> QED
        BY <2>1 DEF IsScript
<1> HIDE DEF s
<1>8. at[t] \in 1..Len(s) /\ Current(t) = s[at[t]] /\ Current(t) \in Ops
    <2>1. Len(s) \in Nat
        BY <1>7
    <2> QED
        BY <1>4, <1>6, <1>7, <2>1 DEF Current
<1>9. ~Refused(mix)
    <2> SUFFICES ASSUME Refused(mix) PROVE FALSE
        OBVIOUS
    <2>1. "main" \in raised /\ phase = 1
        BY DEF StartInv, RefusedInv
    <2>2. t = "policy"
        BY <1>4, <2>1 DEF PhaseThreads
    <2>3. P[1]["policy"] = <<>>
        BY <1>2, <1>6, <2>1 DEF SafePhases
    <2>4. s = <<>>
        BY <2>1, <2>2, <2>3 DEF s
    <2> QED
        BY <1>8, <2>4
<1>10. ASSUME Current(t).op = "start" PROVE HasDone("place", Current(t).group)
    <2> DEFINE i == at[t] - 1
    <2>1. at[t] > 1 /\ s[i] = Op("place", Current(t).group)
        BY <1>7, <1>8, <1>10 DEF IsScript, PlacedFirst
    <2>2. i \in 1..Len(s) /\ i < at[t]
        BY <1>8, <2>1
    <2> HIDE DEF i
    <2>3. Did(P, phase, at, Op("place", Current(t).group))
        BY <1>6, <2>1, <2>2 DEF Did, s
    <2> QED
        BY <2>3 DEF HasDone, P
<1>11. ASSUME Current(t).op = "port"
       PROVE  t = "main" /\ at[t] < Len(s) /\ s[at[t] + 1] = Op("connect", Current(t).group)
    <2>1. ~LooksForNoPort(s)
        BY <1>8, <1>11 DEF LooksForNoPort
    <2>2. LooksForNoPort(P[phase]["policy"])
        BY <1>2, <1>6 DEF SafePhases
    <2>3. t = "main"
        BY <2>1, <2>2 DEF s, PhaseThreads
    <2> QED
        BY <2>3, <1>7, <1>8, <1>11 DEF IsScript
<1> QED
    BY <1>5, <1>6, <1>7, <1>8, <1>9, <1>10, <1>11 DEF s, P

\* What the thread of the reward model has still to do.
LEMMA AboutReward ==
    ASSUME StartInv, ~Finished("reward")
    PROVE  /\ mix.rmGpus > 0
           /\ \/ at["reward"] = 1 /\ Current("reward") = Op("place", "reward")
              \/ at["reward"] = 2 /\ Current("reward") = Op("start", "reward")
<1>1. at["reward"] \in Nat \ {0}
    BY DEF StartInv, Shapes, Threads
<1>2. ~(at["reward"] > Len(RewardScript(mix)))
    BY DEF Finished, Script
<1>3. mix.rmGpus > 0
    <2>1. ASSUME ~(mix.rmGpus > 0) PROVE FALSE
        <3>1. RewardScript(mix) = <<>>
            BY <2>1 DEF RewardScript
        <3> QED
            BY <1>1, <1>2, <3>1
    <2> QED
        BY <2>1
<1>4. RewardScript(mix) = <<Op("place", "reward"), Op("start", "reward")>>
    BY <1>3 DEF RewardScript, StartOps
<1>5. Current("reward") = RewardScript(mix)[at["reward"]]
    BY DEF Current, Script
<1> HIDE DEF RewardScript
<1>6. at["reward"] \in {1, 2}
    BY <1>1, <1>2, <1>4
<1> QED
    BY <1>3, <1>4, <1>5, <1>6

\* What a turn of a thread does to the driver's positions.
LEMMA Turn ==
    ASSUME StartInv, NEW t \in Threads, ~Finished(t), UNCHANGED <<chosen, phase>>,
           Proceeds(t) \/ Raises(t)
    PROVE  /\ mix' = mix /\ chosen' \in DOMAIN Mixes
           /\ phase' \in Nat \ {0} /\ phase' <= Len(Phases(mix)) + 1
           /\ at' \in [Threads -> Nat \ {0}]
           /\ RefusedInv'
           /\ \A op : \A g \in GroupNames \ {"reward"} :
                 HasDone(op, g)' <=> (HasDone(op, g) \/ (Proceeds(t) /\ Current(t) = Op(op, g)))
           /\ at'["reward"] > 1 =>
                 at["reward"] > 1 \/ (Proceeds(t) /\ t = "reward" /\ Current(t) = Op("place", "reward"))
<1>1. /\ chosen \in DOMAIN Mixes /\ phase \in Nat \ {0} /\ phase <= Len(Phases(mix)) + 1
      /\ at \in [Threads -> Nat \ {0}]
    BY DEF StartInv, Shapes
<1>2. mix' = mix /\ chosen' = chosen /\ phase' = phase
    BY DEF mix
<1>3. at' \in [Threads -> Nat \ {0}]
    BY <1>1 DEF Proceeds, Raises
<1>4. RefusedInv'
    <2> SUFFICES ASSUME Refused(mix) PROVE "main" \in raised' /\ phase = 1 /\ at'["main"] = 1
        BY <1>2 DEF RefusedInv
    <2>1. "main" \in raised /\ phase = 1 /\ at["main"] = 1
        BY DEF StartInv, RefusedInv
    <2>2. t # "main"
        BY <2>1 DEF Finished
    <2> QED
        BY <1>1, <2>1, <2>2 DEF Proceeds, Raises, Threads
<1>5. CASE t = "reward"
    <2>1. \A u \in PhaseThreads : at'[u] = at[u]
        BY <1>1, <1>5 DEF Proceeds, Raises, PhaseThreads, Threads
    <2>2. ASSUME NEW op, NEW g \in GroupNames \ {"reward"} PROVE HasDone(op, g)' <=> HasDone(op, g)
        <3>1. Did(Phases(mix), phase, at', Op(op, g)) <=> Did(Phases(mix), phase, at, Op(op, g))
            BY <2>1 DEF Did
        <3> QED
            BY <1>2, <3>1 DEF HasDone
    <2>3. \A op : \A g \in GroupNames \ {"reward"} : Current(t) # Op(op, g)
        BY <1>5, AboutReward DEF Op
    <2>4. at'["reward"] > 1 =>
             at["reward"] > 1 \/ (Proceeds(t) /\ t = "reward" /\ Current(t) = Op("place", "reward"))
        <3>1. CASE Proceeds(t)
            BY <1>5, <3>1, AboutReward
        <3>2. CASE Raises(t)
            BY <3>2 DEF Raises
        <3> QED
            BY <3>1, <3>2
    <2> QED
        BY <1>1, <1>2, <1>3, <1>4, <2>2, <2>3, <2>4
<1>6. CASE t # "reward"
    <2>1. t \in PhaseThreads
        BY <1>6 DEF PhaseThreads, Threads
    <2> DEFINE P == Phases(mix)
    <2>2. /\ phase <= Len(P) /\ Len(P) \in Nat
          /\ P[phase][t] \in Seq(Ops) /\ at[t] \in 1..Len(P[phase][t]) /\ Current(t) = P[phase][t][at[t]]
        BY <2>1, AboutTo
    <2> HIDE DEF P
    <2>3. at'["reward"] = at["reward"]
        BY <1>1, <1>6 DEF Proceeds, Raises, Threads
    <2>4. CASE Proceeds(t)
        <3>1. at' = [at EXCEPT ![t] = @ + 1]
            BY <2>4 DEF Proceeds
        <3>2. \A o : Did(P, phase, [at EXCEPT ![t] = @ + 1], o) <=> (Did(P, phase, at, o) \/ o = P[phase][t][at[t]])
            BY <1>1, <2>1, <2>2, DidNext
        <3>3. ASSUME NEW op, NEW g \in GroupNames \ {"reward"}
              PROVE  HasDone(op, g)' <=> (HasDone(op, g) \/ Current(t) = Op(op, g))
            <4>1. Did(P, phase, at', Op(op, g)) <=> (Did(P, phase, at, Op(op, g)) \/ Op(op, g) = Current(t))
                BY <2>2, <3>1, <3>2
            <4> QED
                BY <1>2, <4>1 DEF HasDone, P
        <3> QED
            BY <1>1, <1>2, <1>3, <1>4, <2>3, <2>4, <3>3
    <2>5. CASE Raises(t)
        <3>1. at' = at
            BY <2>5 DEF Raises
        <3>2. ~Proceeds(t)
            BY <1>1, <3>1 DEF Proceeds
        <3>3. ASSUME NEW op, NEW g \in GroupNames \ {"reward"} PROVE HasDone(op, g)' <=> HasDone(op, g)
            BY <1>2, <3>1 DEF HasDone
        <3> QED
            BY <1>1, <1>2, <1>3, <1>4, <2>3, <3>2, <3>3
    <2> QED
        BY <2>4, <2>5
<1> QED
    BY <1>5, <1>6

\* What is told of a group by what its workers were told.
LEMMA Roster ==
    ASSUME NEW g \in GroupNames, chosen \in DOMAIN Mixes, UNCHANGED chosen,
           Told(crew', g) = Told(crew, g)
    PROVE  /\ Ranks(g)' = Ranks(g) /\ Leaders(g)' = Leaders(g)
           /\ Complete(g)' = Complete(g)
<1>1. DOMAIN Told(crew, g) = DOMAIN crew[g] /\ DOMAIN Told(crew', g) = DOMAIN crew'[g]
    BY DEF Told
<1>2. Ranks(g)' = Ranks(g)
    BY <1>1 DEF Ranks
<1>3. \A r \in DOMAIN crew[g] : crew[g][r].place = Told(crew, g)[r]
    BY DEF Told
<1>4. \A r \in DOMAIN crew'[g] : crew'[g][r].place = Told(crew', g)[r]
    BY DEF Told
<1>5. Leaders(g)' = Leaders(g)
    BY <1>1, <1>3, <1>4 DEF Leaders, Leads, Ranks
<1>6. Complete(g)' = Complete(g)
    BY <1>5 DEF Complete, TypeOf, Plans, ClusterRecord, ClusterNamed, mix
<1> QED
    BY <1>2, <1>5, <1>6

\* Bundles change with the placement of their cluster only.
LEMMA BundlesStay ==
    ASSUME NEW g, UNCHANGED chosen, placed'[ClusterOf(mix, g)] = placed[ClusterOf(mix, g)]
    PROVE  Bundles(g)' = Bundles(g)
BY DEF Bundles, TypeOf, ClusterRecord, ClusterNamed, Plans, mix

\* The driver: what of the invariant does not change with the workers.
LEMMA WorkersMove ==
    ASSUME StartInv, (\E g \in GroupNames : GroupStep(g)) \/ Fault
    PROVE  StartInv'
<1>1. UNCHANGED <<chosen, phase, at, raised, placed, asleep, ports, connected>>
    BY DEF GroupStep, Fault
<1>2. chosen \in DOMAIN Mixes /\ DOMAIN crew = GroupNames
      /\ \A g \in GroupNames : \A r \in DOMAIN crew[g] :
            DOMAIN crew[g][r] = {"at", "weights", "reference", "place"}
    BY DEF StartInv, Shapes
<1> DEFINE Keeps ==
             /\ DOMAIN crew' = GroupNames
             /\ \A h \in GroupNames :
                   /\ DOMAIN crew'[h] = DOMAIN crew[h]
                   /\ \A r \in DOMAIN crew[h] :
                         /\ DOMAIN crew'[h][r] = DOMAIN crew[h][r]
                         /\ crew'[h][r].place = crew[h][r].place
<1>3. Keeps
    <2>1. ASSUME NEW g \in GroupNames, CollectiveStep(g) PROVE Keeps
        <3>1. crew' = [crew EXCEPT ![g] = [r \in DOMAIN crew[g] |-> Advanced(g, r)]]
            BY <2>1 DEF CollectiveStep, Ranks
        <3>2. \A r \in DOMAIN crew[g] : /\ DOMAIN Advanced(g, r) = DOMAIN crew[g][r]
                                        /\ Advanced(g, r).place = crew[g][r].place
            BY <1>2 DEF Advanced, AfterStep
        <3> QED
            BY <1>2, <3>1, <3>2
    <2>2. ASSUME NEW g \in GroupNames, NEW r \in Ranks(g), StartActor(g, r) \/ WorkerFails(g, r)
          PROVE Keeps
        <3>1. \E v : crew' = [crew EXCEPT ![g][r].at = v]
            BY <2>2 DEF StartActor, WorkerFails
        <3> QED
            BY <1>2, <3>1 DEF Ranks
    <2>3. ASSUME NEW g \in GroupNames, NEW r \in Ranks(g), LocalStep(g, r) PROVE Keeps
        <3>1. \/ crew' = [crew EXCEPT ![g][r].at = Failed]
              \/ crew' = [crew EXCEPT ![g][r] = Advanced(g, r)]
            BY <2>3 DEF LocalStep
        <3>2. DOMAIN Advanced(g, r) = DOMAIN crew[g][r] /\ Advanced(g, r).place = crew[g][r].place
            BY <1>2 DEF Advanced, AfterStep, Ranks
        <3> QED
            BY <1>2, <3>1, <3>2 DEF Ranks
    <2> QED
        BY <2>1, <2>2, <2>3 DEF GroupStep, Fault
<1>4. \A g \in GroupNames : Told(crew', g) = Told(crew, g)
    BY <1>3 DEF Told
<1>5. \A g \in GroupNames : Ranks(g)' = Ranks(g) /\ Complete(g)' = Complete(g)
    BY <1>1, <1>2, <1>4, Roster
<1>6. mix' = mix /\ \A op, g : HasDone(op, g)' = HasDone(op, g)
    BY <1>1 DEF mix, HasDone
<1>7. \A c : PgsOf(c)' = PgsOf(c)
    BY <1>1 DEF PgsOf
<1>8. \A g : Bundles(g)' = Bundles(g)
    BY <1>1, BundlesStay
<1>9. Shapes'
    <2>1. Phases(mix)' = Phases(mix)
        BY <1>6
    <2>2. \A g \in GroupNames : \A r \in DOMAIN crew'[g] :
             DOMAIN crew'[g][r] = {"at", "weights", "reference", "place"}
        BY <1>2, <1>3
    <2> HIDE DEF Keeps
    <2>3. DOMAIN crew' = GroupNames
        BY <1>3 DEF Keeps
    <2> QED
        BY <1>1, <2>1, <2>2, <2>3 DEF StartInv, Shapes
<1>10. DoneInv' /\ MadeInv'
    <2>1. ASSUME NEW g \in EngineNames PROVE g \in GroupNames \ {"reward"}
        BY DEF EngineNames, GroupNames
    <2>2. DoneInv'
        BY <1>1, <1>5, <1>6, <1>7 DEF StartInv, DoneInv
    <2>3. MadeInv'
        BY <1>1, <1>5, <1>6 DEF StartInv, MadeInv
    <2> QED
        BY <2>2, <2>3
<1>11. RefusedInv' /\ RewardInv' /\ PlacedInv' /\ PortsInv'
    <2>1. "reward" \in GroupNames
        BY DEF GroupNames
    <2>2. RewardInv'
        BY <1>1, <1>5, <1>6, <1>7, <2>1 DEF StartInv, RewardInv
    <2> QED
        BY <1>1, <1>6, <1>7, <2>2 DEF StartInv, RefusedInv, PlacedInv, PortsInv
<1>12. CrewInv'
    BY <1>4, <1>5, <1>6, <1>7, <1>8 DEF StartInv, CrewInv
<1> QED
    BY <1>9, <1>10, <1>11, <1>12 DEF StartInv

\* The next phase keeps the invariant.
LEMMA PhaseMoves ==
    ASSUME StartInv, NextPhase
    PROVE  StartInv'
<1> DEFINE P == Phases(mix)
<1>1. /\ phase' = phase + 1 /\ at' = [at EXCEPT !["main"] = 1, !["policy"] = 1]
      /\ UNCHANGED <<chosen, raised, placed, crew, asleep, ports, connected, files, faults>>
      /\ ~Done /\ Joined /\ ~Failing
    BY DEF NextPhase
<1>2. /\ chosen \in DOMAIN Mixes /\ phase \in Nat \ {0} /\ phase <= Len(P) + 1
      /\ at \in [Threads -> Nat \ {0}]
    BY DEF StartInv, Shapes
<1>3. mix' = mix /\ Program = P /\ SafePhases(P, mix)
    BY <1>1, <1>2, PlanFacts DEF mix
<1> HIDE DEF P
<1>4. Len(P) \in Nat /\ phase \in 1..Len(P)
    BY <1>1, <1>2, <1>3 DEF Done, SafePhases
<1>5. \A t \in PhaseThreads : t \notin raised /\ at[t] > Len(Script(t)) /\ Script(t) = P[phase][t]
    BY <1>1, <1>2, <1>3, <1>4 DEF Failing, Joined, Finished, PhaseThreads, Script
<1>6. \A t \in PhaseThreads : P[phase][t] \in Seq(Ops) /\ at[t] > Len(P[phase][t])
    BY <1>3, <1>4, <1>5 DEF SafePhases, IsScript
<1>7. \A op, g : HasDone(op, g)' <=> HasDone(op, g)
    <2>1. phase \in Nat \ {0} /\ phase <= Len(P) /\ Len(P) \in Nat /\ at \in [Threads -> Nat \ {0}]
        BY <1>2, <1>4
    <2>2. \A o : Did(P, phase + 1, [at EXCEPT !["main"] = 1, !["policy"] = 1], o) <=> Did(P, phase, at, o)
        BY <1>6, <2>1, DidOn
    <2> QED
        BY <1>1, <1>3, <2>2 DEF HasDone, P
<1>8. at' \in [Threads -> Nat \ {0}] /\ at'["reward"] = at["reward"]
    BY <1>1, <1>2 DEF Threads
<1>9. \A g \in GroupNames : Ranks(g)' = Ranks(g) /\ Complete(g)' = Complete(g)
    BY <1>1, <1>2, Roster
<1>10. \A c : PgsOf(c)' = PgsOf(c)
    BY <1>1 DEF PgsOf
<1>11. \A g : Bundles(g)' = Bundles(g)
    BY <1>1, BundlesStay
<1>12. Shapes'
    <2>1. phase' \in Nat \ {0} /\ phase' <= Len(P) + 1
        BY <1>1, <1>2, <1>4
    <2>2. Phases(mix)' = P
        BY <1>3 DEF P
    <2> QED
        BY <1>1, <1>8, <2>1, <2>2 DEF StartInv, Shapes
<1>13. RefusedInv'
    <2>1. ~Refused(mix)
        BY <1>5 DEF StartInv, RefusedInv, PhaseThreads
    <2> QED
        BY <1>3, <2>1 DEF RefusedInv
<1>14. DoneInv'
    BY <1>1, <1>3, <1>7, <1>9, <1>10 DEF StartInv, DoneInv
<1>15. MadeInv'
    BY <1>1, <1>7, <1>9 DEF StartInv, MadeInv
<1>16. RewardInv' /\ PlacedInv'
    <2>1. "reward" \in GroupNames
        BY DEF GroupNames
    <2> QED
        BY <1>1, <1>3, <1>8, <1>9, <1>10, <2>1 DEF StartInv, RewardInv, PlacedInv
<1>17. CrewInv'
    BY <1>1, <1>3, <1>9, <1>10, <1>11 DEF StartInv, CrewInv
<1>18. PortsInv'
    <2>1. ASSUME NEW g \in EngineNames, ports[g] # 0 PROVE g \in connected
        <3>1. Len(P[phase]["main"]) \in Nat /\ at["main"] > Len(P[phase]["main"]) /\ at["main"] \in Nat
            BY <1>2, <1>6 DEF PhaseThreads, Threads
        <3> QED
            BY <2>1, <3>1 DEF StartInv, PortsInv, P
    <2> QED
        BY <1>1, <2>1 DEF StartInv, PortsInv
<1> QED
    BY <1>12, <1>13, <1>14, <1>15, <1>16, <1>17, <1>18 DEF StartInv

-----------------------------------------------------------------------------
(* Placing and starting. *)

\* A cluster that a group asks for has nodes, and they have devices.
LEMMA ClusterIsReal ==
    ASSUME NEW conf, IsMix(conf), NEW g \in GroupNames, Fits(conf, g),
           g = "reward" => conf.rmGpus > 0, g # "reward" => ~Refused(conf)
    PROVE  /\ Clusters(conf)[ClusterOf(conf, g)].nodes \in Nat \ {0}
           /\ Clusters(conf)[ClusterOf(conf, g)].perNode \in Nat \ {0}
<1>1. /\ conf.nodes \in Nat \ {0} /\ conf.gpus \in Nat \ {0} /\ conf.mp \in Nat \ {0}
      /\ conf.infNodes \in Nat /\ conf.infGpus \in Nat /\ conf.rmNodes \in Nat /\ conf.rmGpus \in Nat
      /\ conf.rmGpus > 0 => conf.rmNodes > 0
      /\ conf.rmNodes > 0 => conf.program = "grpo"
      /\ conf.program \notin {"grpo", "distillation"} => conf.colocated
    BY DEF IsMix
<1>2. CASE g = "reward"
    <2>1. ClusterOf(conf, g) = "reward"
        BY <1>2 DEF ClusterOf, EngineNames
    <2>2. Clusters(conf)["reward"] = Cluster(conf.rmNodes, conf.rmGpus, 1)
        BY DEF Clusters
    <2> QED
        BY <1>1, <1>2, <2>1, <2>2 DEF Cluster
<1>3. CASE g # "reward" /\ g \in EngineNames /\ ~conf.colocated
    <2>1. ClusterOf(conf, g) = "inference"
        BY <1>3 DEF ClusterOf
    <2>2. Clusters(conf)["inference"] =
              Cluster(IF PolicyNodes(conf) = 1 THEN 1 ELSE conf.infNodes, conf.infGpus, EngineCapacity(conf))
        BY DEF Clusters
    <2>3. ~SplitRefused(conf)
        BY <1>1, <1>3 DEF Refused
    <2> QED
        BY <1>1, <2>1, <2>2, <2>3 DEF Cluster, SplitRefused
<1>4. CASE g # "reward" /\ ~(g \in EngineNames /\ ~conf.colocated)
    <2>1. ClusterOf(conf, g) = "train"
        BY <1>4 DEF ClusterOf
    <2>2. /\ Clusters(conf)["train"].nodes = TrainNodes(conf)
          /\ Clusters(conf)["train"].perNode = TrainGpus(conf)
        BY DEF Clusters, Cluster
    <2>3. PolicyNodes(conf) \in Nat \ {0}
        <3>1. PolicyNodes(conf) \in Int
            BY <1>1 DEF PolicyNodes
        <3>2. conf.program = "grpo" => ~(PolicyNodes(conf) <= 0)
            BY <1>4 DEF Refused
        <3>3. conf.program # "grpo" => PolicyNodes(conf) = conf.nodes
            BY <1>1 DEF PolicyNodes
        <3> QED
            BY <1>1, <3>1, <3>2, <3>3
    <2>4. CASE conf.colocated
        <3>1. TrainNodes(conf) = PolicyNodes(conf)
            BY <2>4 DEF TrainNodes
        <3>2. TrainGpus(conf) = conf.gpus - RewardShare(conf) /\ RewardShare(conf) \in Nat
            BY <1>1, <2>4 DEF TrainGpus, RewardShare
        <3>3. conf.program = "grpo" => ~(TrainGpus(conf) <= 0)
            BY <1>4, <2>4 DEF Refused
        <3>4. conf.program # "grpo" => RewardShare(conf) = 0
            BY <1>1 DEF RewardShare
        <3> QED
            BY <1>1, <2>1, <2>2, <2>3, <3>1, <3>2, <3>3, <3>4
    <2>5. CASE ~conf.colocated
        <3>1. ~SplitRefused(conf)
            BY <1>1, <1>4, <2>5 DEF Refused
        <3>2. CASE PolicyNodes(conf) = 1
            <4>1. TrainNodes(conf) = 1
                BY <3>2 DEF TrainNodes
            <4>2. TrainGpus(conf) = conf.gpus - conf.infGpus - RewardShare(conf)
                BY <2>5, <3>2 DEF TrainGpus
            <4>3. RewardShare(conf) \in Nat /\ ~(TrainGpus(conf) <= 0)
                BY <1>1, <3>1, <3>2 DEF RewardShare, SplitRefused
            <4> QED
                BY <1>1, <2>1, <2>2, <4>1, <4>2, <4>3
        <3>3. CASE PolicyNodes(conf) # 1
            <4>1. TrainNodes(conf) = PolicyNodes(conf) - conf.infNodes
                BY <2>5, <3>3 DEF TrainNodes
            <4>2. TrainGpus(conf) = conf.gpus
                <5>1. PolicyNodes(conf) > 1
                    BY <2>3, <3>3
                <5> QED
                    BY <1>1, <2>5, <5>1 DEF TrainGpus
            <4>3. TrainNodes(conf) * conf.gpus >= conf.mp
                <5>1. g # "reward" /\ g \notin EngineNames
                    BY <1>4, <2>5
                <5>2. WorldSize(Clusters(conf)["train"]) >= conf.mp
                    BY <2>1, <5>1 DEF Fits
                <5> QED
                    BY <2>2, <4>2, <5>2 DEF WorldSize
            <4>4. \A n \in Int : \A p, m \in Nat \ {0} : n * p >= m => n > 0
                OBVIOUS
            <4>5. TrainNodes(conf) \in Int
                BY <1>1, <2>3, <4>1
            <4> QED
                BY <1>1, <2>1, <2>2, <4>2, <4>3, <4>4, <4>5
        <3> QED
            BY <3>2, <3>3
    <2> QED
        BY <2>4, <2>5
<1> QED
    BY <1>2, <1>3, <1>4

\* A placement among few devices is one among more.
LEMMA PlacedWithin ==
    ASSUME NEW pgs, NEW cluster, NEW D, NEW E, D \subseteq E, PlacedOn(pgs, cluster, D)
    PROVE  PlacedOn(pgs, cluster, E)
<1>1. PICK m \in Nat \ {0}, p \in Nat \ {0} :
          /\ pgs \in [1..m -> [1..p -> D]]
          /\ m * p = WorldSize(cluster)
          /\ \A i \in 1..m : \A a, b \in 1..p : a # b => pgs[i][a] # pgs[i][b]
    BY DEF PlacedOn
<1>2. pgs \in [1..m -> [1..p -> E]]
    BY <1>1
<1> QED
    BY <1>1, <1>2 DEF PlacedOn

\* The devices of a placement are those it was made among.
LEMMA PlacedDevices ==
    ASSUME NEW pgs, NEW cluster, NEW D, PlacedOn(pgs, cluster, D)
    PROVE  DevicesIn(pgs) \subseteq D
<1>1. PICK m \in Nat \ {0}, p \in Nat \ {0} : pgs \in [1..m -> [1..p -> D]]
    BY DEF PlacedOn
<1> QED
    BY <1>1 DEF DevicesIn, Range

\* How many bundles make a tied group.
SizeOf(g) == IF IsEngine(TypeOf(g)) THEN mix.gmp ELSE 1

\* The bundles of every group are devices of its cluster.
LEMMA BundlesAreTied ==
    ASSUME StartInv, NEW g \in GroupNames, PgsOf(ClusterOf(mix, g)) # <<>>, Bundles(g) # <<>>
    PROVE  /\ PlacedOn(PgsOf(ClusterOf(mix, g)), Clusters(mix)[ClusterOf(mix, g)], Machine(mix))
           /\ AreTied(Bundles(g), PgsOf(ClusterOf(mix, g)), SizeOf(g)) /\ SizeOf(g) \in Nat \ {0}
           /\ ~IsEngine(TypeOf(g)) => Len(Bundles(g)) = WorldSize(ClusterRecord(g))
<1> DEFINE c == ClusterOf(mix, g)
           pgs == PgsOf(c)
           cluster == Clusters(mix)[c]
<1>0. /\ chosen \in DOMAIN Mixes /\ c \in DOMAIN placed
      /\ PlacedOn(pgs, cluster, Machine(mix))
      /\ placed[c].unified \in BOOLEAN /\ placed[c].unified => Len(pgs) = 1
    <2>1. chosen \in DOMAIN Mixes /\ c \in DOMAIN placed
        BY DEF StartInv, Shapes, ClusterOf
    <2> QED
        BY <2>1 DEF StartInv, PlacedInv
<1>1. IsMix(mix) /\ ClusterRecord(g) = cluster /\ mix.gmp \in Nat \ {0}
    BY <1>0, PlanFacts DEF IsMix
<1>2. PlacedOn(pgs, cluster, Devices)
    <2>1. Machine(mix) \subseteq Devices
        <3>1. mix.nodes \in Nat /\ mix.gpus \in Nat
            BY <1>1 DEF IsMix
        <3>2. 1..mix.nodes \subseteq Nat /\ 1..mix.gpus \subseteq Nat
            BY <3>1
        <3> QED
            BY <3>2 DEF Machine, Devices
    <2> HIDE DEF c, pgs, cluster
    <2>2. PlacedOn(pgs, cluster, Machine(mix))
        BY <1>0 DEF pgs, cluster
    <2> QED
        BY <2>1, <2>2, PlacedWithin
<1>3. Bundles(g) = CASE ~IsEngine(TypeOf(g)) -> PolicyBundles(cluster, pgs, placed[c].unified)
                     [] TypeOf(g).kind = "vllm" -> EngineBundles(pgs, mix.gmp)
                     [] OTHER -> ServerBundles(pgs, mix.gmp, WorldSize(cluster) \div mix.gmp)
    BY <1>1 DEF Bundles, PgsOf
<1> HIDE DEF c, pgs, cluster
<1>4. ASSUME ~IsEngine(TypeOf(g))
      PROVE  /\ AreTied(Bundles(g), pgs, SizeOf(g)) /\ SizeOf(g) \in Nat \ {0}
             /\ Len(Bundles(g)) = WorldSize(cluster)
    <2>1. /\ Bundles(g) = PolicyBundles(cluster, pgs, placed[c].unified)
          /\ SizeOf(g) = 1 /\ SizeOf(g) \in Nat \ {0}
        BY <1>3, <1>4 DEF SizeOf, IsEngine
    <2>2. CASE placed[c].unified
        <3>1. placed[c].unified = TRUE /\ Len(pgs) = 1
            BY <1>0, <2>2 DEF c, pgs, cluster
        <3>2. /\ AreTied(PolicyBundles(cluster, pgs, TRUE), pgs, 1)
              /\ Len(PolicyBundles(cluster, pgs, TRUE)) = WorldSize(cluster)
            BY <1>2, <3>1, SortedPolicyIsTied
        <3>3. Bundles(g) = PolicyBundles(cluster, pgs, TRUE)
            BY <2>1, <2>2 DEF PolicyBundles
        <3> QED
            BY <2>1, <3>2, <3>3
    <2>3. CASE ~placed[c].unified
        <3>1. placed[c].unified = FALSE
            BY <2>3
        <3>2. /\ AreTied(PolicyBundles(cluster, pgs, FALSE), pgs, 1)
              /\ Len(PolicyBundles(cluster, pgs, FALSE)) = WorldSize(cluster)
            BY <1>2, PolicyBundlesAreTied
        <3>3. Bundles(g) = PolicyBundles(cluster, pgs, FALSE)
            BY <2>1, <2>3 DEF PolicyBundles
        <3> QED
            BY <2>1, <3>2, <3>3
    <2> QED
        BY <2>2, <2>3
<1>5. ASSUME IsEngine(TypeOf(g)), TypeOf(g).kind = "vllm"
      PROVE  AreTied(Bundles(g), pgs, SizeOf(g)) /\ SizeOf(g) \in Nat \ {0}
    <2>1. Bundles(g) = EngineBundles(pgs, mix.gmp) /\ SizeOf(g) = mix.gmp
        BY <1>3, <1>5 DEF SizeOf
    <2>2. EngineBundles(pgs, mix.gmp) # <<>>
        BY <2>1
    <2>3. AreTied(EngineBundles(pgs, mix.gmp), pgs, mix.gmp)
        BY <1>1, <1>2, <2>2, EngineBundlesAreTied
    <2> QED
        BY <1>1, <2>1, <2>3
<1>6. ASSUME IsEngine(TypeOf(g)), TypeOf(g).kind # "vllm"
      PROVE  AreTied(Bundles(g), pgs, SizeOf(g)) /\ SizeOf(g) \in Nat \ {0}
    <2> DEFINE servers == WorldSize(cluster) \div mix.gmp
    <2>1. Bundles(g) = ServerBundles(pgs, mix.gmp, servers) /\ SizeOf(g) = mix.gmp
        BY <1>3, <1>6 DEF SizeOf
    <2>2. servers \in Nat
        <3>1. WorldSize(cluster) \in Nat
            <4>1. \A a, b \in Nat \ {0} : a * b \in Nat
                OBVIOUS
            <4> QED
                BY <1>2, <4>1 DEF PlacedOn
        <3> QED
            BY <1>1, <3>1, Division
    <2> HIDE DEF servers
    <2>3. ServerBundles(pgs, mix.gmp, servers) # <<>>
        BY <2>1
    <2>4. AreTied(ServerBundles(pgs, mix.gmp, servers), pgs, mix.gmp)
        BY <1>1, <1>2, <2>2, <2>3, ServerBundlesAreTied
    <2> QED
        BY <1>1, <2>1, <2>4
<1>7. /\ AreTied(Bundles(g), pgs, SizeOf(g)) /\ SizeOf(g) \in Nat \ {0}
      /\ ~IsEngine(TypeOf(g)) => Len(Bundles(g)) = WorldSize(ClusterRecord(g))
    BY <1>1, <1>4, <1>5, <1>6
<1>8. PlacedOn(pgs, cluster, Machine(mix))
    BY <1>0
<1> QED
    BY <1>7, <1>8 DEF c, pgs, cluster

\* The workers that a start makes.
LEMMA WorkersOfBundles ==
    ASSUME StartInv, NEW g \in GroupNames, PgsOf(ClusterOf(mix, g)) # <<>>, Bundles(g) # <<>>
    PROVE  LET pgs == PgsOf(ClusterOf(mix, g))
               workers == Workers(Bundles(g), pgs)
               n == Len(Bundles(g))
               size == SizeOf(g)
           IN  /\ n \in Nat \ {0} /\ size \in Nat \ {0} /\ DOMAIN workers = 1..(n * size)
               /\ \A i \in 1..(n * size) :
                     /\ workers[i].shard = (i - 1) \div size
                     /\ workers[i].leader = ((i - 1) % size = 0)
                     /\ workers[i].device \in DevicesIn(pgs)
               /\ ~IsEngine(TypeOf(g)) => n = WorldSize(ClusterRecord(g))
<1> DEFINE c == ClusterOf(mix, g)
           pgs == PgsOf(c)
           tied == Bundles(g)
           size == SizeOf(g)
<1>2. PlacedOn(pgs, Clusters(mix)[c], Machine(mix))
    BY BundlesAreTied
<1>3. /\ AreTied(tied, pgs, size) /\ size \in Nat \ {0}
      /\ ~IsEngine(TypeOf(g)) => Len(tied) = WorldSize(ClusterRecord(g))
    BY BundlesAreTied
<1>4. tied # <<>>
    OBVIOUS
<1> HIDE DEF pgs, tied, size
<1>5. PICK m \in Nat \ {0}, p \in Nat \ {0} : pgs \in [1..m -> [1..p -> Machine(mix)]]
    BY <1>2 DEF PlacedOn
<1> DEFINE workers == Workers(tied, pgs)
           n == Len(tied)
<1>6. /\ n \in Nat \ {0} /\ DOMAIN workers = 1..(n * size)
      /\ \A i \in 1..(n * size) :
            /\ workers[i].shard = (i - 1) \div size
            /\ workers[i].leader = ((i - 1) % size = 0)
            /\ \E k \in DOMAIN pgs : workers[i].device \in Range(pgs[k])
    <2>1. p \in Nat
        OBVIOUS
    <2> QED
        BY <1>3, <1>4, <1>5, <2>1, WorkersOnTied
<1> HIDE DEF workers, n
<1>7. \A i \in 1..(n * size) : workers[i].device \in DevicesIn(pgs)
    BY <1>6 DEF DevicesIn
<1> QED
    BY <1>3, <1>6, <1>7 DEF workers, n, pgs, tied, size, c

-----------------------------------------------------------------------------
(* The operations of the driver. *)

\* The same, for a thread that is about to do operation o on group g.
LEMMA TurnOn ==
    ASSUME StartInv, NEW t \in Threads, ~Finished(t), UNCHANGED <<chosen, phase>>,
           Proceeds(t) \/ Raises(t), NEW o, NEW g, Current(t) = Op(o, g)
    PROVE  /\ mix' = mix /\ chosen' \in DOMAIN Mixes
           /\ phase' \in Nat \ {0} /\ phase' <= Len(Phases(mix)) + 1
           /\ at' \in [Threads -> Nat \ {0}]
           /\ RefusedInv'
           /\ \A op : \A h \in GroupNames \ {"reward"} :
                 HasDone(op, h)' <=> (HasDone(op, h) \/ (Proceeds(t) /\ op = o /\ h = g))
           /\ at'["reward"] > 1 => at["reward"] > 1 \/ (Proceeds(t) /\ o = "place" /\ g = "reward")
<1>1. /\ mix' = mix /\ chosen' \in DOMAIN Mixes
      /\ phase' \in Nat \ {0} /\ phase' <= Len(Phases(mix)) + 1
      /\ at' \in [Threads -> Nat \ {0}]
      /\ RefusedInv'
      /\ \A op : \A h \in GroupNames \ {"reward"} :
            HasDone(op, h)' <=> (HasDone(op, h) \/ (Proceeds(t) /\ Current(t) = Op(op, h)))
      /\ at'["reward"] > 1 =>
            at["reward"] > 1 \/ (Proceeds(t) /\ t = "reward" /\ Current(t) = Op("place", "reward"))
    BY Turn
<1>2. \A op, h : Current(t) = Op(op, h) <=> (op = o /\ h = g)
    BY DEF Op
<1> QED
    BY <1>1, <1>2

\* A port that is found is bound by the next step of the thread that found it.
LEMMA PortsKeep ==
    ASSUME StartInv, NEW t \in Threads, ~Finished(t), UNCHANGED <<chosen, phase, ports>>,
           Proceeds(t) \/ Raises(t), connected \subseteq connected',
           (Proceeds(t) /\ Current(t).op = "connect") => Current(t).group \in connected'
    PROVE  PortsInv'
<1>1. mix' = mix /\ at \in [Threads -> Nat \ {0}]
    BY DEF mix, StartInv, Shapes
<1>2. ASSUME NEW g \in EngineNames, ports[g] # 0
      PROVE  \/ g \in connected'
             \/ /\ phase <= Len(Phases(mix)) /\ at'["main"] > 1
                /\ at'["main"] <= Len(Phases(mix)[phase]["main"])
                /\ Phases(mix)[phase]["main"][at'["main"]] = Op("connect", g)
    <2>1. CASE g \in connected
        BY <2>1
    <2>2. CASE g \notin connected
        <3>1. /\ phase <= Len(Phases(mix)) /\ at["main"] > 1
              /\ at["main"] <= Len(Phases(mix)[phase]["main"])
              /\ Phases(mix)[phase]["main"][at["main"]] = Op("connect", g)
            BY <1>2, <2>2 DEF StartInv, PortsInv
        <3>2. CASE at'["main"] = at["main"]
            BY <3>1, <3>2
        <3>3. CASE at'["main"] # at["main"]
            <4>1. t = "main" /\ Proceeds(t)
                BY <1>1, <3>3 DEF Proceeds, Raises, Threads
            <4>2. Current(t) = Phases(mix)[phase][t][at[t]]
                BY <4>1, AboutTo DEF PhaseThreads
            <4>3. Current(t).op = "connect" /\ Current(t).group = g
                BY <3>1, <4>1, <4>2 DEF Op
            <4> QED
                BY <4>1, <4>3
        <3> QED
            BY <3>2, <3>3
    <2> QED
        BY <2>1, <2>2
<1>3. \A g, h \in EngineNames : (g # h /\ ports[g] # 0 /\ ports[h] # 0) => ports[g] # ports[h]
    BY DEF StartInv, PortsInv
<1> QED
    BY <1>1, <1>2, <1>3 DEF PortsInv

\* What Ray gives a cluster.
LEMMA NewPlacement ==
    ASSUME NEW cluster, cluster.nodes \in Nat \ {0}, cluster.perNode \in Nat \ {0},
           NEW strategy, NEW free, NEW unified \in BOOLEAN,
           NEW pgs \in Placements(cluster, strategy, unified, free)
    PROVE  PlacedOn(pgs, cluster, free) /\ pgs # <<>> /\ (unified => Len(pgs) = 1)
<1>1. CASE unified
    <2>1. pgs \in Placements(cluster, strategy, TRUE, free)
        BY <1>1 DEF Placements
    <2> QED
        BY <1>1, <2>1, PlacementsTogether
<1>2. CASE ~unified
    <2>1. pgs \in Placements(cluster, strategy, FALSE, free)
        BY <1>2 DEF Placements
    <2> QED
        BY <1>2, <2>1, PlacementsApart
<1> QED
    BY <1>1, <1>2

\* A device is free when no cluster holds it.
LEMMA Free == FreeDevices = Machine(mix) \ UNION {DevicesIn(PgsOf(d)) : d \in DOMAIN placed}
BY DEF FreeDevices, DevicesIn, PgsOf

\* The group that an operation is on.
LEMMA OperatedOn ==
    ASSUME StartInv, NEW t \in Threads, ~Finished(t)
    PROVE  \E op \in {"place", "start", "wait", "sleep", "port", "connect"}, g \in GroupNames :
               /\ Current(t) = Op(op, g)
               /\ g = "reward" => t = "reward" /\ mix.rmGpus > 0 /\ op \in {"place", "start"}
               /\ g # "reward" => t \in PhaseThreads /\ ~Refused(mix)
<1>1. CASE t = "reward"
    <2>1. Current(t) \in {Op("place", "reward"), Op("start", "reward")} /\ mix.rmGpus > 0
        BY <1>1, AboutReward
    <2>2. "reward" \in GroupNames
        BY DEF GroupNames
    <2> QED
        BY <1>1, <2>1, <2>2
<1>2. CASE t # "reward"
    <2>1. t \in PhaseThreads
        BY <1>2 DEF PhaseThreads, Threads
    <2>2. Current(t) \in Ops /\ ~Refused(mix)
        BY <2>1, AboutTo
    <2>3. PICK op \in {"place", "start", "wait", "sleep", "port", "connect"}, g \in GroupNames \ {"reward"} :
              Current(t) = Op(op, g)
        BY <2>2 DEF Ops, Op
    <2> QED
        BY <2>1, <2>2, <2>3
<1> QED
    BY <1>1, <1>2

\* Placing a cluster keeps the invariant.
LEMMA Placing ==
    ASSUME StartInv, NEW t \in Threads, ~Finished(t), UNCHANGED <<chosen, phase>>,
           NEW g \in GroupNames, Current(t) = Op("place", g), Place(t, g),
           g = "reward" => t = "reward" /\ mix.rmGpus > 0, g # "reward" => ~Refused(mix)
    PROVE  StartInv'
<1>1. PICK c : c = ClusterOf(mix, g)
    OBVIOUS
<1>2. /\ UNCHANGED <<crew, asleep, ports, connected>>
      /\ Proceeds(t) \/ Raises(t)
      /\ \/ placed' = placed /\ (Raises(t) \/ PgsOf(c) # <<>>)
         \/ /\ PgsOf(c) = <<>> /\ Fits(mix, g)
            /\ \E pgs \in Placements(ClusterRecord(g), Strategy(mix, g), NeedsUnified(mix, g), FreeDevices) :
                  placed' = [placed EXCEPT ![c] = [pgs |-> pgs, unified |-> NeedsUnified(mix, g)]]
    BY <1>1 DEF Place, PgsOf
<1>3. /\ chosen \in DOMAIN Mixes /\ DOMAIN placed = {"train", "inference", "reward"} /\ c \in DOMAIN placed
      /\ \A d \in DOMAIN placed : DOMAIN placed[d] = {"pgs", "unified"}
      /\ at \in [Threads -> Nat \ {0}]
    BY <1>1 DEF StartInv, Shapes, ClusterOf
<1>4. /\ mix' = mix /\ chosen' \in DOMAIN Mixes
      /\ phase' \in Nat \ {0} /\ phase' <= Len(Phases(mix)) + 1
      /\ at' \in [Threads -> Nat \ {0}] /\ RefusedInv'
      /\ \A op : \A h \in GroupNames \ {"reward"} :
            HasDone(op, h)' <=> (HasDone(op, h) \/ (Proceeds(t) /\ op = "place" /\ h = g))
      /\ at'["reward"] > 1 => at["reward"] > 1 \/ (Proceeds(t) /\ "place" = "place" /\ g = "reward")
    BY <1>2, TurnOn
<1>5. Raises(t) => ~Proceeds(t)
    BY <1>3 DEF Raises, Proceeds
<1>6. /\ DOMAIN placed' = DOMAIN placed
      /\ \A d \in DOMAIN placed : (PgsOf(d) # <<>> \/ d # c) => placed'[d] = placed[d]
      /\ \A d \in DOMAIN placed : DOMAIN placed'[d] = {"pgs", "unified"}
    BY <1>2, <1>3 DEF PgsOf
<1> DEFINE Gets ==
             /\ PgsOf(c) = <<>> /\ Fits(mix, g)
             /\ \E pgs \in Placements(ClusterRecord(g), Strategy(mix, g), NeedsUnified(mix, g), FreeDevices) :
                  placed' = [placed EXCEPT ![c] = [pgs |-> pgs, unified |-> NeedsUnified(mix, g)]]
<1>7. ASSUME Gets
      PROVE  /\ PgsOf(c) = <<>> /\ placed'[c].pgs # <<>>
             /\ PlacedOn(placed'[c].pgs, Clusters(mix)[c], FreeDevices)
             /\ placed'[c].unified \in BOOLEAN
             /\ placed'[c].unified => Len(placed'[c].pgs) = 1
    <2>1. /\ PgsOf(c) = <<>> /\ Fits(mix, g)
          /\ \E pgs \in Placements(ClusterRecord(g), Strategy(mix, g), NeedsUnified(mix, g), FreeDevices) :
                  placed' = [placed EXCEPT ![c] = [pgs |-> pgs, unified |-> NeedsUnified(mix, g)]]
        BY <1>7
    <2> DEFINE cluster == Clusters(mix)[c]
               unified == NeedsUnified(mix, g)
    <2>2. IsMix(mix) /\ ClusterRecord(g) = cluster
        BY <1>1, <1>3, PlanFacts
    <2>3. cluster.nodes \in Nat \ {0} /\ cluster.perNode \in Nat \ {0}
        BY <1>1, <2>1, <2>2, ClusterIsReal DEF cluster
    <2>4. unified \in BOOLEAN
        BY DEF NeedsUnified
    <2> HIDE DEF cluster, unified
    <2>5. PICK pgs \in Placements(cluster, Strategy(mix, g), unified, FreeDevices) :
              placed' = [placed EXCEPT ![c] = [pgs |-> pgs, unified |-> unified]]
        BY <2>1, <2>2 DEF unified
    <2>6. PlacedOn(pgs, cluster, FreeDevices) /\ pgs # <<>> /\ (unified => Len(pgs) = 1)
        BY <2>3, <2>4, NewPlacement
    <2>7. placed'[c] = [pgs |-> pgs, unified |-> unified]
        BY <1>3, <2>5
    <2>8. placed'[c].pgs = pgs
        BY <2>7
    <2> QED
        BY <2>1, <2>4, <2>6, <2>7, <2>8 DEF cluster
<1>8. \A d \in DOMAIN placed : PgsOf(d) # <<>> \/ d # c => placed'[d].pgs = PgsOf(d)
    BY <1>6 DEF PgsOf
<1>19. (placed' = placed /\ (Raises(t) \/ PgsOf(c) # <<>>)) \/ Gets
    BY <1>2
<1> HIDE DEF Gets
<1>9. Proceeds(t) => placed'[c].pgs # <<>>
    <2>1. CASE placed' = placed /\ (Raises(t) \/ PgsOf(c) # <<>>)
        BY <1>5, <2>1 DEF PgsOf
    <2>2. CASE Gets
        BY <1>7, <2>2
    <2> QED
        BY <1>19, <2>1, <2>2
<1>10. \A h \in GroupNames : Ranks(h)' = Ranks(h) /\ Complete(h)' = Complete(h)
    BY <1>2, <1>3, Roster
<1>11. \A h \in GroupNames : ClusterOf(mix, h) \in DOMAIN placed
    BY <1>3 DEF ClusterOf
<1>12. Shapes'
    <2>1. ports \in [EngineNames -> Nat] /\ DOMAIN crew = GroupNames
          /\ \A h \in GroupNames : \A r \in DOMAIN crew[h] :
                DOMAIN crew[h][r] = {"at", "weights", "reference", "place"}
        BY DEF StartInv, Shapes
    <2>2. Phases(mix)' = Phases(mix)
        BY <1>4
    <2> QED
        BY <1>2, <1>3, <1>4, <1>6, <2>1, <2>2 DEF Shapes
<1>13. DoneInv'
    <2> SUFFICES ASSUME NEW h \in GroupNames \ {"reward"}
                 PROVE  /\ HasDone("place", h)' => placed'[ClusterOf(mix, h)].pgs # <<>>
                        /\ HasDone("start", h)' => Ranks(h)' # {}
                        /\ HasDone("sleep", h)' => h \in asleep'
                        /\ (HasDone("wait", h)' /\ h \in EngineNames /\ ~mix.colocated /\ mix.gen = "vllm")
                              => Ranks(h)' # {} /\ Complete(h)'
        BY <1>4 DEF DoneInv, PgsOf
    <2>1. /\ HasDone("start", h)' <=> HasDone("start", h)
          /\ HasDone("sleep", h)' <=> HasDone("sleep", h)
          /\ HasDone("wait", h)' <=> HasDone("wait", h)
        BY <1>4
    <2>2. HasDone("place", h)' => HasDone("place", h) \/ (Proceeds(t) /\ h = g)
        BY <1>4
    <2>3. HasDone("place", h) => placed'[ClusterOf(mix, h)].pgs # <<>>
        BY <1>8, <1>11 DEF StartInv, DoneInv
    <2>4. HasDone("place", h)' => placed'[ClusterOf(mix, h)].pgs # <<>>
        BY <1>1, <1>9, <2>2, <2>3
    <2> QED
        BY <1>2, <1>10, <2>1, <2>4 DEF StartInv, DoneInv
<1>14. MadeInv'
    <2>1. EngineNames \subseteq GroupNames \ {"reward"}
        BY DEF EngineNames, GroupNames
    <2> QED
        BY <1>2, <1>4, <1>10, <2>1 DEF StartInv, MadeInv
<1>15. RewardInv'
    <2>1. "reward" \in GroupNames /\ "reward" \in DOMAIN placed /\ ClusterOf(mix, "reward") = "reward"
        BY <1>3 DEF GroupNames, ClusterOf, EngineNames
    <2>2. placed'["reward"].pgs # <<>> => mix.rmGpus > 0
        <3>1. CASE c = "reward"
            <4>1. g = "reward"
                BY <1>1, <3>1 DEF ClusterOf
            <4> QED
                BY <1>1, <4>1
        <3>2. CASE c # "reward"
            BY <1>8, <2>1, <3>2 DEF StartInv, RewardInv
        <3> QED
            BY <3>1, <3>2
    <2>3. at'["reward"] > 1 => placed'["reward"].pgs # <<>>
        <3>1. CASE at["reward"] > 1
            BY <1>8, <2>1, <3>1 DEF StartInv, RewardInv
        <3>2. CASE Proceeds(t) /\ g = "reward"
            BY <1>1, <1>9, <2>1, <3>2
        <3> QED
            BY <1>4, <3>1, <3>2
    <2> QED
        BY <1>4, <1>10, <2>1, <2>2, <2>3 DEF StartInv, RewardInv, PgsOf
<1>16. PlacedInv'
    <2>1. CASE placed' = placed
        BY <1>4, <2>1 DEF StartInv, PlacedInv, PgsOf
    <2>2. CASE Gets
        <3>1. PlacedOn(placed'[c].pgs, Clusters(mix)[c], Machine(mix)) /\ DevicesIn(placed'[c].pgs) \subseteq FreeDevices
            <4>1. FreeDevices \subseteq Machine(mix) /\ PlacedOn(placed'[c].pgs, Clusters(mix)[c], FreeDevices)
                BY <1>7, <2>2, Free
            <4> QED
                BY <4>1, PlacedWithin, PlacedDevices
        <3>2. ASSUME NEW d \in DOMAIN placed, d # c
              PROVE  DevicesIn(placed'[c].pgs) \intersect DevicesIn(PgsOf(d)) = {}
            BY <3>1, Free
        <3>3. ASSUME NEW d \in DOMAIN placed, placed'[d].pgs # <<>>
              PROVE  /\ PlacedOn(placed'[d].pgs, Clusters(mix)[d], Machine(mix))
                     /\ placed'[d].unified \in BOOLEAN
                     /\ placed'[d].unified => Len(placed'[d].pgs) = 1
            <4>1. CASE d = c
                BY <1>7, <2>2, <3>1, <4>1
            <4>2. CASE d # c
                <5>1. placed'[d] = placed[d] /\ placed'[d].pgs = PgsOf(d)
                    BY <1>6, <1>8, <4>2
                <5> QED
                    BY <3>3, <5>1 DEF StartInv, PlacedInv
            <4> QED
                BY <4>1, <4>2
        <3>4. ASSUME NEW d \in DOMAIN placed, NEW e \in DOMAIN placed, d # e
              PROVE  DevicesIn(placed'[d].pgs) \intersect DevicesIn(placed'[e].pgs) = {}
            <4>1. \A f \in DOMAIN placed : f # c => placed'[f].pgs = PgsOf(f)
                BY <1>8
            <4>2. CASE d = c
                BY <3>2, <3>4, <4>1, <4>2
            <4>3. CASE e = c
                BY <3>2, <3>4, <4>1, <4>3
            <4>4. CASE d # c /\ e # c
                BY <3>4, <4>1, <4>4 DEF StartInv, PlacedInv
            <4> QED
                BY <4>2, <4>3, <4>4
        <3> QED
            BY <1>4, <1>6, <3>3, <3>4 DEF PlacedInv, PgsOf
    <2> QED
        BY <1>19, <2>1, <2>2
<1>17. CrewInv'
    <2> SUFFICES ASSUME NEW h \in GroupNames, Ranks(h) # {}
                 PROVE  /\ placed'[ClusterOf(mix, h)].pgs # <<>>
                        /\ Bundles(h)' # <<>>
                        /\ Told(crew, h) = Workers(Bundles(h)', placed'[ClusterOf(mix, h)].pgs)
        BY <1>2, <1>4, <1>10 DEF CrewInv, PgsOf
    <2>1. PgsOf(ClusterOf(mix, h)) # <<>>
        BY DEF StartInv, CrewInv
    <2>2. placed'[ClusterOf(mix, h)] = placed[ClusterOf(mix, h)] /\ placed'[ClusterOf(mix, h)].pgs = PgsOf(ClusterOf(mix, h))
        BY <1>4, <1>6, <1>8, <1>11, <2>1
    <2>3. Bundles(h)' = Bundles(h)
        BY <2>2, BundlesStay
    <2> QED
        BY <2>2, <2>3 DEF StartInv, CrewInv
<1>18. PortsInv'
    <2>1. Current(t).op # "connect" /\ UNCHANGED ports /\ connected \subseteq connected'
        BY <1>2 DEF Op
    <2> QED
        BY <1>2, <2>1, PortsKeep
<1> QED
    BY <1>4, <1>12, <1>13, <1>14, <1>15, <1>16, <1>17, <1>18 DEF StartInv

\* What the invariant says of a driver that leaves the clusters and the ports as they are.
LEMMA ClustersStay ==
    ASSUME StartInv, NEW t \in Threads, ~Finished(t), UNCHANGED <<chosen, phase, placed, ports, connected>>,
           Proceeds(t) \/ Raises(t), NEW o \in {"start", "wait", "sleep"}, NEW g \in GroupNames,
           Current(t) = Op(o, g),
           DOMAIN crew' = GroupNames,
           \A h \in GroupNames : \A r \in DOMAIN crew'[h] :
              DOMAIN crew'[h][r] = {"at", "weights", "reference", "place"}
    PROVE  /\ mix' = mix /\ Shapes' /\ RefusedInv' /\ PlacedInv' /\ PortsInv'
           /\ at'["reward"] > 1 => PgsOf("reward") # <<>>
           /\ \A c : PgsOf(c)' = PgsOf(c)
           /\ \A h : Bundles(h)' = Bundles(h)
           /\ \A op : \A h \in GroupNames \ {"reward"} :
                 HasDone(op, h)' <=> (HasDone(op, h) \/ (Proceeds(t) /\ op = o /\ h = g))
<1>1. /\ mix' = mix /\ chosen' \in DOMAIN Mixes
      /\ phase' \in Nat \ {0} /\ phase' <= Len(Phases(mix)) + 1
      /\ at' \in [Threads -> Nat \ {0}]
      /\ RefusedInv'
      /\ \A op : \A h \in GroupNames \ {"reward"} :
            HasDone(op, h)' <=> (HasDone(op, h) \/ (Proceeds(t) /\ op = o /\ h = g))
      /\ at'["reward"] > 1 => at["reward"] > 1 \/ (Proceeds(t) /\ o = "place" /\ g = "reward")
    BY TurnOn
<1>2. \A c : PgsOf(c)' = PgsOf(c)
    BY DEF PgsOf
<1>3. \A h : Bundles(h)' = Bundles(h)
    BY BundlesStay
<1>4. Shapes'
    <2>1. Phases(mix)' = Phases(mix)
        BY <1>1
    <2> QED
        BY <1>1, <2>1 DEF StartInv, Shapes
<1>5. PlacedInv'
    BY <1>1, <1>2 DEF StartInv, PlacedInv
<1>6. PortsInv'
    <2>1. Current(t).op # "connect" /\ connected \subseteq connected'
        BY DEF Op
    <2> QED
        BY <2>1, PortsKeep
<1>7. at'["reward"] > 1 => PgsOf("reward") # <<>>
    BY <1>1 DEF StartInv, RewardInv
<1> QED
    BY <1>1, <1>2, <1>3, <1>4, <1>5, <1>6, <1>7

\* Starting the workers of a group keeps the invariant.
LEMMA Starting ==
    ASSUME StartInv, NEW t \in Threads, ~Finished(t), UNCHANGED <<chosen, phase>>,
           NEW g \in GroupNames, Current(t) = Op("start", g), Start(t, g),
           g = "reward" => t = "reward" /\ mix.rmGpus > 0, g # "reward" => t \in PhaseThreads
    PROVE  StartInv'
<1>1. PICK pgs : pgs = PgsOf(ClusterOf(mix, g))
    OBVIOUS
<1>2. /\ UNCHANGED <<placed, asleep, ports, connected>>
      /\ \/ Bundles(g) = <<>> /\ Raises(t) /\ crew' = crew
         \/ Bundles(g) # <<>> /\ Proceeds(t) /\ crew' = [crew EXCEPT ![g] = NewCrew(Workers(Bundles(g), pgs))]
    BY <1>1 DEF Start, PgsOf
<1>3. /\ chosen \in DOMAIN Mixes /\ DOMAIN crew = GroupNames /\ at \in [Threads -> Nat \ {0}]
      /\ \A h \in GroupNames : \A r \in DOMAIN crew[h] :
            DOMAIN crew[h][r] = {"at", "weights", "reference", "place"}
    BY DEF StartInv, Shapes
<1>4. NewCrew(Workers(Bundles(g), pgs))
         = [r \in DOMAIN Workers(Bundles(g), pgs) |-> NewWorker(Workers(Bundles(g), pgs)[r])]
    BY DEF NewCrew
<1>5. /\ DOMAIN crew' = GroupNames
      /\ \A h \in GroupNames : h # g => crew'[h] = crew[h]
      /\ \A h \in GroupNames : \A r \in DOMAIN crew'[h] :
            DOMAIN crew'[h][r] = {"at", "weights", "reference", "place"}
    BY <1>2, <1>3, <1>4 DEF NewWorker
<1>6. /\ mix' = mix /\ Shapes' /\ RefusedInv' /\ PlacedInv' /\ PortsInv'
      /\ at'["reward"] > 1 => PgsOf("reward") # <<>>
      /\ \A c : PgsOf(c)' = PgsOf(c)
      /\ \A h : Bundles(h)' = Bundles(h)
      /\ \A op : \A h \in GroupNames \ {"reward"} :
            HasDone(op, h)' <=> (HasDone(op, h) \/ (Proceeds(t) /\ op = "start" /\ h = g))
    <2>1. UNCHANGED <<chosen, phase, placed, ports, connected>> /\ (Proceeds(t) \/ Raises(t))
        BY <1>2
    <2>2. "start" \in {"start", "wait", "sleep"}
        OBVIOUS
    <2> QED
        BY <1>5, <2>1, <2>2, ClustersStay
<1>7. pgs # <<>> \/ (crew' = crew /\ ~Proceeds(t))
    <2> SUFFICES ASSUME ~(crew' = crew /\ ~Proceeds(t)) PROVE pgs # <<>>
        OBVIOUS
    <2>1. CASE g = "reward"
        <3>1. at["reward"] > 1
            <4>1. Current("reward") = Op("start", "reward")
                BY <2>1
            <4>2. at["reward"] = 2
                BY <2>1, <4>1, AboutReward DEF Op
            <4> QED
                BY <4>2
        <3>2. ClusterOf(mix, g) = "reward"
            BY <2>1 DEF ClusterOf, EngineNames
        <3> QED
            BY <1>1, <3>1, <3>2 DEF StartInv, RewardInv
    <2>2. CASE g # "reward"
        <3>1. Current(t).op = "start" /\ Current(t).group = g
            BY DEF Op
        <3>2. HasDone("place", g)
            BY <2>2, <3>1, AboutTo
        <3> QED
            BY <1>1, <2>2, <3>2 DEF StartInv, DoneInv
    <2> QED
        BY <2>1, <2>2
<1>8. Proceeds(t) => ~Raises(t)
    BY <1>3 DEF Raises, Proceeds
<1>9. ASSUME Proceeds(t)
      PROVE  /\ pgs # <<>> /\ Bundles(g) # <<>> /\ crew'[g] = NewCrew(Workers(Bundles(g), pgs))
             /\ Told(crew', g) = Workers(Bundles(g), pgs) /\ Ranks(g)' # {}
    <2>1. pgs # <<>> /\ Bundles(g) # <<>> /\ crew'[g] = NewCrew(Workers(Bundles(g), pgs))
        BY <1>2, <1>3, <1>7, <1>8, <1>9
    <2>2. PICK workers : workers = Workers(Bundles(g), pgs)
        OBVIOUS
    <2>3. workers = [r \in DOMAIN workers |-> workers[r]]
        BY <2>2 DEF Workers
    <2>4. 1 \in DOMAIN workers
        <3>1. PgsOf(ClusterOf(mix, g)) # <<>>
            BY <1>1, <2>1
        <3>2. PICK n \in Nat \ {0}, size \in Nat \ {0} :
                  DOMAIN Workers(Bundles(g), PgsOf(ClusterOf(mix, g))) = 1..(n * size)
            BY <2>1, <3>1, WorkersOfBundles
        <3>3. n * size \in Nat \ {0}
            BY \A a, b \in Nat \ {0} : a * b \in Nat \ {0}
        <3> QED
            BY <1>1, <2>2, <3>2, <3>3
    <2>5. crew'[g] = [r \in DOMAIN workers |-> NewWorker(workers[r])]
        BY <1>4, <2>1, <2>2
    <2>6. DOMAIN crew'[g] = DOMAIN workers /\ \A r \in DOMAIN workers : crew'[g][r].place = workers[r]
        BY <2>5 DEF NewWorker
    <2>7. Told(crew', g) = workers
        BY <2>3, <2>6 DEF Told
    <2> QED
        BY <2>1, <2>2, <2>4, <2>6, <2>7 DEF Ranks
<1>10. \A h \in GroupNames : h # g \/ ~Proceeds(t) => crew'[h] = crew[h] /\ Told(crew', h) = Told(crew, h)
    <2>1. ~Proceeds(t) => crew' = crew
        BY <1>2
    <2> QED
        BY <1>5, <2>1 DEF Told
<1>11. ASSUME NEW h \in GroupNames, Ranks(h) # {}
       PROVE  Ranks(h)' = Ranks(h) /\ Complete(h)' = Complete(h)
    <2>1. Told(crew', h) = Told(crew, h)
        <3>1. CASE h # g \/ ~Proceeds(t)
            BY <1>10, <3>1
        <3>2. CASE h = g /\ Proceeds(t)
            BY <1>1, <1>9, <1>11, <3>2 DEF StartInv, CrewInv
        <3> QED
            BY <3>1, <3>2
    <2> QED
        BY <1>3, <2>1, Roster
<1>12. ASSUME NEW h \in GroupNames, Ranks(h)' # {}
       PROVE  Ranks(h) # {} \/ (h = g /\ Proceeds(t))
    BY <1>10, <1>12 DEF Ranks
<1>13. DoneInv'
    <2> SUFFICES ASSUME NEW h \in GroupNames \ {"reward"}
                 PROVE  /\ HasDone("place", h)' => PgsOf(ClusterOf(mix, h)) # <<>>
                        /\ HasDone("start", h)' => Ranks(h)' # {}
                        /\ HasDone("sleep", h)' => h \in asleep
                        /\ (HasDone("wait", h)' /\ h \in EngineNames /\ ~mix.colocated /\ mix.gen = "vllm")
                              => Ranks(h)' # {} /\ Complete(h)'
        BY <1>2, <1>6 DEF DoneInv
    <2>1. /\ HasDone("place", h)' <=> HasDone("place", h)
          /\ HasDone("sleep", h)' <=> HasDone("sleep", h)
          /\ HasDone("wait", h)' <=> HasDone("wait", h)
          /\ HasDone("start", h)' => HasDone("start", h) \/ (Proceeds(t) /\ h = g)
        BY <1>6
    <2>2. HasDone("start", h)' => Ranks(h)' # {}
        BY <1>9, <1>11, <2>1 DEF StartInv, DoneInv
    <2> QED
        BY <1>11, <2>1, <2>2 DEF StartInv, DoneInv
<1>14. MadeInv'
    <2>1. EngineNames \subseteq GroupNames \ {"reward"}
        BY DEF EngineNames, GroupNames
    <2> QED
        BY <1>2, <1>6, <1>12, <2>1 DEF StartInv, MadeInv
<1>15. RewardInv'
    <2>1. "reward" \in GroupNames
        BY DEF GroupNames
    <2>2. (Ranks("reward")' # {} \/ PgsOf("reward") # <<>>) => mix.rmGpus > 0
        BY <1>12, <2>1 DEF StartInv, RewardInv
    <2> QED
        BY <1>6, <2>2 DEF RewardInv
<1>16. CrewInv'
    <2> SUFFICES ASSUME NEW h \in GroupNames, Ranks(h)' # {}
                 PROVE  /\ PgsOf(ClusterOf(mix, h)) # <<>>
                        /\ Bundles(h) # <<>>
                        /\ Told(crew', h) = Workers(Bundles(h), PgsOf(ClusterOf(mix, h)))
        BY <1>6 DEF CrewInv
    <2>1. CASE h = g /\ Proceeds(t)
        BY <1>1, <1>9, <2>1
    <2>2. CASE ~(h = g /\ Proceeds(t))
        BY <1>10, <1>12, <2>2 DEF StartInv, CrewInv
    <2> QED
        BY <2>1, <2>2
<1> QED
    BY <1>6, <1>13, <1>14, <1>15, <1>16 DEF StartInv

\* The devices of the rollout engines that have their own.
LEMMA InferenceIsReal ==
    ASSUME NEW conf, IsMix(conf), ~Refused(conf), ~conf.colocated
    PROVE  /\ Clusters(conf)["inference"].nodes \in Nat \ {0}
           /\ Clusters(conf)["inference"].perNode \in Nat \ {0}
           /\ WorldSize(Clusters(conf)["inference"]) \in Nat \ {0}
<1>1. ~SplitRefused(conf)
    BY DEF IsMix, Refused
<1> DEFINE one == PolicyNodes(conf) = 1
<1>2. conf.infGpus \in Nat /\ conf.infNodes \in Nat /\ conf.gpus \in Nat \ {0}
    BY DEF IsMix
<1>3. /\ Clusters(conf)["inference"].nodes = IF one THEN 1 ELSE conf.infNodes
      /\ Clusters(conf)["inference"].perNode = conf.infGpus
    BY DEF Clusters, Cluster
<1>4. /\ one => conf.infGpus # 0
      /\ ~one => conf.infNodes # 0 /\ conf.infGpus = conf.gpus
    BY <1>1 DEF SplitRefused
<1> HIDE DEF one
<1>5. /\ Clusters(conf)["inference"].nodes \in Nat \ {0}
      /\ Clusters(conf)["inference"].perNode \in Nat \ {0}
    BY <1>2, <1>3, <1>4
<1>6. \A a, b \in Nat \ {0} : a * b \in Nat \ {0}
    OBVIOUS
<1> QED
    BY <1>5, <1>6 DEF WorldSize

\* A complete engine group has workers.
LEMMA CompleteIsCreated ==
    ASSUME StartInv, NEW g \in EngineNames, ~mix.colocated, mix.gen = "vllm", ~Refused(mix), Complete(g)
    PROVE  /\ Ranks(g) # {}
           /\ Cardinality(Leaders(g)) * mix.gmp = WorldSize(Clusters(mix)["inference"])
<1>1. chosen \in DOMAIN Mixes
    BY DEF StartInv, Shapes
<1>2. /\ IsMix(mix) /\ g \in GroupNames /\ TypeOf(g) = Group(mix, g)
      /\ ClusterRecord(g) = Clusters(mix)[ClusterOf(mix, g)]
    BY <1>1, PlanFacts DEF EngineNames, GroupNames
<1>3. ClusterOf(mix, g) = "inference"
    BY DEF ClusterOf, EngineNames
<1>4. TypeOf(g).kind = "vllm" /\ TypeOf(g).size = mix.gmp
    BY <1>2 DEF Group, PolicyGroup, EngineNames
<1>5. Cardinality(Leaders(g)) * mix.gmp = WorldSize(Clusters(mix)["inference"])
    BY <1>2, <1>3, <1>4 DEF Complete
<1>6. WorldSize(Clusters(mix)["inference"]) \in Nat \ {0} /\ mix.gmp \in Nat \ {0}
    BY <1>2, InferenceIsReal DEF IsMix
<1>7. ASSUME Ranks(g) = {} PROVE FALSE
    <2>1. Leaders(g) = {}
        BY <1>7 DEF Leaders
    <2>2. Cardinality(Leaders(g)) = 0
        BY <2>1, FS_EmptySet
    <2> QED
        BY <1>5, <1>6, <2>2
<1> QED
    BY <1>5, <1>7

\* Awaiting a group, or putting it to sleep, keeps the invariant.
LEMMA AwaitedOrAsleep ==
    ASSUME StartInv, NEW t \in Threads, ~Finished(t), UNCHANGED <<chosen, phase>>,
           NEW g \in GroupNames, g # "reward", ~Refused(mix), NEW o, Current(t) = Op(o, g),
           (o = "wait" /\ Wait(t, g, FALSE)) \/ (o = "sleep" /\ Wait(t, g, TRUE))
    PROVE  StartInv'
<1>1. /\ UNCHANGED <<placed, crew, ports, connected>>
      /\ o \in {"wait", "sleep"}
      /\ \/ Raises(t) /\ UNCHANGED asleep
         \/ /\ Complete(g) /\ Proceeds(t)
            /\ asleep' = IF o = "sleep" THEN asleep \union {g} ELSE asleep
    BY DEF Wait
<1>2. /\ chosen \in DOMAIN Mixes /\ DOMAIN crew = GroupNames /\ at \in [Threads -> Nat \ {0}]
      /\ \A h \in GroupNames : \A r \in DOMAIN crew[h] :
            DOMAIN crew[h][r] = {"at", "weights", "reference", "place"}
    BY DEF StartInv, Shapes
<1>3. /\ mix' = mix /\ Shapes' /\ RefusedInv' /\ PlacedInv' /\ PortsInv'
      /\ at'["reward"] > 1 => PgsOf("reward") # <<>>
      /\ \A c : PgsOf(c)' = PgsOf(c)
      /\ \A h : Bundles(h)' = Bundles(h)
      /\ \A op : \A h \in GroupNames \ {"reward"} :
            HasDone(op, h)' <=> (HasDone(op, h) \/ (Proceeds(t) /\ op = o /\ h = g))
    <2>1. o \in {"start", "wait", "sleep"} /\ (Proceeds(t) \/ Raises(t))
        BY <1>1
    <2>2. UNCHANGED <<chosen, phase, placed, ports, connected>>
        BY <1>1
    <2>3. /\ DOMAIN crew' = GroupNames
          /\ \A h \in GroupNames : \A r \in DOMAIN crew'[h] :
               DOMAIN crew'[h][r] = {"at", "weights", "reference", "place"}
        BY <1>1, <1>2
    <2> QED
        BY <2>1, <2>2, <2>3, ClustersStay
<1>4. Proceeds(t) => ~Raises(t)
    BY <1>2 DEF Raises, Proceeds
<1>5. \A h \in GroupNames : Ranks(h)' = Ranks(h) /\ Complete(h)' = Complete(h) /\ Told(crew', h) = Told(crew, h)
    <2>1. \A h \in GroupNames : Told(crew', h) = Told(crew, h)
        BY <1>1
    <2> QED
        BY <1>2, <2>1, Roster
<1>6. /\ asleep \subseteq asleep'
      /\ (Proceeds(t) /\ o = "sleep") => g \in asleep'
      /\ Proceeds(t) => Complete(g)
    BY <1>1, <1>4
<1>7. DoneInv'
    <2> SUFFICES ASSUME NEW h \in GroupNames \ {"reward"}
                 PROVE  /\ HasDone("place", h)' => PgsOf(ClusterOf(mix, h)) # <<>>
                        /\ HasDone("start", h)' => Ranks(h) # {}
                        /\ HasDone("sleep", h)' => h \in asleep'
                        /\ (HasDone("wait", h)' /\ h \in EngineNames /\ ~mix.colocated /\ mix.gen = "vllm")
                              => Ranks(h) # {} /\ Complete(h)
        BY <1>3, <1>5 DEF DoneInv
    <2>1. /\ HasDone("place", h)' <=> HasDone("place", h)
          /\ HasDone("start", h)' <=> HasDone("start", h)
        BY <1>1, <1>3
    <2>2. HasDone("sleep", h)' => HasDone("sleep", h) \/ (Proceeds(t) /\ o = "sleep" /\ h = g)
        BY <1>3
    <2>3. HasDone("wait", h)' => HasDone("wait", h) \/ (Proceeds(t) /\ h = g)
        BY <1>3
    <2>4. HasDone("sleep", h)' => h \in asleep'
        BY <1>6, <2>2 DEF StartInv, DoneInv
    <2>5. ASSUME HasDone("wait", h)', h \in EngineNames, ~mix.colocated, mix.gen = "vllm"
          PROVE  Ranks(h) # {} /\ Complete(h)
        <3>1. CASE HasDone("wait", h)
            BY <2>5, <3>1 DEF StartInv, DoneInv
        <3>2. CASE Proceeds(t) /\ h = g
            BY <1>6, <2>5, <3>2, CompleteIsCreated
        <3> QED
            BY <2>3, <2>5, <3>1, <3>2
    <2> QED
        BY <2>1, <2>4, <2>5 DEF StartInv, DoneInv
<1>8. MadeInv'
    <2>1. EngineNames \subseteq GroupNames \ {"reward"}
        BY DEF EngineNames, GroupNames
    <2> QED
        BY <1>1, <1>3, <1>5, <2>1 DEF StartInv, MadeInv
<1>9. RewardInv'
    <2>1. "reward" \in GroupNames
        BY DEF GroupNames
    <2> QED
        BY <1>3, <1>5, <2>1 DEF StartInv, RewardInv
<1>10. CrewInv'
    BY <1>3, <1>5 DEF StartInv, CrewInv
<1> QED
    BY <1>3, <1>7, <1>8, <1>9, <1>10 DEF StartInv

\* A step of a thread that does nothing to the clusters, the groups and their workers.
LEMMA Connections ==
    ASSUME StartInv, NEW t \in Threads, ~Finished(t),
           UNCHANGED <<chosen, phase, placed, crew, asleep>>,
           Proceeds(t) \/ Raises(t), NEW g \in GroupNames, NEW o \in {"port", "connect"},
           Current(t) = Op(o, g), ports' \in [EngineNames -> Nat],
           \A h \in EngineNames : ports'[h] # 0 => ports[h] # 0 \/ (o = "port" /\ Proceeds(t) /\ h = g),
           PortsInv'
    PROVE  StartInv'
<1>1. /\ mix' = mix /\ chosen' \in DOMAIN Mixes
      /\ phase' \in Nat \ {0} /\ phase' <= Len(Phases(mix)) + 1
      /\ at' \in [Threads -> Nat \ {0}]
      /\ RefusedInv'
      /\ \A op : \A h \in GroupNames \ {"reward"} :
            HasDone(op, h)' <=> (HasDone(op, h) \/ (Proceeds(t) /\ op = o /\ h = g))
      /\ at'["reward"] > 1 => at["reward"] > 1 \/ (Proceeds(t) /\ o = "place" /\ g = "reward")
    BY TurnOn
<1>2. \A c : PgsOf(c)' = PgsOf(c)
    BY DEF PgsOf
<1>3. \A h : Bundles(h)' = Bundles(h)
    BY BundlesStay
<1>4. \A h \in GroupNames : Ranks(h)' = Ranks(h) /\ Complete(h)' = Complete(h) /\ Told(crew', h) = Told(crew, h)
    <2>1. chosen \in DOMAIN Mixes /\ \A h \in GroupNames : Told(crew', h) = Told(crew, h)
        BY DEF StartInv, Shapes
    <2> QED
        BY <2>1, Roster
<1>5. Shapes'
    <2>1. Phases(mix)' = Phases(mix)
        BY <1>1
    <2> QED
        BY <1>1, <2>1 DEF StartInv, Shapes
<1>6. \A h \in GroupNames \ {"reward"} :
         /\ HasDone("place", h)' <=> HasDone("place", h)
         /\ HasDone("start", h)' <=> HasDone("start", h)
         /\ HasDone("sleep", h)' <=> HasDone("sleep", h)
         /\ HasDone("wait", h)' <=> HasDone("wait", h)
    BY <1>1
<1>7. DoneInv'
    BY <1>1, <1>2, <1>4, <1>6 DEF StartInv, DoneInv
<1>8. MadeInv'
    <2>1. EngineNames \subseteq GroupNames \ {"reward"}
        BY DEF EngineNames, GroupNames
    <2>2. \A h \in EngineNames : ports'[h] # 0 => HasDone("port", h)'
        BY <1>1, <2>1 DEF StartInv, MadeInv
    <2> QED
        BY <1>4, <1>6, <2>2 DEF StartInv, MadeInv
<1>9. RewardInv'
    <2>1. "reward" \in GroupNames
        BY DEF GroupNames
    <2>2. at'["reward"] > 1 => at["reward"] > 1
        BY <1>1
    <2> QED
        BY <1>1, <1>2, <1>4, <2>1, <2>2 DEF StartInv, RewardInv
<1>10. PlacedInv' /\ CrewInv'
    BY <1>1, <1>2, <1>3, <1>4 DEF StartInv, PlacedInv, CrewInv
<1> QED
    BY <1>1, <1>5, <1>7, <1>8, <1>9, <1>10 DEF StartInv

\* Finding a port keeps the invariant.
LEMMA FindingPort ==
    ASSUME StartInv, NEW t \in PhaseThreads, ~Finished(t), UNCHANGED <<chosen, phase>>,
           NEW g \in GroupNames, Current(t) = Op("port", g), FindPort(t, g)
    PROVE  StartInv'
<1>1. PICK p \in Ports \ {ports[h] : h \in connected} : ports' = [ports EXCEPT ![g] = p]
    BY DEF FindPort
<1>2. /\ Proceeds(t) /\ UNCHANGED <<placed, crew, asleep, connected>>
      /\ ports \in [EngineNames -> Nat] /\ at \in [Threads -> Nat \ {0}] /\ phase \in Nat \ {0}
    BY DEF FindPort, StartInv, Shapes
<1>3. p \in Nat \ {0} /\ ports' \in [EngineNames -> Nat]
      /\ \A h \in EngineNames : ports'[h] = IF h = g THEN p ELSE ports[h]
    <2>1. p \in 1..3
        BY DEF Ports
    <2>2. p \in Nat \ {0} /\ p \in Nat
        BY <2>1
    <2> QED
        BY <1>1, <1>2, <2>2
<1>4. Current(t).op = "port" /\ Current(t).group = g
    BY DEF Op
<1> DEFINE s == Phases(mix)[phase][t]
<1>5. /\ phase \in 1..Len(Phases(mix)) /\ Len(Phases(mix)) \in Nat
      /\ s \in Seq(Ops) /\ at[t] \in 1..Len(s) /\ Current(t) = s[at[t]]
      /\ t = "main" /\ at[t] < Len(s) /\ s[at[t] + 1] = Op("connect", Current(t).group)
    BY <1>4, AboutTo
<1>6. t \in Threads /\ mix' = mix /\ at' = [at EXCEPT ![t] = @ + 1]
    BY <1>2 DEF PhaseThreads, Threads, mix, Proceeds
<1> HIDE DEF s
<1>7. /\ at'["main"] = at["main"] + 1 /\ at'["main"] > 1 /\ at'["main"] <= Len(s)
      /\ s[at'["main"]] = Op("connect", g)
    <2>1. at["main"] \in Nat \ {0} /\ Len(s) \in Nat
        BY <1>2, <1>5, <1>6
    <2> QED
        BY <1>2, <1>4, <1>5, <1>6, <2>1
<1>8. ASSUME NEW h \in EngineNames, ports[h] # 0 PROVE h \in connected
    <2>1. \/ h \in connected
          \/ Phases(mix)[phase]["main"][at["main"]] = Op("connect", h)
        BY <1>8 DEF StartInv, PortsInv
    <2>2. Phases(mix)[phase]["main"][at["main"]] # Op("connect", h)
        BY <1>4, <1>5 DEF Op, s
    <2> QED
        BY <2>1, <2>2
<1>9. ASSUME NEW h \in EngineNames, ports'[h] # 0
      PROVE  \/ h \in connected'
             \/ /\ phase' <= Len(Phases(mix)') /\ at'["main"] > 1
                /\ at'["main"] <= Len(Phases(mix)'[phase']["main"])
                /\ Phases(mix)'[phase']["main"][at'["main"]] = Op("connect", h)
    <2>1. Phases(mix)' = Phases(mix) /\ Phases(mix)[phase]["main"] = s /\ phase <= Len(Phases(mix))
        BY <1>5, <1>6 DEF s
    <2>2. CASE h = g
        BY <1>7, <2>1, <2>2
    <2>3. CASE h # g
        BY <1>2, <1>3, <1>8, <1>9, <2>3
    <2> QED
        BY <2>2, <2>3
<1>10. ASSUME NEW h \in EngineNames, NEW k \in EngineNames, h # k, ports'[h] # 0, ports'[k] # 0
       PROVE  ports'[h] # ports'[k]
    <2>1. ASSUME NEW l \in EngineNames, l # g, ports'[l] # 0 PROVE ports'[l] # p
        <3>1. ports'[l] = ports[l] /\ l \in connected
            BY <1>3, <1>8, <2>1
        <3> QED
            BY <1>1, <3>1
    <2>2. CASE h = g
        BY <1>3, <1>10, <2>1, <2>2
    <2>3. CASE k = g
        BY <1>3, <1>10, <2>1, <2>3
    <2>4. CASE h # g /\ k # g
        BY <1>3, <1>10, <2>4 DEF StartInv, PortsInv
    <2> QED
        BY <2>2, <2>3, <2>4
<1>11. PortsInv'
    BY <1>9, <1>10 DEF PortsInv
<1>12. \A h \in EngineNames : ports'[h] # 0 => ports[h] # 0 \/ ("port" = "port" /\ Proceeds(t) /\ h = g)
    BY <1>2, <1>3
<1>13. "port" \in {"port", "connect"} /\ (Proceeds(t) \/ Raises(t))
       /\ UNCHANGED <<chosen, phase, placed, crew, asleep>>
    BY <1>2
<1> QED
    BY <1>3, <1>6, <1>11, <1>12, <1>13, Connections

\* Forming a collective keeps the invariant.
LEMMA Connecting ==
    ASSUME StartInv, NEW t \in Threads, ~Finished(t), UNCHANGED <<chosen, phase>>,
           NEW g \in GroupNames, Current(t) = Op("connect", g), Connect(t, g)
    PROVE  StartInv'
<1>1. /\ UNCHANGED <<placed, crew, asleep, ports>> /\ connected \subseteq connected'
      /\ Proceeds(t) \/ Raises(t)
    BY DEF Connect
<1>2. at \in [Threads -> Nat \ {0}] /\ ports \in [EngineNames -> Nat]
    BY DEF StartInv, Shapes
<1>3. Proceeds(t) => ~Raises(t)
    BY <1>2 DEF Raises, Proceeds
<1>4. (Proceeds(t) /\ Current(t).op = "connect") => Current(t).group \in connected'
    <2>1. Current(t).group = g
        BY DEF Op
    <2>2. Proceeds(t) => g \in connected'
        BY <1>3 DEF Connect
    <2> QED
        BY <2>1, <2>2
<1>5. PortsInv'
    BY <1>1, <1>4, PortsKeep
<1>6. /\ ports' \in [EngineNames -> Nat]
      /\ \A h \in EngineNames : ports'[h] # 0 => ports[h] # 0 \/ ("connect" = "port" /\ Proceeds(t) /\ h = g)
      /\ "connect" \in {"port", "connect"}
      /\ UNCHANGED <<chosen, phase, placed, crew, asleep>>
    BY <1>1, <1>2
<1> QED
    BY <1>1, <1>5, <1>6, Connections

\* Every operation of a thread keeps the invariant.
LEMMA ThreadMoves ==
    ASSUME StartInv, NEW t \in Threads, ThreadStep(t)
    PROVE  StartInv'
<1>1. ~Finished(t) /\ UNCHANGED <<chosen, phase, files, faults>>
    BY DEF ThreadStep
<1>2. PICK op \in {"place", "start", "wait", "sleep", "port", "connect"}, g \in GroupNames :
          /\ Current(t) = Op(op, g)
          /\ g = "reward" => t = "reward" /\ mix.rmGpus > 0 /\ op \in {"place", "start"}
          /\ g # "reward" => t \in PhaseThreads /\ ~Refused(mix)
    BY <1>1, OperatedOn
<1>3. Current(t).op = op /\ Current(t).group = g
    BY <1>2 DEF Op
<1>4. CASE op = "place"
    <2>1. Place(t, g)
        BY <1>3, <1>4 DEF ThreadStep
    <2> QED
        BY <1>1, <1>2, <1>4, <2>1, Placing
<1>5. CASE op = "start"
    <2>1. Start(t, g)
        BY <1>3, <1>5 DEF ThreadStep
    <2> QED
        BY <1>1, <1>2, <1>5, <2>1, Starting
<1>6. CASE op = "wait"
    <2>1. Wait(t, g, FALSE) /\ g # "reward"
        BY <1>2, <1>3, <1>6 DEF ThreadStep
    <2> QED
        BY <1>1, <1>2, <1>6, <2>1, AwaitedOrAsleep
<1>7. CASE op = "sleep"
    <2>1. Wait(t, g, TRUE) /\ g # "reward"
        BY <1>2, <1>3, <1>7 DEF ThreadStep
    <2> QED
        BY <1>1, <1>2, <1>7, <2>1, AwaitedOrAsleep
<1>8. CASE op = "port"
    <2>1. FindPort(t, g) /\ t \in PhaseThreads
        BY <1>2, <1>3, <1>8 DEF ThreadStep
    <2> QED
        BY <1>1, <1>2, <1>8, <2>1, FindingPort
<1>9. CASE op = "connect"
    <2>1. Connect(t, g)
        BY <1>3, <1>9 DEF ThreadStep
    <2> QED
        BY <1>1, <1>2, <1>9, <2>1, Connecting
<1> QED
    BY <1>4, <1>5, <1>6, <1>7, <1>8, <1>9

\* The invariant holds before anything is started.
LEMMA StartsSafely ==
    ASSUME Init
    PROVE  StartInv
<1>1. /\ chosen \in DOMAIN Mixes /\ phase = 1 /\ at = [t \in Threads |-> 1]
      /\ raised = IF Refused(mix) THEN {"main"} ELSE {}
      /\ placed = [c \in {"train", "inference", "reward"} |-> NoGroups]
      /\ crew = [g \in GroupNames |-> <<>>]
      /\ ports = [g \in EngineNames |-> 0]
    BY DEF Init
<1>2. SafePhases(Phases(mix), mix)
    BY <1>1, PlanFacts
<1>3. \A c \in DOMAIN placed : PgsOf(c) = <<>> /\ DOMAIN placed[c] = {"pgs", "unified"}
    BY <1>1 DEF PgsOf, NoGroups
<1>4. \A g \in GroupNames : Ranks(g) = {}
    BY <1>1 DEF Ranks
<1>5. Shapes
    <2>1. Len(Phases(mix)) \in Nat
        BY <1>2 DEF SafePhases
    <2>2. \A g \in GroupNames : DOMAIN crew[g] = {}
        BY <1>4 DEF Ranks
    <2>3. at \in [Threads -> Nat \ {0}] /\ ports \in [EngineNames -> Nat]
        BY <1>1
    <2>4. 1 \in Nat \ {0} /\ 1 <= Len(Phases(mix)) + 1
        BY <2>1
    <2> QED
        BY <1>1, <1>3, <2>2, <2>3, <2>4 DEF Shapes
<1>6. \A op : \A g : ~HasDone(op, g)
    <2> SUFFICES ASSUME NEW op, NEW g, HasDone(op, g) PROVE FALSE
        OBVIOUS
    <2>1. PICK t \in PhaseThreads, p \in 1..Len(Phases(mix)) : \E i \in 1..Len(Phases(mix)[p][t]) :
              p < phase \/ (p = phase /\ i < at[t])
        BY DEF HasDone, Did
    <2>2. PICK i \in 1..Len(Phases(mix)[p][t]) : p < phase \/ (p = phase /\ i < at[t])
        BY <2>1
    <2>3. at[t] = 1
        BY <1>1 DEF PhaseThreads, Threads
    <2>4. p >= 1 /\ i >= 1 /\ p \in Int /\ i \in Int
        OBVIOUS
    <2> QED
        BY <1>1, <2>2, <2>3, <2>4
<1>7. RefusedInv
    BY <1>1 DEF RefusedInv, Threads
<1>8. DoneInv
    BY <1>6 DEF DoneInv
<1>9. MadeInv
    BY <1>1, <1>4 DEF MadeInv
<1>10. RewardInv
    <2>1. "reward" \in GroupNames /\ "reward" \in DOMAIN placed /\ "reward" \in Threads
        BY <1>1 DEF GroupNames, Threads
    <2> QED
        BY <1>1, <1>3, <1>4, <2>1 DEF RewardInv
<1>11. PlacedInv
    <2>1. \A c \in DOMAIN placed : DevicesIn(PgsOf(c)) = {}
        BY <1>3 DEF DevicesIn
    <2> QED
        BY <1>3, <2>1 DEF PlacedInv
<1>12. CrewInv
    BY <1>4 DEF CrewInv
<1>13. PortsInv
    BY <1>1 DEF PortsInv
<1> QED
    BY <1>5, <1>7, <1>8, <1>9, <1>10, <1>11, <1>12, <1>13 DEF StartInv

\* The invariant holds in every state of every start.
THEOREM StartInvariant == Spec => []StartInv
<1>1. Init => StartInv
    BY StartsSafely
<1>2. StartInv /\ [Next]_vars => StartInv'
    <2> SUFFICES ASSUME StartInv, [Next]_vars PROVE StartInv'
        OBVIOUS
    <2>1. CASE UNCHANGED vars
        <3>1. UNCHANGED <<chosen, phase, at, raised, placed, crew, asleep, ports, connected>>
            BY <2>1 DEF vars
        <3>2. mix' = mix
            BY <3>1 DEF mix
        <3>3. \A c : PgsOf(c)' = PgsOf(c)
            BY <3>1 DEF PgsOf
        <3>4. \A op, g : HasDone(op, g)' = HasDone(op, g)
            BY <3>1, <3>2 DEF HasDone
        <3>5. \A g : Bundles(g)' = Bundles(g)
            BY <3>1, BundlesStay
        <3>6. \A g : Ranks(g)' = Ranks(g) /\ Complete(g)' = Complete(g)
            BY <3>1 DEF Ranks, Complete, Leaders, Leads, TypeOf, Plans, ClusterRecord, ClusterNamed, Ranks, mix
        <3>7. Shapes' /\ RefusedInv' /\ PlacedInv' /\ PortsInv'
            BY <3>1, <3>2, <3>3 DEF StartInv, Shapes, RefusedInv, PlacedInv, PortsInv
        <3>8. DoneInv' /\ MadeInv' /\ RewardInv'
            BY <3>1, <3>2, <3>3, <3>4, <3>6 DEF StartInv, DoneInv, MadeInv, RewardInv
        <3>9. CrewInv'
            BY <3>1, <3>2, <3>3, <3>5, <3>6 DEF StartInv, CrewInv, Told
        <3> QED
            BY <3>7, <3>8, <3>9 DEF StartInv
    <2>2. CASE \E g \in GroupNames : GroupStep(g)
        BY <2>2, WorkersMove
    <2>3. CASE Fault
        BY <2>3, WorkersMove
    <2>4. CASE \E t \in Threads : ThreadStep(t)
        BY <2>4, ThreadMoves
    <2>5. CASE NextPhase
        BY <2>5, PhaseMoves
    <2> QED
        BY <2>1, <2>2, <2>3, <2>4, <2>5 DEF Next, Progress
<1> QED
    BY <1>1, <1>2, PTL DEF Spec

-----------------------------------------------------------------------------
(* What has been created. *)

\* What was started first of two that share a cluster sleeps when the other has been started.
LEMMA EarlierSleeps ==
    ASSUME StartInv, NEW g \in GroupNames \ {"reward"}, NEW h \in GroupNames \ {"reward"},
           ClusterOf(mix, g) = ClusterOf(mix, h),
           NEW t \in PhaseThreads, NEW u \in PhaseThreads,
           NEW p \in 1..Len(Phases(mix)), NEW q \in 1..Len(Phases(mix)),
           NEW i \in 1..Len(Phases(mix)[p][t]), NEW k \in 1..Len(Phases(mix)[q][u]),
           Phases(mix)[p][t][i] = Op("start", g), Phases(mix)[q][u][k] = Op("start", h),
           q < phase \/ (q = phase /\ k < at[u]),
           p < q \/ (p = q /\ t = u /\ i < k)
    PROVE  g \in asleep
<1> DEFINE P == Phases(mix)
<1>1. /\ chosen \in DOMAIN Mixes /\ phase \in Nat /\ at \in [Threads -> Nat \ {0}]
    BY DEF StartInv, Shapes
<1>2. SafePhases(P, mix)
    BY <1>1, PlanFacts
<1> HIDE DEF P
<1>3. P[p][t][i] = Op("start", g) /\ P[q][u][k] = Op("start", h)
    BY DEF P
<1>4. Len(P) \in Nat /\ p \in 1..Len(P) /\ q \in 1..Len(P)
      /\ i \in 1..Len(P[p][t]) /\ k \in 1..Len(P[q][u])
    BY <1>2 DEF P, SafePhases
<1>5. SUFFICES \E j \in 1..Len(P[p][t]) :
                  P[p][t][j] = Op("sleep", g) /\ (p < phase \/ (p = phase /\ j < at[t]))
    <2>1. SUFFICES HasDone("sleep", g)
        BY DEF StartInv, DoneInv
    <2> QED
        BY <1>4, <1>5 DEF HasDone, Did, P
<1>6. CASE p < q
    <2>1. ~StartsNothing(P[q][u])
        BY <1>3, <1>4 DEF StartsNothing, Op
    <2>2. Yields(P[p][t])
        BY <1>2, <1>4, <1>6, <2>1 DEF SafePhases
    <2>3. P[p][t][i].op = "start" /\ P[p][t][i].group = g
        BY <1>3 DEF Op
    <2>4. PICK j \in 1..Len(P[p][t]) : P[p][t][j] = Op("sleep", g)
        BY <1>4, <2>2, <2>3 DEF Yields
    <2>5. p < phase
        BY <1>1, <1>4, <1>6
    <2> QED
        BY <2>4, <2>5
<1>7. CASE p = q /\ t = u /\ i < k
    <2>1. Orderly(P[p][t], mix)
        BY <1>2, <1>4 DEF SafePhases
    <2>2. /\ P[p][t][i].op = "start" /\ P[p][t][i].group = g
          /\ P[p][t][k].op = "start" /\ P[p][t][k].group = h
        BY <1>3, <1>7 DEF Op
    <2>6. /\ i \in 1..Len(P[p][t]) /\ k \in 1..Len(P[p][t]) /\ i < k
          /\ ClusterOf(mix, P[p][t][i].group) = ClusterOf(mix, P[p][t][k].group)
        BY <1>4, <1>7, <2>2
    <2>3. PICK j \in 1..Len(P[p][t]) : j < k /\ P[p][t][j] = Op("sleep", g)
        BY <2>1, <2>2, <2>6 DEF Orderly
    <2>4. j \in Int /\ k \in Int /\ at[t] \in Int
        <3>1. t \in Threads
            BY DEF PhaseThreads, Threads
        <3>2. at[t] \in Nat \ {0}
            BY <1>1, <3>1
        <3>3. j \in Int
            BY <2>3
        <3>4. k \in Int
            BY <1>4
        <3> QED
            BY <3>2, <3>3, <3>4
    <2>5. p < phase \/ (p = phase /\ j < at[t])
        BY <1>7, <2>3, <2>4
    <2> QED
        BY <2>3, <2>5
<1> QED
    BY <1>6, <1>7

\* Of two groups on one cluster one sleeps.
LEMMA OneAwake ==
    ASSUME StartInv, NEW g \in GroupNames, NEW h \in GroupNames, g # h,
           Ranks(g) # {}, Ranks(h) # {}, ClusterOf(mix, g) = ClusterOf(mix, h)
    PROVE  g \in asleep \/ h \in asleep
<1>1. g # "reward" /\ h # "reward"
    BY DEF ClusterOf, EngineNames
<1>2. HasDone("start", g) /\ HasDone("start", h)
    BY <1>1 DEF StartInv, MadeInv
<1> DEFINE P == Phases(mix)
<1>3. SafePhases(P, mix)
    <2>1. chosen \in DOMAIN Mixes
        BY DEF StartInv, Shapes
    <2> QED
        BY <2>1, PlanFacts
<1>4. PICK t \in PhaseThreads, p \in 1..Len(P) : \E i \in 1..Len(P[p][t]) :
          P[p][t][i] = Op("start", g) /\ (p < phase \/ (p = phase /\ i < at[t]))
    BY <1>2 DEF HasDone, Did
<1>5. PICK i \in 1..Len(P[p][t]) :
          P[p][t][i] = Op("start", g) /\ (p < phase \/ (p = phase /\ i < at[t]))
    BY <1>4
<1>6. PICK u \in PhaseThreads, q \in 1..Len(P) : \E k \in 1..Len(P[q][u]) :
          P[q][u][k] = Op("start", h) /\ (q < phase \/ (q = phase /\ k < at[u]))
    BY <1>2 DEF HasDone, Did
<1>7. PICK k \in 1..Len(P[q][u]) :
          P[q][u][k] = Op("start", h) /\ (q < phase \/ (q = phase /\ k < at[u]))
    BY <1>6
<1>8. Op("start", g) # Op("start", h)
    BY DEF Op
<1>9. CASE p < q \/ (p = q /\ t = u /\ i < k)
    <2>1. g \in GroupNames \ {"reward"} /\ h \in GroupNames \ {"reward"}
        BY <1>1
    <2> QED
        BY <1>5, <1>7, <1>9, <2>1, EarlierSleeps
<1>10. CASE q < p \/ (q = p /\ u = t /\ k < i)
    <2>1. g \in GroupNames \ {"reward"} /\ h \in GroupNames \ {"reward"}
        BY <1>1
    <2> QED
        BY <1>5, <1>7, <1>10, <2>1, EarlierSleeps
<1>11. CASE p = q /\ t # u
    <2> HIDE DEF P
    <2>1. P[p]["policy"] # <<>>
        <3>1. \E l \in 1..Len(P[p]["policy"]) : TRUE
            BY <1>5, <1>7, <1>11 DEF PhaseThreads
        <3> QED
            BY <3>1
    <2>2. PICK a \in GroupNames, b \in GroupNames :
              /\ StartsWithin(P[p]["main"], {a}) /\ StartsWithin(P[p]["policy"], {b})
              /\ ClusterOf(mix, a) # ClusterOf(mix, b)
        BY <1>3, <2>1 DEF SafePhases
    <2>3. /\ P[p][t][i].op = "start" /\ P[p][t][i].group = g
          /\ P[p][u][k].op = "start" /\ P[p][u][k].group = h
        BY <1>5, <1>7, <1>11 DEF Op
    <2>4. k \in 1..Len(P[p][u])
        BY <1>11
    <2>5. (t = "main" /\ u = "policy") \/ (t = "policy" /\ u = "main")
        BY <1>11 DEF PhaseThreads
    <2>6. (g = a /\ h = b) \/ (g = b /\ h = a)
        BY <2>2, <2>3, <2>4, <2>5 DEF StartsWithin
    <2> QED
        BY <2>2, <2>6
<1>12. p \in Int /\ q \in Int /\ i \in Int /\ k \in Int
    OBVIOUS
<1>13. ASSUME p = q, t = u, i = k PROVE FALSE
    BY <1>5, <1>7, <1>8, <1>13
<1> QED
    BY <1>9, <1>10, <1>11, <1>12, <1>13

\* In a configuration that is refused the driver creates nothing.
LEMMA NothingIsCreated ==
    ASSUME StartInv, Refused(mix), NEW g \in GroupNames \ {"reward"}
    PROVE  Ranks(g) = {} /\ \A op : ~HasDone(op, g)
<1> DEFINE P == Phases(mix)
<1>1. phase = 1 /\ at["main"] = 1
    BY DEF StartInv, RefusedInv
<1>2. SafePhases(P, mix)
    <2>1. chosen \in DOMAIN Mixes
        BY DEF StartInv, Shapes
    <2> QED
        BY <2>1, PlanFacts
<1>3. ASSUME NEW op, HasDone(op, g) PROVE FALSE
    <2>1. PICK t \in PhaseThreads, p \in 1..Len(P) : \E i \in 1..Len(P[p][t]) :
              p < phase \/ (p = phase /\ i < at[t])
        BY <1>3 DEF HasDone, Did
    <2>2. PICK i \in 1..Len(P[p][t]) : p < phase \/ (p = phase /\ i < at[t])
        BY <2>1
    <2>3. p >= 1 /\ i >= 1 /\ p \in Int /\ i \in Int
        OBVIOUS
    <2>4. p = 1 /\ i < at[t]
        BY <1>1, <2>2, <2>3
    <2>5. t = "policy"
        BY <1>1, <2>3, <2>4 DEF PhaseThreads
    <2>6. P[1]["policy"] = <<>>
        BY <1>2, <2>4 DEF SafePhases
    <2>7. i \in 1..Len(P[1]["policy"])
        BY <2>4, <2>5
    <2> QED
        BY <2>6, <2>7
<1>4. Ranks(g) = {}
    BY <1>3 DEF StartInv, MadeInv
<1> QED
    BY <1>3, <1>4

\* The workers of a group, and where they are.
LEMMA CrewFacts ==
    ASSUME StartInv, NEW g \in GroupNames, Ranks(g) # {}
    PROVE  \E n \in Nat \ {0} :
              /\ SizeOf(g) \in Nat \ {0} /\ n * SizeOf(g) \in Nat /\ Ranks(g) = 1..(n * SizeOf(g))
              /\ ~IsEngine(TypeOf(g)) => n = WorldSize(ClusterRecord(g))
              /\ \A r \in 1..(n * SizeOf(g)) :
                    /\ crew[g][r].place.shard = (r - 1) \div SizeOf(g)
                    /\ crew[g][r].place.leader = ((r - 1) % SizeOf(g) = 0)
                    /\ crew[g][r].place.device \in DevicesIn(PgsOf(ClusterOf(mix, g)))
<1>1. PICK pgs : pgs = PgsOf(ClusterOf(mix, g))
    OBVIOUS
<1>2. pgs # <<>> /\ Bundles(g) # <<>> /\ Told(crew, g) = Workers(Bundles(g), pgs)
    BY <1>1 DEF StartInv, CrewInv
<1>3. PICK n \in Nat \ {0} :
          /\ SizeOf(g) \in Nat \ {0}
          /\ DOMAIN Workers(Bundles(g), pgs) = 1..(n * SizeOf(g))
          /\ \A i \in 1..(n * SizeOf(g)) :
                /\ Workers(Bundles(g), pgs)[i].shard = (i - 1) \div SizeOf(g)
                /\ Workers(Bundles(g), pgs)[i].leader = ((i - 1) % SizeOf(g) = 0)
                /\ Workers(Bundles(g), pgs)[i].device \in DevicesIn(pgs)
          /\ ~IsEngine(TypeOf(g)) => n = WorldSize(ClusterRecord(g))
    BY <1>1, <1>2, WorkersOfBundles
<1>4. DOMAIN Told(crew, g) = Ranks(g) /\ \A r \in Ranks(g) : Told(crew, g)[r] = crew[g][r].place
    BY DEF Told, Ranks
<1>5. n * SizeOf(g) \in Nat
    BY <1>3
<1>6. Ranks(g) = 1..(n * SizeOf(g))
    BY <1>2, <1>3, <1>4
<1>7. \A r \in 1..(n * SizeOf(g)) : crew[g][r].place = Workers(Bundles(g), pgs)[r]
    BY <1>2, <1>4, <1>6
<1>8. \A r \in 1..(n * SizeOf(g)) :
         /\ crew[g][r].place.shard = (r - 1) \div SizeOf(g)
         /\ crew[g][r].place.leader = ((r - 1) % SizeOf(g) = 0)
         /\ crew[g][r].place.device \in DevicesIn(PgsOf(ClusterOf(mix, g)))
    BY <1>1, <1>3, <1>7
<1> QED
    BY <1>3, <1>5, <1>6, <1>8

\* A worker runs on a node of its cluster, and on a device of it if it is not pinned.
LEMMA RunsInCluster ==
    ASSUME StartInv, NEW g \in GroupNames, NEW r \in Ranks(g)
    PROVE  /\ Created(g)
           /\ RunsOn(g, r)[1] \in ClusterNodes(ClusterOf(mix, g))
           /\ TypeOf(g).kind \notin PinnedKinds =>
                 RunsOn(g, r) \in DevicesIn(PgsOf(ClusterOf(mix, g)))
<1>1. DeviceAt(g, r) \in DevicesIn(PgsOf(ClusterOf(mix, g)))
    BY CrewFacts DEF DeviceAt
<1>2. /\ TypeOf(g).kind \notin PinnedKinds => RunsOn(g, r) = DeviceAt(g, r)
      /\ RunsOn(g, r)[1] = DeviceAt(g, r)[1]
    BY DEF RunsOn, DeviceUsed, DeviceAt
<1>3. ClusterNodes(ClusterOf(mix, g)) = NodesOf(DevicesIn(PgsOf(ClusterOf(mix, g))))
    BY DEF ClusterNodes, DevicesIn, PgsOf
<1>4. Created(g)
    BY DEF Created, Ranks
<1> QED
    BY <1>1, <1>2, <1>3, <1>4 DEF NodesOf

\* Groups that meet on a device share a cluster: two clusters have no device in common,
\* and a group that is pinned shares no node with a cluster that it is not on.
LEMMA MeetInCluster ==
    ASSUME StartInv, PinnedApart, NEW g \in GroupNames, NEW h \in GroupNames,
           NEW r \in Ranks(g), NEW s \in Ranks(h), RunsOn(g, r) = RunsOn(h, s)
    PROVE  ClusterOf(mix, g) = ClusterOf(mix, h)
<1> SUFFICES ASSUME ClusterOf(mix, g) # ClusterOf(mix, h) PROVE FALSE
    OBVIOUS
<1>1. /\ ClusterOf(mix, g) \in DOMAIN placed /\ ClusterOf(mix, h) \in DOMAIN placed
    BY DEF StartInv, Shapes, ClusterOf
<1>2. /\ Created(g) /\ Created(h)
      /\ RunsOn(g, r)[1] \in ClusterNodes(ClusterOf(mix, g))
      /\ RunsOn(g, r)[1] \in ClusterNodes(ClusterOf(mix, h))
    BY RunsInCluster
<1>3. CASE TypeOf(g).kind \in PinnedKinds \/ TypeOf(h).kind \in PinnedKinds
    BY <1>1, <1>2, <1>3 DEF PinnedApart
<1>4. CASE TypeOf(g).kind \notin PinnedKinds /\ TypeOf(h).kind \notin PinnedKinds
    <2>1. /\ RunsOn(g, r) \in DevicesIn(PgsOf(ClusterOf(mix, g)))
          /\ RunsOn(g, r) \in DevicesIn(PgsOf(ClusterOf(mix, h)))
        BY <1>4, RunsInCluster
    <2> QED
        BY <1>1, <2>1 DEF StartInv, PlacedInv
<1> QED
    BY <1>3, <1>4

\* Two groups are never awake on one device while a program starts: a policy, engines,
\* a teacher or a reward model finds its devices free, or their holder asleep
\* (grpo.setup, distillation.setup, RayVirtualCluster).  The property excepts the states
\* in which a group that is pinned by bundle numbers shares a node with a second cluster.
THEOREM OneGroupOnADevice == Spec => []OneGroupPerDevice
<1>1. StartInv => OneGroupPerDevice
    <2> SUFFICES ASSUME StartInv, PinnedApart, NEW device \in Machine(mix)
                 PROVE  Cardinality(Occupants(device)) <= 1
        BY DEF OneGroupPerDevice
    <2>2. ASSUME NEW g \in Occupants(device), NEW h \in Occupants(device), g # h PROVE FALSE
        <3>1. /\ g \in GroupNames /\ h \in GroupNames /\ g \notin asleep /\ h \notin asleep
              /\ \E r \in Ranks(g) : RunsOn(g, r) = device
              /\ \E r \in Ranks(h) : RunsOn(h, r) = device
            BY DEF Occupants
        <3>2. PICK r \in Ranks(g), s \in Ranks(h) : RunsOn(g, r) = RunsOn(h, s)
            BY <3>1
        <3>3. ClusterOf(mix, g) = ClusterOf(mix, h)
            BY <3>1, <3>2, MeetInCluster
        <3> QED
            BY <2>2, <3>1, <3>2, <3>3, OneAwake
    <2>3. CASE Occupants(device) = {}
        BY <2>3, FS_EmptySet
    <2>4. CASE Occupants(device) # {}
        <3>1. PICK g : Occupants(device) = {g}
            BY <2>2, <2>4
        <3> QED
            BY <3>1, FS_Singleton
    <2> QED
        BY <2>3, <2>4
<1> QED
    BY <1>1, StartInvariant, PTL

-----------------------------------------------------------------------------
(* The collective of a refit. *)

\* A port is looked for when the policy and the engines of the group have been started.
LEMMA PortsComeLast ==
    ASSUME StartInv, NEW g \in EngineNames, ports[g] # 0, g \in Joining(g)
    PROVE  /\ ~mix.colocated /\ mix.gen = "vllm" /\ ~Refused(mix)
           /\ Ranks("policy") # {} /\ Ranks(g) # {} /\ Complete(g)
<1> DEFINE P == Phases(mix)
<1>1. HasDone("port", g) /\ g \in GroupNames \ {"reward"}
    BY DEF StartInv, MadeInv, EngineNames, GroupNames
<1>2. /\ chosen \in DOMAIN Mixes /\ phase \in Nat /\ ~Refused(mix)
    BY <1>1, NothingIsCreated DEF StartInv, Shapes
<1>3. SafePhases(P, mix) /\ IsMix(mix)
    BY <1>2, PlanFacts
<1>4. PICK t \in PhaseThreads, p \in 1..Len(P) : \E i \in 1..Len(P[p][t]) :
          P[p][t][i] = Op("port", g) /\ (p < phase \/ (p = phase /\ i < at[t]))
    BY <1>1 DEF HasDone, Did
<1>5. PICK i \in 1..Len(P[p][t]) :
          P[p][t][i] = Op("port", g) /\ (p < phase \/ (p = phase /\ i < at[t]))
    BY <1>4
<1> HIDE DEF P
<1>6. P[p][t][i].op = "port" /\ P[p][t][i].group = g
    BY <1>5 DEF Op
<1>7. t = "main"
    <2>1. LooksForNoPort(P[p]["policy"])
        BY <1>3 DEF SafePhases
    <2> QED
        BY <1>6, <2>1 DEF LooksForNoPort, PhaseThreads
<1>8. /\ OnlyConnects(P[p]["main"], mix)
      /\ mix.gen = "vllm" =>
            \A o \in Needed(mix) : \E q \in 1..Len(P), u \in PhaseThreads : q < p /\ Has(P[q][u], o)
    <2>1. ~LooksForNoPort(P[p]["main"])
        BY <1>6, <1>7 DEF LooksForNoPort
    <2> QED
        BY <1>2, <1>3, <2>1 DEF SafePhases
<1>9. ~mix.colocated /\ g \in Refitted(mix)
    BY <1>6, <1>7, <1>8 DEF OnlyConnects
<1>10. mix.gen = "vllm"
    <2>1. mix.program \in {"grpo", "distillation"}
        BY <1>3, <1>9 DEF IsMix
    <2>2. mix.gen # "none" /\ mix.gen \in {"none", "vllm", "sglang", "megatron"}
        BY <1>3, <2>1 DEF IsMix
    <2>3. mix.gen # "megatron"
        BY <1>2, <1>9, <2>1 DEF Refused, SplitRefused
    <2>4. mix.gen # "sglang"
        <3>1. TypeOf(g).kind # "sglang"
            BY DEF Joining, EngineNames
        <3>2. TypeOf(g).kind = mix.gen
            BY <1>1, <1>2, PlanFacts DEF Group, PolicyGroup, EngineNames
        <3> QED
            BY <3>1, <3>2
    <2> QED
        BY <2>2, <2>3, <2>4
<1>11. ASSUME NEW op, NEW h \in GroupNames \ {"reward"}, Op(op, h) \in Needed(mix)
       PROVE  HasDone(op, h)
    <2>1. PICK q \in 1..Len(P), u \in PhaseThreads : q < p /\ Has(P[q][u], Op(op, h))
        BY <1>8, <1>10, <1>11
    <2>2. PICK k \in 1..Len(P[q][u]) : P[q][u][k] = Op(op, h)
        BY <2>1 DEF Has
    <2>3. q < phase
        <3>1. Len(P) \in Nat
            BY <1>3 DEF SafePhases
        <3> QED
            BY <1>2, <1>5, <2>1, <3>1
    <2> QED
        BY <2>2, <2>3 DEF HasDone, Did, P
<1>12. HasDone("start", "policy") /\ HasDone("wait", g)
    <2>1. Op("start", "policy") \in Needed(mix) /\ Op("wait", g) \in Needed(mix)
        BY <1>9 DEF Needed
    <2>2. "policy" \in GroupNames \ {"reward"}
        BY DEF GroupNames
    <2> QED
        BY <1>1, <1>11, <2>1, <2>2
<1>13. "policy" \in GroupNames \ {"reward"}
    BY DEF GroupNames
<1> QED
    BY <1>1, <1>2, <1>9, <1>10, <1>12, <1>13 DEF StartInv, DoneInv

\* How many numbers up to n * size leave no rest: one for each multiple of `size'.
LEMMA CountLeaders ==
    ASSUME NEW n \in Nat, NEW size \in Nat \ {0}
    PROVE  Cardinality({r \in 1..(n * size) : (r - 1) % size = 0}) = n
<1> DEFINE L == {r \in 1..(n * size) : (r - 1) % size = 0}
           f == [k \in 1..n |-> (k - 1) * size + 1]
<1>1. \A k \in 1..n : f[k] = (k - 1) * size + 1
    OBVIOUS
<1>2. ASSUME NEW k \in 1..n PROVE f[k] \in L /\ (f[k] - 1) \div size = k - 1
    <2>1. k - 1 \in Nat /\ k \in Nat
        OBVIOUS
    <2>2. PICK d \in Nat : d = k - 1
        BY <2>1
    <2>3. d * size \in Nat /\ (d * size) % size = 0 /\ (d * size) \div size = d
        OBVIOUS
    <2>4. d * size + 1 <= n * size
        <3>1. (d + 1) * size <= n * size
            <4>1. d + 1 <= n
                BY <2>2
            <4> QED
                BY <4>1, <2>2, \A a, b \in Nat, c \in Nat \ {0} : a <= b => a * c <= b * c
        <3>2. (d + 1) * size = d * size + size
            BY <2>2
        <3>3. n * size \in Nat
            OBVIOUS
        <3> QED
            BY <2>3, <3>1, <3>2, <3>3
    <2>5. f[k] = d * size + 1
        BY <1>1, <2>2
    <2>6. n * size \in Nat
        OBVIOUS
    <2> HIDE DEF f
    <2>7. f[k] \in 1..(n * size) /\ f[k] - 1 = d * size
        BY <2>3, <2>4, <2>5, <2>6
    <2> QED
        BY <2>2, <2>3, <2>7
<1>3. ASSUME NEW r \in L PROVE \E k \in 1..n : f[k] = r
    <2>1. r \in Nat \ {0} /\ r <= n * size /\ (r - 1) % size = 0
        OBVIOUS
    <2>2. ((r - 1) \div size) + 1 \in 1..n /\ r - 1 = ((r - 1) \div size) * size + ((r - 1) % size)
        BY <2>1, DivideBy
    <2>3. PICK k \in 1..n : k = ((r - 1) \div size) + 1
        BY <2>2
    <2>4. (r - 1) \div size = k - 1
        BY <2>1, <2>3
    <2>5. r - 1 = (k - 1) * size
        BY <2>1, <2>2, <2>4
    <2> QED
        BY <1>1, <2>1, <2>5
<1>4. f \in [1..n -> L] /\ \A j, k \in 1..n : f[j] = f[k] => j = k
    <2>1. f \in [1..n -> L]
        BY <1>2
    <2>2. ASSUME NEW j \in 1..n, NEW k \in 1..n, f[j] = f[k] PROVE j = k
        <3>1. j - 1 = k - 1
            BY <1>2, <2>2
        <3> QED
            BY <3>1
    <2> QED
        BY <2>1, <2>2
<1> HIDE DEF f, L
<1>5. f \in Bijection(1..n, L)
    BY <1>3, <1>4 DEF Bijection, Injection, Surjection, IsInjective
<1>6. ExistsBijection(1..n, L)
    BY <1>5 DEF ExistsBijection
<1>7. Cardinality(L) = n
    BY <1>6, FS_CountingElements
<1> QED
    BY <1>7 DEF L

\* The processes of an engine before one of them.
LEMMA CountBefore ==
    ASSUME NEW n \in Nat, NEW size \in Nat \ {0}, NEW r \in 1..(n * size)
    PROVE  Cardinality({q \in 1..(n * size) : (q - 1) \div size = (r - 1) \div size /\ q < r})
              = (r - 1) % size
<1>1. r \in Nat \ {0} /\ r <= n * size /\ n * size \in Nat
    OBVIOUS
<1>2. PICK d \in Nat : d = (r - 1) \div size
    BY <1>1
<1>3. PICK e \in 0..(size - 1) : e = (r - 1) % size
    BY <1>1
<1>4. r - 1 = d * size + e /\ d * size \in Nat
    BY <1>1, <1>2, <1>3, Division
<1> DEFINE B == {q \in 1..(n * size) : (q - 1) \div size = (r - 1) \div size /\ q < r}
           first == d * size + 1
<1>5. ASSUME NEW q \in first..(r - 1) PROVE q \in B
    <2>1. PICK c \in Nat : c = q - 1 - d * size
        BY <1>4
    <2>2. c < size /\ q - 1 = d * size + c
        BY <1>3, <1>4, <2>1
    <2>3. (d * size + c) \div size = d
        BY <2>1, <2>2
    <2>4. q \in 1..(n * size) /\ q < r
        BY <1>1, <1>4
    <2> QED
        BY <1>2, <2>2, <2>3, <2>4
<1>6. ASSUME NEW q \in B PROVE q \in first..(r - 1)
    <2>1. q \in Nat \ {0} /\ (q - 1) \div size = d /\ q < r
        BY <1>2
    <2>2. q - 1 = ((q - 1) \div size) * size + ((q - 1) % size) /\ (q - 1) % size \in 0..(size - 1)
        BY <2>1, Division
    <2>3. q - 1 >= d * size
        BY <1>4, <2>1, <2>2
    <2> QED
        BY <1>1, <1>4, <2>1, <2>3
<1>7. B = first..(r - 1)
    BY <1>5, <1>6
<1>8. first \in Int /\ r - 1 \in Int /\ first <= r
    BY <1>1, <1>3, <1>4
<1> HIDE DEF B, first
<1>9. Cardinality(first..(r - 1)) = IF first > r - 1 THEN 0 ELSE (r - 1) - first + 1
    BY <1>8, FS_Interval
<1>10. Cardinality(B) = e
    BY <1>3, <1>4, <1>7, <1>8, <1>9 DEF first
<1> QED
    BY <1>3, <1>10 DEF B

\* The ranks of the policy and, behind them, those of the engines.
LEMMA RefitRanks ==
    ASSUME StartInv, NEW g \in EngineNames, ports[g] # 0, g \in Joining(g)
    PROVE  \E w \in Nat, v \in Nat :
              /\ w = WorldSize(ClusterNamed("train")) /\ v = WorldSize(ClusterNamed("inference"))
              /\ TypeOf(g).kind = "vllm"
              /\ Cardinality(Ranks("policy")) = w /\ Cardinality(Ranks(g)) = v
              /\ \A r \in 1..v : RefitRank(g, r) = w + r - 1
<1>1. /\ ~mix.colocated /\ mix.gen = "vllm" /\ ~Refused(mix)
      /\ Ranks("policy") # {} /\ Ranks(g) # {} /\ Complete(g)
    BY PortsComeLast
<1>2. chosen \in DOMAIN Mixes
    BY DEF StartInv, Shapes
<1>3. g \in GroupNames /\ "policy" \in GroupNames /\ g # "reward" /\ g # "policy" /\ g # "teacher"
    BY DEF EngineNames, GroupNames
<1>4. /\ IsMix(mix) /\ TypeOf(g) = Group(mix, g) /\ TypeOf("policy") = Group(mix, "policy")
      /\ ClusterNamed("train") = Clusters(mix)["train"]
      /\ ClusterNamed("inference") = Clusters(mix)["inference"]
      /\ ClusterRecord("policy") = Clusters(mix)[ClusterOf(mix, "policy")]
    BY <1>2, <1>3, PlanFacts
<1>5. /\ TypeOf(g).kind = "vllm" /\ IsEngine(TypeOf(g)) /\ SizeOf(g) = mix.gmp
      /\ ~IsEngine(TypeOf("policy")) /\ SizeOf("policy") = 1
      /\ ClusterRecord("policy") = ClusterNamed("train")
    <2>1. TypeOf(g).kind = "vllm"
        BY <1>1, <1>3, <1>4 DEF Group, PolicyGroup
    <2>2. TypeOf("policy").kind \in {"dtensor_v1", "dtensor_v2", "megatron", "diffusion"}
        <3>1. mix.policy \in {"dtensor_v1", "dtensor_v2", "megatron", "diffusion"}
            BY <1>4 DEF IsMix
        <3> QED
            BY <1>4, <3>1 DEF Group, PolicyGroup
    <2>3. ClusterOf(mix, "policy") = "train"
        BY DEF ClusterOf, EngineNames
    <2> QED
        BY <1>4, <2>1, <2>2, <2>3 DEF IsEngine, SizeOf
<1>6. PICK w \in Nat \ {0} :
          w = WorldSize(ClusterNamed("train")) /\ Ranks("policy") = 1..(w * SizeOf("policy"))
    BY <1>1, <1>3, <1>5, CrewFacts
<1>7. Ranks("policy") = 1..w /\ Cardinality(Ranks("policy")) = w
    <2>1. w * SizeOf("policy") = w /\ 1 \in Int /\ w \in Int
        BY <1>5, <1>6
    <2>2. Cardinality(1..w) = IF 1 > w THEN 0 ELSE w - 1 + 1
        BY <2>1, FS_Interval
    <2> QED
        BY <1>6, <2>1, <2>2
<1>8. PICK size : size = SizeOf(g)
    OBVIOUS
<1>9. PICK n \in Nat \ {0} :
          /\ size \in Nat \ {0} /\ n * size \in Nat /\ Ranks(g) = 1..(n * size)
          /\ \A r \in 1..(n * size) :
                /\ crew[g][r].place.shard = (r - 1) \div size
                /\ crew[g][r].place.leader = ((r - 1) % size = 0)
    BY <1>1, <1>3, <1>8, CrewFacts
<1>10. Cardinality(Leaders(g)) = n
    <2>1. Leaders(g) = {r \in 1..(n * size) : (r - 1) % size = 0}
        BY <1>9 DEF Leaders, Leads
    <2>2. n \in Nat /\ size \in Nat \ {0}
        BY <1>9
    <2>3. Cardinality({r \in 1..(n * size) : (r - 1) % size = 0}) = n
        BY <2>2, CountLeaders
    <2> QED
        BY <2>1, <2>3
<1>11. n * size = WorldSize(ClusterNamed("inference"))
    <2>1. Cardinality(Leaders(g)) * mix.gmp = WorldSize(Clusters(mix)["inference"])
        BY <1>1, CompleteIsCreated
    <2> QED
        BY <1>4, <1>5, <1>8, <1>10, <2>1
<1>12. PICK v \in Nat : v = n * size
    BY <1>9
<1>13. Cardinality(Ranks(g)) = v
    <2>1. 1 \in Int /\ v \in Int
        OBVIOUS
    <2>2. Cardinality(1..v) = IF 1 > v THEN 0 ELSE v - 1 + 1
        BY <2>1, FS_Interval
    <2> QED
        BY <1>9, <1>12, <2>1, <2>2
<1>14. v \div n = size
    BY <1>9, <1>12, \A a, b \in Nat \ {0} : (a * b) \div a = b
<1>15. ASSUME NEW r \in 1..v PROVE RefitRank(g, r) = w + r - 1
    <2>1. crew[g][r].place.shard = (r - 1) \div size
        BY <1>9, <1>12
    <2>2. {q \in Shard(g, r) : q < r}
             = {q \in 1..(n * size) : (q - 1) \div size = (r - 1) \div size /\ q < r}
        BY <1>9, <1>12, <2>1 DEF Shard
    <2>3. r \in 1..(n * size)
        BY <1>12
    <2>4. Cardinality({q \in Shard(g, r) : q < r}) = (r - 1) % size
        BY <1>9, <2>2, <2>3, CountBefore
    <2>5. RefitRank(g, r) = w + ((r - 1) \div size) * size + ((r - 1) % size)
        BY <1>6, <1>10, <1>13, <1>14, <2>1, <2>4 DEF RefitRank
    <2>6. r - 1 \in Nat
        OBVIOUS
    <2>7. PICK d \in Nat, e \in Nat :
              /\ d = (r - 1) \div size /\ e = (r - 1) % size /\ r - 1 = d * size + e
        <3>1. /\ (r - 1) \div size \in Nat /\ (r - 1) % size \in 0..(size - 1)
              /\ r - 1 = ((r - 1) \div size) * size + ((r - 1) % size)
            BY <1>9, <2>6, Division
        <3>2. (r - 1) % size \in Nat
            BY <1>9, <3>1
        <3> QED
            BY <3>1, <3>2
    <2>8. d * size \in Nat
        BY <1>9
    <2>9. RefitRank(g, r) = w + d * size + e
        BY <2>5, <2>7
    <2> QED
        BY <2>7, <2>8, <2>9
<1> QED
    BY <1>5, <1>6, <1>7, <1>11, <1>12, <1>13, <1>15

\* The ranks of a collective are the numbers below its size.
LEMMA RefitIsWhole ==
    ASSUME StartInv, NEW g \in EngineNames, ports[g] # 0, g \in Joining(g)
    PROVE  IsInjective(RefitWorld(g)) /\ Range(RefitWorld(g)) = 0..(RefitSize - 1)
<1>1. PICK w \in Nat, v \in Nat :
          /\ w = WorldSize(ClusterNamed("train")) /\ v = WorldSize(ClusterNamed("inference"))
          /\ TypeOf(g).kind = "vllm"
          /\ Cardinality(Ranks("policy")) = w /\ Cardinality(Ranks(g)) = v
          /\ \A r \in 1..v : RefitRank(g, r) = w + r - 1
    BY RefitRanks
<1> DEFINE a == [i \in 1..w |-> i - 1]
           b == [r \in 1..v |-> RefitRank(g, r)]
<1>2. RefitWorld(g) = a \o b
    BY <1>1 DEF RefitWorld
<1>3. a \in Seq(Int) /\ Len(a) = w /\ \A i \in 1..w : a[i] = i - 1
    OBVIOUS
<1>4. b \in Seq(Int) /\ Len(b) = v /\ \A i \in 1..v : b[i] = w + i - 1
    <2>1. \A i \in 1..v : b[i] = w + i - 1 /\ b[i] \in Int
        BY <1>1
    <2>2. b \in [1..v -> Int]
        BY <2>1
    <2> QED
        BY <2>1, <2>2
<1> HIDE DEF a, b
<1>5. /\ a \o b \in Seq(Int) /\ Len(a \o b) = w + v
      /\ \A i \in 1..(w + v) : (a \o b)[i] = IF i <= w THEN a[i] ELSE b[i - w]
    BY <1>3, <1>4, ConcatProperties
<1> DEFINE f == a \o b
<1>6. f \in Seq(Int) /\ DOMAIN f = 1..(w + v) /\ \A i \in 1..(w + v) : f[i] = i - 1
    <2>1. \A i \in 1..(w + v) : f[i] = i - 1
        <3> SUFFICES ASSUME NEW i \in 1..(w + v) PROVE f[i] = i - 1
            OBVIOUS
        <3>1. CASE i <= w
            <4>1. i \in 1..w
                BY <3>1
            <4> QED
                BY <1>3, <1>5, <3>1, <4>1
        <3>2. CASE ~(i <= w)
            <4>1. i - w \in 1..v
                BY <3>2
            <4>2. b[i - w] = w + (i - w) - 1
                BY <1>4, <4>1
            <4> QED
                BY <1>5, <3>2, <4>1, <4>2
        <3> QED
            BY <3>1, <3>2
    <2>2. DOMAIN f = 1..(w + v)
        BY <1>5
    <2> QED
        BY <1>5, <2>1, <2>2
<1> HIDE DEF f
<1>7. IsInjective(f)
    BY <1>6 DEF IsInjective
<1>8. RefitSize = w + v
    BY <1>1 DEF RefitSize
<1>9. Range(f) = 0..(w + v - 1)
    <2>1. ASSUME NEW x \in Range(f) PROVE x \in 0..(w + v - 1)
        BY <1>6 DEF Range
    <2>2. ASSUME NEW x \in 0..(w + v - 1) PROVE x \in Range(f)
        <3>1. x + 1 \in 1..(w + v) /\ f[x + 1] = x
            BY <1>6
        <3> QED
            BY <1>6, <3>1 DEF Range
    <2> QED
        BY <2>1, <2>2
<1> QED
    BY <1>2, <1>7, <1>8, <1>9 DEF f

\* The policy and all engines of a vLLM group join the collective of their refit, each
\* with a rank of its own, and the ranks are the numbers below the size that the driver
\* announces; no two collectives are on one port (grpo.setup,
\* VllmGeneration.init_collective).
THEOREM RefitsAreWhole == Spec => []RefitWorldIsWhole
<1>1. StartInv => RefitWorldIsWhole
    <2> SUFFICES ASSUME StartInv PROVE RefitWorldIsWhole
        OBVIOUS
    <2>1. ASSUME NEW g \in EngineNames, ports[g] # 0, g \in Joining(g)
          PROVE  IsInjective(RefitWorld(g)) /\ AllMeet(g)
        BY <2>1, RefitIsWhole DEF AllMeet
    <2> QED
        BY <2>1 DEF StartInv, PortsInv, RefitWorldIsWhole
<1> QED
    BY <1>1, StartInvariant, PTL
=============================================================================

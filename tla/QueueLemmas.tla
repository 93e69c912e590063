---------------------------- MODULE QueueLemmas ----------------------------
(***************************************************************************)
(* What pushing at the back and popping at the front do to the elements of *)
(* a queue.  The thread pool, the connection pool and the logger all keep  *)
(* a queue of this kind, and the first two count their threads.            *)
(***************************************************************************)
EXTENDS Sequences, Naturals, FiniteSets, SequenceTheorems, FiniteSetTheorems,
        WellFoundedInduction, TLAPS

\* What is in a queue, and that nothing is in it twice.
Elements(s) == {s[i] : i \in DOMAIN s}
Distinct(s) == \A i, j \in DOMAIN s : s[i] = s[j] => i = j

\* Pushing adds exactly the pushed element to the queue's elements, at the end.
LEMMA AppendElements ==
    ASSUME NEW S, NEW s \in Seq(S), NEW x \in S
    PROVE  /\ Append(s, x) \in Seq(S)
           /\ Len(Append(s, x)) = Len(s) + 1
           /\ DOMAIN Append(s, x) = DOMAIN s \cup {Len(s) + 1}
           /\ \A i \in DOMAIN s : Append(s, x)[i] = s[i]
           /\ Append(s, x)[Len(s) + 1] = x
           /\ DOMAIN s = 1 .. Len(s)
           /\ Len(s) \in Nat
OBVIOUS

\* Popping the front shifts the rest of the queue by one place.
LEMMA TailElements ==
    ASSUME NEW S, NEW s \in Seq(S), s # <<>>
    PROVE  /\ Head(s) \in S
           /\ Head(s) = s[1]
           /\ 1 \in DOMAIN s
           /\ Tail(s) \in Seq(S)
           /\ Len(Tail(s)) = Len(s) - 1
           /\ Len(s) \in Nat \ {0}
           /\ DOMAIN s = 1 .. Len(s)
           /\ DOMAIN Tail(s) = 1 .. (Len(s) - 1)
           /\ \A i \in DOMAIN Tail(s) : Tail(s)[i] = s[i + 1]
OBVIOUS

\* Every element but the front is still in the queue after a pop.
LEMMA TailKeepsRest ==
    ASSUME NEW S, NEW s \in Seq(S), s # <<>>, NEW i \in DOMAIN s, s[i] # Head(s)
    PROVE  \E j \in DOMAIN Tail(s) : Tail(s)[j] = s[i]
<1>1. i # 1 /\ i \in 1 .. Len(s)
  BY TailElements
<1>2. i - 1 \in DOMAIN Tail(s) /\ Tail(s)[i - 1] = s[i]
  BY <1>1, TailElements
<1> QED BY <1>2

\* A push keeps a queue free of duplicates if the element is new.
LEMMA PushDistinct ==
    ASSUME NEW S, NEW s \in Seq(S), NEW x \in S
    PROVE  /\ Elements(Append(s, x)) = Elements(s) \cup {x}
           /\ Distinct(s) /\ x \notin Elements(s) => Distinct(Append(s, x))
<1>1. Elements(Append(s, x)) = Elements(s) \cup {x}
  BY AppendElements DEF Elements
<1>2. ASSUME Distinct(s), x \notin Elements(s) PROVE Distinct(Append(s, x))
  <2>1. \A i \in DOMAIN s : s[i] # x
    BY <1>2 DEF Elements
  <2> QED BY <1>2, <2>1, AppendElements DEF Distinct
<1> QED BY <1>1, <1>2

\* A pop takes exactly the front out of a queue free of duplicates.
LEMMA PopDistinct ==
    ASSUME NEW S, NEW s \in Seq(S), s # <<>>, Distinct(s)
    PROVE  /\ Head(s) \in Elements(s)
           /\ Elements(Tail(s)) = Elements(s) \ {Head(s)}
           /\ Distinct(Tail(s))
<1>1. Head(s) \in Elements(s)
  BY TailElements DEF Elements
<1>2. ASSUME NEW i \in DOMAIN Tail(s) PROVE Tail(s)[i] \in Elements(s) \ {Head(s)}
  BY TailElements DEF Elements, Distinct
<1>3. ASSUME NEW i \in DOMAIN s, s[i] # Head(s)
      PROVE  \E j \in DOMAIN Tail(s) : Tail(s)[j] = s[i]
  BY <1>3, TailKeepsRest
<1>4. Elements(Tail(s)) = Elements(s) \ {Head(s)}
  BY <1>2, <1>3 DEF Elements
<1>5. Distinct(Tail(s))
  BY TailElements DEF Distinct
<1> QED BY <1>1, <1>4, <1>5

\* The front of a queue can be moved to the end of what precedes it.
LEMMA MoveFront ==
    ASSUME NEW S, NEW a \in Seq(S), NEW q \in Seq(S), q # <<>>
    PROVE  a \o q = (a \o <<Head(q)>>) \o Tail(q)
<1>1. <<Head(q)>> \in Seq(S) /\ Tail(q) \in Seq(S)
  BY HeadTailProperties
<1>2. q = <<Head(q)>> \o Tail(q)
  <2>1. <<Head(q)>> \o Tail(q) \in Seq(S)
    BY <1>1, ConcatProperties
  <2>2. Len(<<Head(q)>> \o Tail(q)) = Len(q)
    BY <1>1, ConcatProperties, HeadTailProperties, LenProperties
  <2>3. ASSUME NEW i \in 1 .. Len(q) PROVE (<<Head(q)>> \o Tail(q))[i] = q[i]
    BY <1>1, ConcatProperties, HeadTailProperties, LenProperties
  <2> QED BY <2>1, <2>2, <2>3, SeqEqual
<1> QED BY <1>1, <1>2, ConcatAssociative

\* A queue put behind another adds its elements, none twice if it has none of the
\* other's.
LEMMA JoinDistinct ==
    ASSUME NEW S, NEW s \in Seq(S), NEW r \in Seq(S)
    PROVE  /\ s \o r \in Seq(S) /\ Len(s \o r) = Len(s) + Len(r)
           /\ Elements(s \o r) = Elements(s) \cup Elements(r)
           /\ Distinct(s) /\ Distinct(r) /\ Elements(s) \cap Elements(r) = {}
                 => Distinct(s \o r)
<1>1. /\ s \o r \in Seq(S) /\ Len(s \o r) = Len(s) + Len(r)
      /\ \A i \in 1 .. Len(s) + Len(r) :
            (s \o r)[i] = IF i <= Len(s) THEN s[i] ELSE r[i - Len(s)]
  BY ConcatProperties
<1>2. /\ Len(s) \in Nat /\ Len(r) \in Nat
      /\ DOMAIN s = 1 .. Len(s) /\ DOMAIN r = 1 .. Len(r)
      /\ DOMAIN (s \o r) = 1 .. Len(s) + Len(r)
  BY <1>1, LenProperties
<1> DEFINE q == s \o r
<1>3. /\ \A i \in DOMAIN s : i \in DOMAIN q /\ q[i] = s[i]
      /\ \A j \in DOMAIN r : j + Len(s) \in DOMAIN q /\ q[j + Len(s)] = r[j]
  BY <1>1, <1>2
<1>4. \A i \in DOMAIN q : \/ i \in DOMAIN s /\ q[i] = s[i]
                          \/ i - Len(s) \in DOMAIN r /\ q[i] = r[i - Len(s)]
  BY <1>1, <1>2
<1> HIDE DEF q
<1>5. Elements(q) = Elements(s) \cup Elements(r)
  BY <1>3, <1>4 DEF Elements
<1>6. ASSUME Distinct(s), Distinct(r), Elements(s) \cap Elements(r) = {},
             NEW i \in DOMAIN q, NEW j \in DOMAIN q, q[i] = q[j]
      PROVE  i = j
  <2>1. \A k \in DOMAIN s, l \in DOMAIN r : s[k] # r[l]
    BY <1>6 DEF Elements
  <2>2. CASE i \in DOMAIN s /\ q[i] = s[i]
    BY <1>4, <1>6, <2>1, <2>2 DEF Distinct
  <2>3. CASE i - Len(s) \in DOMAIN r /\ q[i] = r[i - Len(s)]
    <3>1. j - Len(s) \in DOMAIN r /\ q[j] = r[j - Len(s)]
      BY <1>4, <1>6, <2>1, <2>3
    <3>2. i - Len(s) = j - Len(s)
      BY <1>6, <2>3, <3>1 DEF Distinct
    <3>3. i \in Int /\ j \in Int
      BY <1>2, <1>6 DEF q
    <3> QED BY <1>2, <3>2, <3>3
  <2> QED BY <1>4, <2>2, <2>3
<1> QED BY <1>1, <1>5, <1>6 DEF Distinct, q

\* One thread more, or one less, in a state.
LEMMA CountMoves ==
    ASSUME NEW S, IsFiniteSet(S), NEW x
    PROVE  /\ Cardinality(S) \in Nat
           /\ IsFiniteSet(S \cup {x}) /\ IsFiniteSet(S \ {x})
           /\ Cardinality(S \cup {x}) = IF x \in S THEN Cardinality(S) ELSE Cardinality(S) + 1
           /\ Cardinality(S \ {x}) = IF x \in S THEN Cardinality(S) - 1 ELSE Cardinality(S)
BY FS_CardinalityType, FS_AddElement, FS_RemoveElement

\* A queue of n different elements has n elements.
LEMMA CountDistinct ==
    ASSUME NEW n \in Nat, NEW S, NEW s \in [1 .. n -> S], Distinct(s)
    PROVE  IsFiniteSet(Elements(s)) /\ Cardinality(Elements(s)) = n
<1>1. s \in Bijection(1 .. n, Elements(s))
  BY DEF Bijection, Injection, Surjection, IsInjective, Elements, Distinct
<1>2. IsFiniteSet(1 .. n) /\ Cardinality(1 .. n) = n
  BY FS_Interval
<1> QED BY <1>1, <1>2, FS_Bijection DEF ExistsBijection

\* Some natural number of a set is the least: what an operating system hands out, and
\* what stands in for induction where a statement is about a set.
LEMMA Least ==
    ASSUME NEW T, T \subseteq Nat, T # {}
    PROVE  \E x \in T : \A y \in T : x <= y
<1> DEFINE R == {ss \in Nat \X Nat : ss[1] < ss[2]}
<1>1. IsWellFoundedOn(R, Nat)
  BY NatLessThanWellFounded DEF OpToRel
<1>2. PICK x \in T : \A y \in T : <<y, x>> \notin R
  BY <1>1, WFMin
<1>3. ASSUME NEW y \in T PROVE x <= y
  <2>1. x \in Nat /\ y \in Nat /\ <<y, x>> \notin R
    BY <1>2
  <2> QED BY <2>1
<1> QED BY <1>2, <1>3

\* A function on the naturals can be defined by its value at 0 and a step G: what stands
\* in for the library's theorems on recursive definitions, whose parameter is an operator.
Steps(f, S, a, G, n) ==
    f \in [0 .. n -> S] /\ f[0] = a /\ \A i \in 0 .. n - 1 : f[i + 1] = G[<<i, f[i]>>]

Recursive(f, S, a, G) ==
    f \in [Nat -> S] /\ f[0] = a /\ \A n \in Nat : f[n + 1] = G[<<n, f[n]>>]

LEMMA Recursion ==
    ASSUME NEW S, NEW a \in S, NEW G \in [Nat \X S -> S]
    PROVE  \E f : Recursive(f, S, a, G)
<1>1. ASSUME NEW n \in Nat PROVE \E f : Steps(f, S, a, G, n)
  <2> DEFINE T == {m \in Nat : ~\E f : Steps(f, S, a, G, m)}
  <2>1. SUFFICES ASSUME T # {} PROVE FALSE
    BY <1>1
  <2>2. PICK m \in T : \A k \in T : m <= k
    <3> HIDE DEF T
    <3>1. T \subseteq Nat
      BY DEF T
    <3> QED BY <2>1, <3>1, Least
  <2>3. CASE m = 0
    <3> DEFINE f == [i \in 0 .. 0 |-> a]
    <3>1. Steps(f, S, a, G, 0)
      BY DEF Steps
    <3> QED BY <2>2, <2>3, <3>1
  <2>4. CASE m # 0
    <3>1. m \in Nat /\ m - 1 \in Nat /\ m - 1 \notin T
      BY <2>2, <2>4
    <3>2. PICK f : Steps(f, S, a, G, m - 1)
      BY <3>1
    <3> DEFINE g == [i \in 0 .. m |-> IF i = m THEN G[<<m - 1, f[m - 1]>>] ELSE f[i]]
    <3>3. \A i \in 0 .. m - 1 : f[i] \in S
      BY <3>1, <3>2 DEF Steps
    <3>4. G[<<m - 1, f[m - 1]>>] \in S
      BY <3>1, <3>3
    <3>5. g \in [0 .. m -> S] /\ g[0] = a
      BY <2>4, <3>1, <3>2, <3>3, <3>4 DEF Steps
    <3>6. ASSUME NEW i \in 0 .. m - 1 PROVE g[i + 1] = G[<<i, g[i]>>]
      <4>1. i \in 0 .. m /\ i + 1 \in 0 .. m /\ i # m
        BY <3>1
      <4>2. CASE i = m - 1
        BY <3>1, <4>1, <4>2
      <4>3. CASE i # m - 1
        <5>1. i \in 0 .. (m - 1) - 1 /\ i + 1 # m
          BY <3>1, <4>1, <4>3
        <5>2. f[i + 1] = G[<<i, f[i]>>]
          BY <3>2, <5>1 DEF Steps
        <5> QED BY <4>1, <5>1, <5>2
      <4> QED BY <4>2, <4>3
    <3>7. Steps(g, S, a, G, m)
      BY <3>5, <3>6 DEF Steps
    <3> QED BY <2>2, <3>7
  <2> QED BY <2>2, <2>3, <2>4
<1> DEFINE c == [n \in Nat |-> CHOOSE f : Steps(f, S, a, G, n)]
           h == [n \in Nat |-> c[n][n]]
<1>2. ASSUME NEW n \in Nat PROVE Steps(c[n], S, a, G, n)
  BY <1>1
<1> HIDE DEF c
<1>3. ASSUME NEW n \in Nat PROVE c[n + 1][n] = c[n][n]
  <2> DEFINE T == {i \in Nat : i <= n /\ c[n + 1][i] # c[n][i]}
  <2>1. SUFFICES ASSUME T # {} PROVE FALSE
    OBVIOUS
  <2>2. PICK m \in T : \A k \in T : m <= k
    <3> HIDE DEF T
    <3>1. T \subseteq Nat
      BY DEF T
    <3> QED BY <2>1, <3>1, Least
  <2>3. Steps(c[n], S, a, G, n) /\ Steps(c[n + 1], S, a, G, n + 1)
    BY <1>2
  <2>4. m # 0
    BY <2>2, <2>3 DEF Steps
  <2>5. m - 1 \in Nat /\ m - 1 \in 0 .. n - 1 /\ m - 1 \in 0 .. (n + 1) - 1 /\ m - 1 \notin T
    BY <2>2, <2>4
  <2>6. c[n + 1][m - 1] = c[n][m - 1]
    BY <2>5
  <2>7. c[n + 1][m - 1 + 1] = c[n][m - 1 + 1]
    BY <2>3, <2>5, <2>6 DEF Steps
  <2> QED BY <2>2, <2>7
<1>4. \A n \in Nat : h[n] \in S
  BY <1>2 DEF Steps
<1>5. h[0] = a
  BY <1>2 DEF Steps
<1>6. ASSUME NEW n \in Nat PROVE h[n + 1] = G[<<n, h[n]>>]
  <2>1. c[n + 1][n + 1] = G[<<n, c[n + 1][n]>>]
    BY <1>2 DEF Steps
  <2> QED BY <1>3, <2>1
<1> QED BY <1>4, <1>5, <1>6 DEF Recursive
=============================================================================

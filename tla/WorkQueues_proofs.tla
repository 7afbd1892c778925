---------------------------- MODULE WorkQueues_proofs ----------------------------
(***************************************************************************)
(* What the operations on a queue do to its members: the lemmas that the   *)
(* proofs about the services and pools that keep queues cite.              *)
(***************************************************************************)
EXTENDS WorkQueues, SequenceTheorems, FiniteSetTheorems, TLAPS

\* A non-empty set of naturals has a least member.
LEMMA LeastNatural ==
    ASSUME NEW S \in SUBSET Nat, S # {}
    PROVE  \E m \in S : \A n \in S : m <= n
<1>1. IsWellFoundedOn(OpToRel(<,Nat), Nat)
  BY NatLessThanWellFounded
<1>2. PICK m \in S : \A n \in S : ~(<<n, m>> \in OpToRel(<,Nat))
  <2> HIDE DEF IsWellFoundedOn
  <2> QED BY <1>1, WFMin
<1>3. \A n \in S : ~(n < m)
  BY <1>2 DEF OpToRel
<1> QED BY <1>3

\* Induction over the naturals, for a set instead of a predicate.
LEMMA NatSetInduction ==
    ASSUME NEW S, 0 \in S, \A n \in Nat : n \in S => n + 1 \in S
    PROVE  Nat \subseteq S
<1>1. SUFFICES ASSUME Nat \ S # {} PROVE FALSE
  OBVIOUS
<1>2. PICK m \in Nat \ S : \A n \in Nat \ S : m <= n
  BY <1>1, LeastNatural
<1>3. m # 0 /\ m - 1 \in Nat /\ m - 1 \in S
  BY <1>2
<1> QED BY <1>2, <1>3

\* The members of a queue, by place.
LEMMA Members ==
    ASSUME NEW S, NEW q \in Seq(S)
    PROVE  /\ DOMAIN q = 1..Len(q) /\ Len(q) \in Nat /\ Range(q) \subseteq S
           /\ \A i \in 1..Len(q) : q[i] \in Range(q)
           /\ \A x \in Range(q) : \E i \in 1..Len(q) : q[i] = x
BY LenProperties, RangeOfSeq DEF Range

LEMMA EmptyQueue == Range(<<>>) = {} /\ IsInjective(<<>>)
BY EmptySeq DEF Range, IsInjective

LEMMA NoMembers ==
    ASSUME NEW S, NEW q \in Seq(S)
    PROVE  Range(q) = {} <=> q = <<>>
BY EmptySeq, Members, EmptyQueue

\* push_back
LEMMA AppendMembers ==
    ASSUME NEW S, NEW q \in Seq(S), NEW x \in S
    PROVE  /\ Append(q, x) \in Seq(S) /\ Len(Append(q, x)) = Len(q) + 1
           /\ Range(Append(q, x)) = Range(q) \cup {x}
           /\ IsInjective(q) /\ x \notin Range(q) => IsInjective(Append(q, x))
<1> DEFINE p == Append(q, x)
<1>1. p \in Seq(S) /\ Len(p) = Len(q) + 1
  BY AppendProperties
<1>2. (\A i \in 1..Len(q) : p[i] = q[i]) /\ p[Len(q) + 1] = x
  BY AppendProperties
<1>3. DOMAIN p = 1..(Len(q) + 1) /\ DOMAIN q = 1..Len(q) /\ Len(q) \in Nat
  BY <1>1, LenProperties
<1> HIDE DEF p
<1>4. \A i \in DOMAIN p : i \in DOMAIN q \/ i = Len(q) + 1
  BY <1>3
<1>5. DOMAIN q \subseteq DOMAIN p /\ Len(q) + 1 \in DOMAIN p
  BY <1>3
<1>6. Range(p) = Range(q) \cup {x}
  BY <1>2, <1>3, <1>4, <1>5 DEF Range
<1>7. ASSUME IsInjective(q), x \notin Range(q) PROVE IsInjective(p)
  <2> SUFFICES ASSUME NEW a \in DOMAIN p, NEW b \in DOMAIN p, p[a] = p[b] PROVE a = b
    BY DEF IsInjective
  <2>1. \A i \in DOMAIN q : p[i] = q[i] /\ q[i] # x
    BY <1>2, <1>3, <1>7 DEF Range
  <2> QED BY <1>2, <1>4, <1>7, <2>1 DEF IsInjective
<1> QED BY <1>1, <1>6, <1>7 DEF p

\* pop_front
LEMMA TailMembers ==
    ASSUME NEW S, NEW q \in Seq(S), q # <<>>
    PROVE  /\ Tail(q) \in Seq(S) /\ Len(Tail(q)) = Len(q) - 1 /\ Len(q) \in Nat \ {0}
           /\ Head(q) \in Range(q) /\ Head(q) \in S
           /\ Range(q) = Range(Tail(q)) \cup {Head(q)}
           /\ IsInjective(q) => IsInjective(Tail(q)) /\ Head(q) \notin Range(Tail(q))
<1> DEFINE t == Tail(q)
<1>1. t \in Seq(S) /\ Len(t) = Len(q) - 1 /\ Len(q) \in Nat \ {0}
  BY HeadTailProperties, EmptySeq
<1>2. \A i \in 1..Len(t) : t[i] = q[i + 1]
  BY HeadTailProperties
<1>3. DOMAIN t = 1..(Len(q) - 1) /\ DOMAIN q = 1..Len(q) /\ Head(q) = q[1]
  BY <1>1, LenProperties
<1> HIDE DEF t
<1>4. \A i \in DOMAIN q : i = 1 \/ (i - 1 \in DOMAIN t /\ t[i - 1] = q[i])
  BY <1>1, <1>2, <1>3
<1>5. \A i \in DOMAIN t : i + 1 \in DOMAIN q /\ i + 1 # 1 /\ t[i] = q[i + 1]
  BY <1>1, <1>2, <1>3
<1>6. 1 \in DOMAIN q
  BY <1>1, <1>3
<1>7. Range(q) = Range(t) \cup {Head(q)}
  BY <1>3, <1>4, <1>5, <1>6 DEF Range
<1>8. ASSUME IsInjective(q) PROVE IsInjective(t) /\ Head(q) \notin Range(t)
  <2>1. Head(q) \notin Range(t)
    BY <1>3, <1>5, <1>6, <1>8 DEF Range, IsInjective
  <2>2. \A a, b \in DOMAIN t : t[a] = t[b] => a + 1 = b + 1
    BY <1>5, <1>8 DEF IsInjective
  <2>3. \A a, b \in DOMAIN t : a + 1 = b + 1 => a = b
    BY <1>1, <1>3
  <2> QED BY <2>1, <2>2, <2>3 DEF IsInjective
<1> QED BY <1>1, <1>3, <1>7, <1>8, Members DEF t

\* insert(end, ...)
LEMMA ConcatMembers ==
    ASSUME NEW S, NEW q \in Seq(S), NEW r \in Seq(S)
    PROVE  /\ q \o r \in Seq(S) /\ Len(q \o r) = Len(q) + Len(r)
           /\ Range(q \o r) = Range(q) \cup Range(r)
           /\ IsInjective(q) /\ IsInjective(r) /\ Range(q) \cap Range(r) = {}
                => IsInjective(q \o r)
<1> DEFINE p == q \o r
<1>1. /\ p \in Seq(S) /\ Len(p) = Len(q) + Len(r) /\ Range(p) = Range(q) \cup Range(r)
      /\ \A i \in 1..(Len(q) + Len(r)) : p[i] = IF i <= Len(q) THEN q[i] ELSE r[i - Len(q)]
  BY ConcatProperties, RangeConcatenation
<1>2. /\ DOMAIN p = 1..(Len(q) + Len(r)) /\ DOMAIN q = 1..Len(q) /\ DOMAIN r = 1..Len(r)
      /\ Len(q) \in Nat /\ Len(r) \in Nat
  BY <1>1, LenProperties
<1> HIDE DEF p
<1>3. ASSUME IsInjective(q), IsInjective(r), Range(q) \cap Range(r) = {}
      PROVE  IsInjective(p)
  <2> SUFFICES ASSUME NEW a \in DOMAIN p, NEW b \in DOMAIN p, p[a] = p[b] PROVE a = b
    BY DEF IsInjective
  <2>1. \A i \in DOMAIN p : \/ i \in DOMAIN q /\ p[i] = q[i] /\ p[i] \in Range(q)
                            \/ /\ i - Len(q) \in DOMAIN r /\ p[i] = r[i - Len(q)]
                               /\ p[i] \in Range(r)
    BY <1>1, <1>2 DEF Range
  <2>2. CASE a \in DOMAIN q /\ b \in DOMAIN q /\ q[a] = q[b]
    BY <1>3, <2>2 DEF IsInjective
  <2>3. CASE /\ a - Len(q) \in DOMAIN r /\ b - Len(q) \in DOMAIN r
             /\ r[a - Len(q)] = r[b - Len(q)]
    <3>1. a - Len(q) = b - Len(q)
      BY <1>3, <2>3 DEF IsInjective
    <3> QED BY <3>1, <1>2
  <2> QED BY <1>3, <2>1, <2>2, <2>3
<1> QED BY <1>1, <1>3 DEF p

\* A set put into some order.
LEMMA SetToSeqMembers ==
    ASSUME NEW S, IsFiniteSet(S)
    PROVE  /\ SetToSeq(S) \in Seq(S) /\ Len(SetToSeq(S)) = Cardinality(S)
           /\ Range(SetToSeq(S)) = S /\ IsInjective(SetToSeq(S))
<1> DEFINE n == Cardinality(S)
           s == SetToSeq(S)
<1>1. n \in Nat /\ ExistsBijection(1..n, S)
  BY FS_CardinalityType
<1>2. \E f \in [1..n -> S] : IsInjective(f)
  BY <1>1 DEF ExistsBijection, Bijection, Injection, IsInjective
<1>3. s \in [1..n -> S] /\ IsInjective(s)
  BY <1>2 DEF SetToSeq
<1> HIDE DEF s
<1>4. s \in Seq(S) /\ Len(s) = n
  BY <1>1, <1>3
<1>5. s \in Injection(1..n, S)
  BY <1>3 DEF Injection, IsInjective
<1>6. IsFiniteSet(1..n) /\ Cardinality(1..n) = n
  BY <1>1, FS_Interval
<1>7. s \in Surjection(1..n, S)
  BY <1>5, <1>6, FS_Injection
<1>8. Range(s) = S
  BY <1>3, <1>7 DEF Surjection, Range
<1> QED BY <1>3, <1>4, <1>8 DEF s

\* erase(item)
LEMMA RemoveAtMembers ==
    ASSUME NEW S, NEW q \in Seq(S), IsInjective(q), NEW k \in 1..Len(q)
    PROVE  /\ RemoveAt(q, k) \in Seq(S) /\ Len(RemoveAt(q, k)) = Len(q) - 1
           /\ Range(RemoveAt(q, k)) = Range(q) \ {q[k]} /\ IsInjective(RemoveAt(q, k))
<1> DEFINE u == SubSeq(q, 1, k - 1)
           v == SubSeq(q, k + 1, Len(q))
<1>1. DOMAIN q = 1..Len(q) /\ Len(q) \in Nat /\ \A i \in 1..Len(q) : q[i] \in S
  BY Members
<1>2. /\ u \in Seq(S) /\ Len(u) = k - 1 /\ \A i \in 1..(k - 1) : u[i] = q[i]
  <2>1. /\ SubSeq(q, 1, k - 1) \in Seq(S)
        /\ Len(SubSeq(q, 1, k - 1)) = IF 1 <= k - 1 THEN (k - 1) - 1 + 1 ELSE 0
        /\ \A i \in 1..((k - 1) - 1 + 1) : SubSeq(q, 1, k - 1)[i] = q[1 + i - 1]
    <3>1. \A i \in 1..(k - 1) : q[i] \in S
      BY <1>1
    <3>2. 1 \in Int /\ k - 1 \in Int
      OBVIOUS
    <3> QED BY <3>1, <3>2, SubSeqProperties
  <2> QED BY <2>1
<1>3. /\ v \in Seq(S) /\ Len(v) = Len(q) - k
      /\ \A i \in 1..(Len(q) - k) : v[i] = q[k + i]
  <2>1. /\ SubSeq(q, k + 1, Len(q)) \in Seq(S)
        /\ Len(SubSeq(q, k + 1, Len(q))) = IF k + 1 <= Len(q) THEN Len(q) - (k + 1) + 1 ELSE 0
        /\ \A i \in 1..(Len(q) - (k + 1) + 1) : SubSeq(q, k + 1, Len(q))[i] = q[k + 1 + i - 1]
    <3>1. \A i \in (k + 1)..Len(q) : q[i] \in S
      BY <1>1
    <3>2. k + 1 \in Int /\ Len(q) \in Int
      BY <1>1
    <3> QED BY <3>1, <3>2, SubSeqProperties
  <2>2. v \in Seq(S) /\ Len(v) = Len(q) - k
    <3>1. CASE k + 1 <= Len(q)
      BY <1>1, <2>1, <3>1
    <3>2. CASE ~(k + 1 <= Len(q))
      <4>1. k = Len(q)
        <5>1. ASSUME NEW n \in Nat, NEW i \in 1..n, ~(i + 1 <= n) PROVE i = n
          BY <5>1
        <5>2. Len(q) \in Nat
          BY <1>1
        <5> QED BY <3>2, <5>1, <5>2
      <4> QED BY <1>1, <2>1, <3>2, <4>1
    <3> QED BY <3>1, <3>2
  <2>3. ASSUME NEW i \in 1..(Len(q) - k) PROVE v[i] = q[k + i]
    <3>1. i \in 1..(Len(q) - (k + 1) + 1) /\ k + 1 + i - 1 = k + i
      BY <1>1
    <3> QED BY <2>1, <3>1
  <2> QED BY <2>2, <2>3
<1> HIDE DEF u, v
<1>4. DOMAIN u = 1..(k - 1) /\ DOMAIN v = 1..(Len(q) - k)
  BY <1>2, <1>3, LenProperties
<1>5. IsInjective(u) /\ IsInjective(v) /\ Range(u) \cap Range(v) = {}
  <2>1. IsInjective(u)
    BY <1>1, <1>2, <1>4 DEF IsInjective
  <2>2. \A i \in DOMAIN v : k + i \in DOMAIN q /\ v[i] = q[k + i]
    BY <1>1, <1>3, <1>4
  <2>3. \A a, b \in DOMAIN v : v[a] = v[b] => k + a = k + b
    BY <2>2 DEF IsInjective
  <2>4. \A a, b \in DOMAIN v : k + a = k + b => a = b
    BY <1>4
  <2>5. \A i \in DOMAIN u : i \in DOMAIN q /\ u[i] = q[i] /\ \A a \in DOMAIN v : i # k + a
    BY <1>1, <1>2, <1>4
  <2>6. Range(u) \cap Range(v) = {}
    BY <2>2, <2>5 DEF IsInjective, Range
  <2> QED BY <2>1, <2>3, <2>4, <2>6 DEF IsInjective
<1>6. Range(u) \cup Range(v) = Range(q) \ {q[k]}
  <2>1. \A i \in DOMAIN q : \/ i = k
                            \/ i \in DOMAIN u /\ u[i] = q[i]
                            \/ i - k \in DOMAIN v /\ v[i - k] = q[i]
    BY <1>1, <1>2, <1>3, <1>4
  <2>2. Range(q) \ {q[k]} \subseteq Range(u) \cup Range(v)
    BY <2>1 DEF Range
  <2>3. \A i \in DOMAIN u : i \in DOMAIN q /\ i # k /\ u[i] = q[i]
    BY <1>1, <1>2, <1>4
  <2>4. \A i \in DOMAIN v : k + i \in DOMAIN q /\ k + i # k /\ v[i] = q[k + i]
    BY <1>1, <1>3, <1>4
  <2>5. k \in DOMAIN q
    BY <1>1
  <2>6. Range(u) \cup Range(v) \subseteq Range(q) \ {q[k]}
    BY <2>3, <2>4, <2>5 DEF Range, IsInjective
  <2> QED BY <2>2, <2>6
<1>7. RemoveAt(q, k) = u \o v
  BY DEF RemoveAt, u, v
<1>8. /\ u \o v \in Seq(S) /\ Len(u \o v) = Len(u) + Len(v)
      /\ Range(u \o v) = Range(u) \cup Range(v) /\ IsInjective(u \o v)
  <2>1. u \in Seq(S) /\ v \in Seq(S)
    BY <1>2, <1>3
  <2> QED BY <1>5, <2>1, ConcatMembers
<1>9. Len(u) + Len(v) = Len(q) - 1
  BY <1>1, <1>2, <1>3
<1> QED BY <1>6, <1>7, <1>8, <1>9

\* What Without keeps of the first places of a queue.
Keeps(q, J, f, n) ==
    f = [i \in 0..n |-> IF i = 0 THEN <<>>
                        ELSE IF q[i] \in J THEN f[i - 1] ELSE Append(f[i - 1], q[i])]

LEMMA KeepsExists ==
    ASSUME NEW S, NEW q \in Seq(S), NEW J, NEW n \in Nat
    PROVE  \E f : Keeps(q, J, f, n)
<1> DEFINE N == {m \in Nat : \E f : Keeps(q, J, f, m)}
<1>1. 0 \in N
  <2> DEFINE f == [i \in 0..0 |-> <<>>]
  <2>1. f = [i \in 0..0 |-> IF i = 0 THEN <<>>
                           ELSE IF q[i] \in J THEN f[i - 1] ELSE Append(f[i - 1], q[i])]
    OBVIOUS
  <2>2. Keeps(q, J, f, 0)
    BY <2>1 DEF Keeps
  <2> QED BY <2>2
<1>2. ASSUME NEW m \in Nat, m \in N PROVE m + 1 \in N
  <2>1. PICK f : Keeps(q, J, f, m)
    BY <1>2
  <2> DEFINE last == IF q[m + 1] \in J THEN f[m] ELSE Append(f[m], q[m + 1])
             g == [i \in 0..(m + 1) |-> IF i = m + 1 THEN last ELSE f[i]]
  <2>2. \A i \in 0..m : f[i] = IF i = 0 THEN <<>>
                        ELSE IF q[i] \in J THEN f[i - 1] ELSE Append(f[i - 1], q[i])
    BY <2>1 DEF Keeps
  <2>3. g[m + 1] = last /\ \A i \in 0..m : g[i] = f[i]
    OBVIOUS
  <2>4. DOMAIN g = 0..(m + 1) /\ g = [i \in 0..(m + 1) |-> g[i]]
    OBVIOUS
  <2> HIDE DEF g
  <2>5. ASSUME NEW i \in 0..(m + 1)
        PROVE  g[i] = IF i = 0 THEN <<>>
                      ELSE IF q[i] \in J THEN g[i - 1] ELSE Append(g[i - 1], q[i])
    <3>1. CASE i = m + 1
      BY <2>3, <3>1
    <3>2. CASE i # m + 1
      <4>1. i \in 0..m /\ (i # 0 => i - 1 \in 0..m)
        BY <3>2
      <4> QED BY <2>2, <2>3, <4>1
    <3> QED BY <3>1, <3>2
  <2>6. Keeps(q, J, g, m + 1)
    BY <2>4, <2>5 DEF Keeps
  <2> QED BY <2>6
<1> HIDE DEF N
<1>3. n \in N
  BY <1>1, <1>2, NatSetInduction
<1> QED BY <1>3 DEF N

\* remove_if: the members that are not withdrawn stay, once and in a queue no longer.
LEMMA WithoutMembers ==
    ASSUME NEW S, NEW q \in Seq(S), NEW J
    PROVE  /\ Without(q, J) \in Seq(S)
           /\ Len(Without(q, J)) \in Nat /\ Len(Without(q, J)) <= Len(q)
           /\ Range(Without(q, J)) = Range(q) \ J
           /\ IsInjective(q) => IsInjective(Without(q, J))
<1> DEFINE F == CHOOSE f : Keeps(q, J, f, Len(q))
           Sound(m) == /\ F[m] \in Seq(S) /\ Len(F[m]) <= m
                       /\ Range(F[m]) = {q[i] : i \in 1..m} \ J
                       /\ IsInjective(q) => IsInjective(F[m])
           N == {m \in Nat : m <= Len(q) => Sound(m)}
<1>1. Len(q) \in Nat /\ DOMAIN q = 1..Len(q) /\ \A i \in 1..Len(q) : q[i] \in S
  BY Members
<1>2. Keeps(q, J, F, Len(q))
  <2>1. \E f : Keeps(q, J, f, Len(q))
    BY <1>1, KeepsExists
  <2> QED BY <2>1
<1>3. Without(q, J) = F[Len(q)]
  BY DEF Without, Keeps
<1> HIDE DEF F
<1>4. F[0] = <<>> /\ \A i \in 1..Len(q) :
            F[i] = IF q[i] \in J THEN F[i - 1] ELSE Append(F[i - 1], q[i])
  <2>1. \A i \in 0..Len(q) : F[i] = IF i = 0 THEN <<>>
                      ELSE IF q[i] \in J THEN F[i - 1] ELSE Append(F[i - 1], q[i])
    BY <1>2 DEF Keeps
  <2>2. 0 \in 0..Len(q) /\ \A i \in 1..Len(q) : i \in 0..Len(q) /\ i # 0
    BY <1>1
  <2> QED BY <2>1, <2>2
<1>5. 0 \in N
  <2>1. {q[i] : i \in 1..0} = {}
    OBVIOUS
  <2>2. Sound(0)
    BY <1>4, <2>1, EmptyQueue, EmptySeq
  <2> QED BY <2>2
<1>6. ASSUME NEW m \in Nat, m \in N PROVE m + 1 \in N
  <2> SUFFICES ASSUME m + 1 <= Len(q) PROVE Sound(m + 1)
    OBVIOUS
  <2>1. Sound(m) /\ m + 1 \in 1..Len(q) /\ (m + 1) - 1 = m
    BY <1>1, <1>6
  <2>2. {q[i] : i \in 1..(m + 1)} = {q[i] : i \in 1..m} \cup {q[m + 1]}
    <3>1. 1..(m + 1) = 1..m \cup {m + 1}
      OBVIOUS
    <3> QED BY <3>1
  <2>3. CASE q[m + 1] \in J
    <3>1. F[m + 1] = F[m]
      BY <1>4, <2>1, <2>3
    <3>2. Len(F[m]) \in Nat
      BY <2>1, LenProperties
    <3> QED BY <2>1, <2>2, <2>3, <3>1, <3>2
  <2>4. CASE q[m + 1] \notin J
    <3>1. F[m + 1] = Append(F[m], q[m + 1]) /\ q[m + 1] \in S
      BY <1>1, <1>4, <2>1, <2>4
    <3>2. Len(F[m]) \in Nat
      BY <2>1, LenProperties
    <3>3. F[m + 1] \in Seq(S) /\ Len(F[m + 1]) = Len(F[m]) + 1
          /\ Range(F[m + 1]) = Range(F[m]) \cup {q[m + 1]}
          /\ (IsInjective(F[m]) /\ q[m + 1] \notin Range(F[m]) => IsInjective(F[m + 1]))
      BY <2>1, <3>1, AppendMembers
    <3>4. IsInjective(q) => q[m + 1] \notin Range(F[m])
      <4>1. \A i \in 1..m : i \in DOMAIN q /\ m + 1 \in DOMAIN q /\ i # m + 1
        BY <1>1, <2>1
      <4> QED BY <2>1, <4>1 DEF IsInjective
    <3> QED BY <2>1, <2>2, <2>4, <3>2, <3>3, <3>4
  <2> QED BY <2>3, <2>4
<1> HIDE DEF N
<1>7. Len(q) \in N
  BY <1>1, <1>5, <1>6, NatSetInduction
<1>8. Sound(Len(q))
  BY <1>1, <1>7 DEF N
<1>9. Range(q) = {q[i] : i \in 1..Len(q)}
  BY RangeEquality
<1> QED BY <1>3, <1>8, <1>9, LenProperties

================================================================================

-------------------------- MODULE ChatSessionProofs --------------------------
(***************************************************************************)
(* Proofs about ChatSession, for any number of items, epochs, failures,    *)
(* fetches and attempts, whatever subscribers do: types, and that nothing  *)
(* that arrives is lost, doubled or out of order on its way to a timeline  *)
(* and a session.                                                          *)
(*                                                                         *)
(* First what the sequences compute: merges and sorts keep the last item   *)
(* of each key, in order; the two folds of a batch hold the same items of  *)
(* the server; what a timeline has after a cursor follows it one by one.   *)
(*                                                                         *)
(* Then the invariant, in the order in which an item travels.              *)
(*   StreamInv   at most one fetch or one timer is under way, and a fetch  *)
(*               is served what comes after the cursor                     *)
(*   TakenInv    the runtime has taken just the items up to the cursor     *)
(*   HookInv     View, the session as it will be once the batch is folded, *)
(*               is of one epoch, in order, and has all the hook's cursor  *)
(*               says it has; it has all the runtime has, too, or the item *)
(*               was missed (Covered), so that what the hook takes next    *)
(*               leaves no gap; and the answer to a fetch that is under    *)
(*               way will follow the cursor (Asked)                        *)
(* The next item fits what is held (FitsNext, FitsFirst) and leaves it     *)
(* held (HeldItem); batches and answers repeat that step.                  *)
(***************************************************************************)
EXTENDS ChatSession, FiniteSetTheorems, TLAPS

Less == {p \in Nat \X Nat : p[1] < p[2]}

(* Every nonempty set of numbers has a least one. *)
LEMMA LeastNat ==
    ASSUME NEW T \in SUBSET Nat, T # {}
    PROVE  \E n \in T : \A k \in T : n <= k
<1>1. PICK n \in T : \A k \in T : ~(<<k, n>> \in Less)
  <2>1. IsWellFoundedOn(Less, Nat)
    BY NatLessThanWellFounded DEF OpToRel, Less
  <2> HIDE DEF Less
  <2>2. QED
    BY <2>1, WFMin
<1>2. ASSUME NEW k \in T PROVE n <= k
  <2>1. <<k, n>> \in Less <=> k < n
    BY DEF Less
  <2>2. n \in Nat /\ k \in Nat
    OBVIOUS
  <2>3. QED
    BY <1>1, <2>1, <2>2
<1>3. QED
  BY <1>2

(* What holds of 0 and of the next number holds of all up to n. *)
LEMMA Upwards ==
    ASSUME NEW n \in Nat, NEW T, 0 \in T, \A i \in 1..n : i - 1 \in T => i \in T
    PROVE  \A i \in 0..n : i \in T
<1> DEFINE Bad == {i \in 0..n : i \notin T}
<1>1. SUFFICES ASSUME Bad # {} PROVE FALSE
  OBVIOUS
<1>2. PICK i \in Bad : \A j \in Bad : i <= j
  <2>1. Bad \in SUBSET Nat
    OBVIOUS
  <2> HIDE DEF Bad
  <2>2. QED
    BY <1>1, <2>1, LeastNat
<1>3. i \in 1..n
  OBVIOUS
<1>4. i - 1 \in 0..n /\ i - 1 \notin Bad
  BY <1>2, <1>3
<1>5. QED
  BY <1>3, <1>4

(* A recursion over the numbers up to n has a solution.                    *)
Iterates(g, v, step, n) == g[0] = v /\ \A i \in 1..n : g[i] = step[i][g[i - 1]]

(* Its values are of the set that the steps stay in.                       *)
LEMMA Recursion ==
    ASSUME NEW n \in Nat, NEW V, NEW v \in V, NEW step \in [1..n -> [V -> V]]
    PROVE  \E g \in [0..n -> V] : Iterates(g, v, step, n)
<1> DEFINE Solved(k) == \E g \in [0..k -> V] : Iterates(g, v, step, k)
           Bad == {k \in 0..n : ~Solved(k)}
<1>1. Solved(0)
  <2> DEFINE h == [i \in 0..0 |-> v]
  <2>1. h \in [0..0 -> V] /\ h[0] = v
    OBVIOUS
  <2> HIDE DEF h
  <2>2. QED
    BY <2>1 DEF Iterates
<1>2. ASSUME NEW k \in 1..n, Solved(k - 1) PROVE Solved(k)
  <2>1. PICK g \in [0..k - 1 -> V] : Iterates(g, v, step, k - 1)
    BY <1>2
  <2>2. g[0] = v /\ \A i \in 1..k - 1 : g[i] = step[i][g[i - 1]]
    BY <2>1 DEF Iterates
  <2> DEFINE h == [i \in 0..k |-> IF i = k THEN step[k][g[k - 1]] ELSE g[i]]
  <2>3. step[k][g[k - 1]] \in V
    <3>1. g[k - 1] \in V /\ step[k] \in [V -> V]
      OBVIOUS
    <3>2. QED
      BY <3>1
  <2>4. h \in [0..k -> V]
    BY <2>3
  <2>5. h[0] = v
    BY <2>2
  <2>6. ASSUME NEW i \in 1..k PROVE h[i] = step[i][h[i - 1]]
    <3>1. i - 1 \in 0..k - 1 /\ h[i - 1] = g[i - 1]
      OBVIOUS
    <3>2. CASE i = k
      BY <3>1, <3>2
    <3>3. CASE i # k
      <4>1. i \in 1..k - 1 /\ h[i] = g[i]
        BY <3>3
      <4>2. g[i] = step[i][g[i - 1]]
        BY <2>2, <4>1
      <4>3. QED
        BY <3>1, <4>1, <4>2
    <3>4. QED
      BY <3>2, <3>3
  <2> HIDE DEF h
  <2>7. QED
    BY <2>4, <2>5, <2>6 DEF Iterates
<1> HIDE DEF Solved
<1>3. Bad = {}
  <2>1. SUFFICES ASSUME Bad # {} PROVE FALSE
    OBVIOUS
  <2>2. PICK k \in Bad : \A j \in Bad : k <= j
    <3>1. Bad \in SUBSET Nat
      OBVIOUS
    <3> HIDE DEF Bad
    <3>2. QED
      BY <2>1, <3>1, LeastNat
  <2>3. k \in 1..n
    BY <1>1
  <2>4. k - 1 \in 0..n /\ k - 1 \notin Bad
    BY <2>2, <2>3
  <2>5. QED
    BY <1>2, <2>3, <2>4
<1>4. Solved(n)
  BY <1>3
<1>5. QED
  BY <1>4 DEF Solved

Embeds(r, s, T, n, e) ==
    /\ e \in [1..Len(r) -> 1..n]
    /\ \A p \in 1..Len(r) : r[p] = s[e[p]] /\ s[e[p]] \in T
    /\ \A p, q \in 1..Len(r) : p < q => e[p] < e[q]
    /\ \A j \in 1..n : s[j] \in T => \E p \in 1..Len(r) : e[p] = j

(* Filter keeps the members of T, in order.                                *)
LEMMA FilterFacts ==
    ASSUME NEW S, NEW s \in Seq(S), NEW T
    PROVE  /\ Filter(s, T) \in Seq(S)
           /\ \E e : Embeds(Filter(s, T), s, T, Len(s), e)
<1> DEFINE Body(g) == [i \in 0..Len(s) |->
                      IF i = 0 THEN <<>>
                      ELSE IF s[i] \in T THEN Append(g[i - 1], s[i]) ELSE g[i - 1]]
           f == CHOOSE g : g = Body(g)
           Good(n) == f[n] \in Seq(S) /\ \E e : Embeds(f[n], s, T, n, e)
           Bad == {n \in 0..Len(s) : ~Good(n)}
<1>1. Filter(s, T) = f[Len(s)]
  BY DEF Filter
<1>2. f = Body(f)
  <2> DEFINE step == [i \in 1..Len(s) |->
                        [q \in Seq(S) |-> IF s[i] \in T THEN Append(q, s[i]) ELSE q]]
  <2>1. step \in [1..Len(s) -> [Seq(S) -> Seq(S)]] /\ <<>> \in Seq(S) /\ Len(s) \in Nat
    <3>1. \A i \in 1..Len(s), q \in Seq(S) : Append(q, s[i]) \in Seq(S)
      OBVIOUS
    <3>2. QED
      BY <3>1
  <2>2. \A i \in 1..Len(s), q \in Seq(S) :
           step[i][q] = IF s[i] \in T THEN Append(q, s[i]) ELSE q
    OBVIOUS
  <2> HIDE DEF step
  <2>3. PICK g \in [0..Len(s) -> Seq(S)] : Iterates(g, <<>>, step, Len(s))
    BY <2>1, Recursion
  <2>4. \A i \in 1..Len(s) :
           g[i] = IF s[i] \in T THEN Append(g[i - 1], s[i]) ELSE g[i - 1]
    <3>1. \A i \in 1..Len(s) : g[i - 1] \in Seq(S)
      OBVIOUS
    <3>2. QED
      BY <2>2, <2>3, <3>1 DEF Iterates
  <2>5. g = Body(g)
    <3>1. \A i \in 0..Len(s) : i = 0 \/ i \in 1..Len(s)
      BY <2>1
    <3>2. g[0] = <<>>
      BY <2>3 DEF Iterates
    <3>3. \A i \in 0..Len(s) : g[i] = Body(g)[i]
      BY <2>4, <3>1, <3>2
    <3>4. DOMAIN Body(g) = 0..Len(s) /\ g = [i \in 0..Len(s) |-> g[i]]
      OBVIOUS
    <3>5. QED
      BY <3>3, <3>4
  <2> HIDE DEF Body
  <2>6. QED
    BY <2>5
<1>3. \A i \in 0..Len(s) : f[i] = IF i = 0 THEN <<>>
                     ELSE IF s[i] \in T THEN Append(f[i - 1], s[i]) ELSE f[i - 1]
  <2> HIDE DEF f
  <2>1. QED
    BY <1>2
<1>4. Len(s) \in Nat
  OBVIOUS
<1> HIDE DEF f
<1>5. Good(0)
  <2> DEFINE e == [p \in 1..0 |-> 0]
  <2>1. f[0] = <<>> /\ Len(<<>>) = 0 /\ <<>> \in Seq(S)
    BY <1>3, <1>4
  <2>2. Embeds(<<>>, s, T, 0, e)
    BY <2>1 DEF Embeds
  <2> HIDE DEF e
  <2>3. QED
    BY <2>1, <2>2
<1>6. ASSUME NEW n \in 1..Len(s), Good(n - 1) PROVE Good(n)
  <2>1. f[n - 1] \in Seq(S) /\ n \in Nat /\ n >= 1 /\ s[n] \in S
    BY <1>4, <1>6
  <2>2. PICK d : Embeds(f[n - 1], s, T, n - 1, d)
    BY <1>6
  <2>3. PICK r : r = f[n - 1] /\ r \in Seq(S) /\ Len(r) \in Nat
    BY <2>1
  <2>4. CASE s[n] \in T
    <3> DEFINE e == [p \in 1..Len(r) + 1 |-> IF p = Len(r) + 1 THEN n ELSE d[p]]
               q == Append(r, s[n])
    <3>1. f[n] = q /\ q \in Seq(S) /\ Len(q) = Len(r) + 1
      <4>1. n \in 0..Len(s) /\ n # 0
        BY <1>4, <2>1
      <4>2. f[n] = Append(f[n - 1], s[n])
        BY <1>3, <2>4, <4>1
      <4>3. QED
        BY <2>1, <2>3, <4>2
    <3>2. (\A p \in 1..Len(r) : q[p] = r[p]) /\ q[Len(r) + 1] = s[n]
      BY <2>1, <2>3
    <3> HIDE DEF q
    <3>3. d \in [1..Len(r) -> 1..n - 1]
      BY <2>2, <2>3 DEF Embeds
    <3>4. e \in [1..Len(q) -> 1..n]
      BY <2>1, <2>3, <3>1, <3>3
    <3>5. (\A p \in 1..Len(r) : e[p] = d[p] /\ d[p] < n) /\ e[Len(r) + 1] = n
      <4>1. \A p \in 1..Len(r) : p \in 1..Len(r) + 1 /\ p # Len(r) + 1 /\ d[p] \in 1..n - 1
        BY <2>3, <3>3
      <4>2. \A k \in 1..n - 1 : k < n
        BY <2>1
      <4>3. Len(r) + 1 \in 1..Len(r) + 1
        BY <2>3
      <4>4. QED
        BY <4>1, <4>2, <4>3
    <3> HIDE DEF e
    <3>6. \A p \in 1..Len(q) : p \in 1..Len(r) \/ p = Len(r) + 1
      BY <2>3, <3>1
    <3>7. \A p \in 1..Len(q) : q[p] = s[e[p]] /\ s[e[p]] \in T
      BY <2>2, <2>3, <2>4, <3>2, <3>5, <3>6 DEF Embeds
    <3>8. ASSUME NEW a \in 1..Len(q), NEW b \in 1..Len(q), a < b PROVE e[a] < e[b]
      <4>1. a \in 1..Len(r)
        BY <2>3, <3>1, <3>8
      <4>2. CASE b \in 1..Len(r)
        BY <2>2, <2>3, <3>5, <3>8, <4>1, <4>2 DEF Embeds
      <4>3. CASE b = Len(r) + 1
        BY <3>5, <4>1, <4>3
      <4>4. QED
        BY <3>6, <4>2, <4>3
    <3>9. ASSUME NEW j \in 1..n, s[j] \in T PROVE \E p \in 1..Len(q) : e[p] = j
      <4>1. CASE j = n
        BY <2>3, <3>1, <3>5, <4>1
      <4>2. CASE j # n
        <5>1. j \in 1..n - 1
          BY <2>1, <4>2
        <5>2. PICK p \in 1..Len(r) : d[p] = j
          BY <2>2, <2>3, <3>9, <5>1 DEF Embeds
        <5>3. p \in 1..Len(q) /\ e[p] = j
          BY <2>3, <3>1, <3>5, <5>2
        <5>4. QED
          BY <5>3
      <4>3. QED
        BY <4>1, <4>2
    <3>10. Embeds(q, s, T, n, e)
      BY <3>4, <3>7, <3>8, <3>9 DEF Embeds
    <3>11. QED
      BY <3>1, <3>10
  <2>5. CASE s[n] \notin T
    <3>1. f[n] = f[n - 1]
      BY <1>3, <1>4, <2>1, <2>5
    <3>2. Embeds(f[n], s, T, n, d)
      BY <2>1, <2>2, <2>3, <2>5, <3>1 DEF Embeds
    <3>3. QED
      BY <2>1, <3>1, <3>2
  <2>6. QED
    BY <2>4, <2>5
<1> HIDE DEF Good
<1>7. Bad = {}
  <2>1. SUFFICES ASSUME Bad # {} PROVE FALSE
    OBVIOUS
  <2>2. PICK n \in Bad : \A k \in Bad : n <= k
    <3>1. Bad \in SUBSET Nat
      OBVIOUS
    <3> HIDE DEF Bad
    <3>2. QED
      BY <2>1, <3>1, LeastNat
  <2>3. n \in 1..Len(s)
    BY <1>4, <1>5
  <2>4. n - 1 \in 0..Len(s) /\ n - 1 \notin Bad
    BY <2>2, <2>3, <1>4
  <2>5. QED
    BY <1>6, <2>3, <2>4
<1>8. Good(Len(s))
  BY <1>4, <1>7
<1>9. QED
  BY <1>1, <1>8 DEF Good

(* The range of a sequence is finite, and what its entries are.            *)
LEMMA RangeFacts ==
    ASSUME NEW S, NEW s \in Seq(S)
    PROVE  /\ IsFiniteSet(Range(s))
           /\ \A e : e \in Range(s) <=> \E i \in 1..Len(s) : s[i] = e
<1>1. Len(s) \in Nat /\ DOMAIN s = 1..Len(s)
  OBVIOUS
<1>2. Range(s) = {s[i] : i \in 1..Len(s)}
  BY <1>1 DEF Range
<1>3. [i \in 1..Len(s) |-> s[i]] \in Surjection(1..Len(s), Range(s))
  BY <1>2 DEF Surjection
<1>4. IsFiniteSet(1..Len(s))
  BY <1>1, FS_Interval
<1>5. IsFiniteSet(Range(s))
  BY <1>3, <1>4, FS_Surjection
<1>6. QED
  BY <1>2, <1>5

(* The numbers up to m are m.                                              *)
LEMMA UpTo ==
    ASSUME NEW m \in Nat
    PROVE  IsFiniteSet(1..m) /\ Cardinality(1..m) = m
<1>1. 1 \in Int /\ m \in Int
  OBVIOUS
<1>2. Cardinality(1..m) = IF 1 > m THEN 0 ELSE m - 1 + 1
  BY <1>1, FS_Interval
<1>3. IsFiniteSet(1..m)
  BY <1>1, FS_Interval
<1>4. QED
  BY <1>2, <1>3

(* The members of a finite set in a strict total order have ranks, which   *)
(* are the numbers up to its cardinality and grow with the order.          *)
Rank(K, R, i) == Cardinality({j \in K : <<j, i>> \in R})

(* They are the numbers below the cardinality, each of one member.         *)
LEMMA Ranks ==
    ASSUME NEW K, IsFiniteSet(K), NEW R,
           \A i \in K : <<i, i>> \notin R,
           \A i, j, k \in K : <<i, j>> \in R /\ <<j, k>> \in R => <<i, k>> \in R,
           \A i, j \in K : i = j \/ <<i, j>> \in R \/ <<j, i>> \in R
    PROVE  /\ Cardinality(K) \in Nat
           /\ \A i \in K : Rank(K, R, i) \in 0..Cardinality(K) - 1
           /\ \A i, j \in K : <<i, j>> \in R <=> Rank(K, R, i) < Rank(K, R, j)
           /\ \A m \in 0..Cardinality(K) - 1 : \E i \in K : Rank(K, R, i) = m
<1> DEFINE Below(i) == {j \in K : <<j, i>> \in R}
           n == Cardinality(K)
           rank == [i \in K |-> Rank(K, R, i)]
<1>1. n \in Nat
  BY FS_CardinalityType
<1>2. \A i : Rank(K, R, i) = Cardinality(Below(i))
  BY DEF Rank
<1>3. ASSUME NEW i \in K
      PROVE  IsFiniteSet(Below(i)) /\ Cardinality(Below(i)) \in 0..n - 1
  <2>1. Below(i) \in SUBSET K /\ Below(i) # K
    OBVIOUS
  <2> HIDE DEF Below
  <2>2. IsFiniteSet(Below(i)) /\ Cardinality(Below(i)) <= n /\ Cardinality(Below(i)) # n
    BY <2>1, FS_Subset
  <2>3. Cardinality(Below(i)) \in Nat
    BY <2>2, FS_CardinalityType
  <2>4. QED
    BY <1>1, <2>2, <2>3
<1>4. ASSUME NEW i \in K, NEW j \in K, <<i, j>> \in R
      PROVE  Cardinality(Below(i)) < Cardinality(Below(j))
  <2>1. Below(i) \in SUBSET Below(j) /\ Below(i) # Below(j)
    <3>1. Below(i) \subseteq Below(j)
      BY <1>4
    <3>2. i \in Below(j) /\ i \notin Below(i)
      BY <1>4
    <3>3. QED
      BY <3>1, <3>2
  <2> HIDE DEF Below
  <2>2. IsFiniteSet(Below(j)) /\ Cardinality(Below(j)) \in Int /\ Cardinality(Below(i)) \in Int
    BY <1>1, <1>3
  <2>3. Cardinality(Below(i)) <= Cardinality(Below(j)) /\ Cardinality(Below(i)) # Cardinality(Below(j))
    BY <2>1, <2>2, FS_Subset
  <2>4. QED
    BY <2>2, <2>3
<1> HIDE DEF Below
<1>5. ASSUME NEW i \in K PROVE Rank(K, R, i) \in 0..n - 1
  BY <1>2, <1>3
<1>6. ASSUME NEW i \in K, NEW j \in K, <<i, j>> \in R PROVE Rank(K, R, i) < Rank(K, R, j)
  BY <1>2, <1>4, <1>6
<1>7. ASSUME NEW i \in K, NEW j \in K
      PROVE  <<i, j>> \in R <=> Rank(K, R, i) < Rank(K, R, j)
  <2>1. Rank(K, R, i) \in Int /\ Rank(K, R, j) \in Int
    BY <1>1, <1>5
  <2>2. CASE <<i, j>> \in R
    BY <1>6, <2>2
  <2>3. CASE i = j
    BY <2>1, <2>3
  <2>4. CASE <<j, i>> \in R
    <3>1. Rank(K, R, j) < Rank(K, R, i)
      BY <1>6, <2>4
    <3>2. <<i, j>> \notin R
      BY <2>4
    <3>3. QED
      BY <2>1, <3>1, <3>2
  <2>5. QED
    BY <2>2, <2>3, <2>4
<1>8. ASSUME NEW m \in 0..n - 1 PROVE \E i \in K : Rank(K, R, i) = m
  <2>1. \A i \in K : rank[i] = Rank(K, R, i) /\ rank[i] \in 0..n - 1
    BY <1>5
  <2>2. rank \in [K -> 0..n - 1]
    BY <2>1
  <2>3. \A i, j \in K : rank[i] = rank[j] => i = j
    <3> SUFFICES ASSUME NEW i \in K, NEW j \in K, i # j PROVE rank[i] # rank[j]
      OBVIOUS
    <3>1. rank[i] \in Int /\ rank[j] \in Int
      BY <1>1, <2>1
    <3>2. rank[i] < rank[j] \/ rank[j] < rank[i]
      BY <1>6, <2>1
    <3> HIDE DEF rank
    <3>3. QED
      BY <3>1, <3>2
  <2> HIDE DEF rank
  <2>4. rank \in Injection(K, 0..n - 1)
    BY <2>2, <2>3 DEF Injection, IsInjective
  <2>5. IsFiniteSet(0..n - 1) /\ Cardinality(0..n - 1) = n
    <3>1. 0 \in Int /\ n - 1 \in Int
      BY <1>1
    <3>2. IsFiniteSet(0..n - 1) /\ Cardinality(0..n - 1) = IF 0 > n - 1 THEN 0 ELSE n - 1 - 0 + 1
      BY <3>1, FS_Interval
    <3>3. QED
      BY <1>1, <3>2
  <2>6. rank \in Surjection(K, 0..n - 1)
    BY <2>4, <2>5, FS_Injection
  <2>7. PICK i \in K : rank[i] = m
    BY <2>6 DEF Surjection
  <2>8. QED
    BY <2>1, <2>7
<1>9. QED
  BY <1>1, <1>5, <1>7, <1>8

-----------------------------------------------------------------------------
(* Timelines.                                                              *)

Item == {e \in [epoch : Nat, seq : Nat, name : Nat] : e.seq > 0 => e.epoch > 0 /\ e.name = 0}

(* What an item is: of the server, with a key of its own, or local.        *)
LEMMA ItemFacts ==
    ASSUME NEW e \in Item
    PROVE  /\ e.epoch \in Nat /\ e.seq \in Nat
           /\ IsServer(e) => e = Envelope(e.epoch, e.seq) /\ e.epoch # 0
           /\ IsLocal(e) <=> e.seq = 0
           /\ IsLocal(e) <=> ~IsServer(e)
BY DEF Item, IsServer, IsLocal, Envelope

(* The items of the server.                                                *)
LEMMA EnvelopeFacts ==
    ASSUME NEW epo \in Nat \ {0}, NEW s \in Nat \ {0}
    PROVE  LET e == Envelope(epo, s)
           IN  e \in Item /\ e.epoch = epo /\ e.seq = s /\ IsServer(e) /\ TimelineKey(e) = <<epo, s>>
BY DEF Item, IsServer, Envelope, TimelineKey

(* Items of the server with the same key are the same.                     *)
LEMMA SameKey ==
    ASSUME NEW d \in Item, NEW e \in Item, TimelineKey(d) = TimelineKey(e)
    PROVE  d.epoch = e.epoch /\ d.seq = e.seq /\ (IsServer(e) => d = e)
BY DEF Item, IsServer, TimelineKey

(* The entries of a timeline are items.                                    *)
LEMMA EntryOf ==
    ASSUME NEW es \in Seq(Item), NEW i \in 1..Len(es)
    PROVE  es[i] \in Item /\ es[i].epoch \in Nat /\ es[i].seq \in Nat
BY DEF Item

(* Before orders the envelopes that are kept.                              *)
Order(es) == {p \in Newest(es) \X Newest(es) : Before(es, p[1], p[2])}

(* Before orders the newest entries of a timeline strictly and totally.    *)
LEMMA BeforeFacts ==
    ASSUME NEW es \in Seq(Item)
    PROVE  /\ IsFiniteSet(Newest(es))
           /\ \A i \in Newest(es) : <<i, i>> \notin Order(es)
           /\ \A i, j, k \in Newest(es) :
                 <<i, j>> \in Order(es) /\ <<j, k>> \in Order(es) => <<i, k>> \in Order(es)
           /\ \A i, j \in Newest(es) : i = j \/ <<i, j>> \in Order(es) \/ <<j, i>> \in Order(es)
<1> DEFINE n == Len(es)
           Alikes(i) == {k \in 1..n : es[k].epoch = es[i].epoch}
           first == [i \in 1..n |-> CHOOSE k \in Alikes(i) : \A l \in Alikes(i) : k <= l]
<1>1. n \in Nat /\ \A i \in 1..n : es[i] \in Item /\ es[i].epoch \in Nat /\ es[i].seq \in Nat
  BY EntryOf
<1>2. ASSUME NEW i \in 1..n
      PROVE  /\ first[i] \in 1..n /\ first[i] <= i /\ es[first[i]].epoch = es[i].epoch
             /\ \A l \in 1..n : es[l].epoch = es[i].epoch => first[i] <= l
  <2>1. i \in Alikes(i) /\ Alikes(i) \in SUBSET Nat
    BY <1>1
  <2>2. first[i] = CHOOSE k \in Alikes(i) : \A l \in Alikes(i) : k <= l
    OBVIOUS
  <2>3. \A l : l \in Alikes(i) <=> l \in 1..n /\ es[l].epoch = es[i].epoch
    OBVIOUS
  <2> HIDE DEF Alikes, first
  <2>4. \E k \in Alikes(i) : \A l \in Alikes(i) : k <= l
    BY <2>1, LeastNat
  <2>5. first[i] \in Alikes(i) /\ \A l \in Alikes(i) : first[i] <= l
    BY <2>2, <2>4
  <2>6. QED
    BY <2>1, <2>3, <2>5
<1> HIDE DEF first
<1>3. ASSUME NEW i \in 1..n, NEW j \in 1..n
      PROVE  /\ es[i].epoch = es[j].epoch <=> first[i] = first[j]
             /\ es[i].epoch # es[j].epoch => (Before(es, i, j) <=> first[i] < first[j])
             /\ es[i].epoch = es[j].epoch => (Before(es, i, j) <=> es[i].seq < es[j].seq)
  <2>1. es[i].epoch = es[j].epoch <=> first[i] = first[j]
    <3>1. ASSUME es[i].epoch = es[j].epoch PROVE first[i] = first[j]
      <4>1. first[i] <= first[j] /\ first[j] <= first[i]
        BY <1>2, <3>1
      <4>2. first[i] \in Int /\ first[j] \in Int
        BY <1>1, <1>2
      <4>3. QED
        BY <4>1, <4>2
    <3>2. ASSUME first[i] = first[j] PROVE es[i].epoch = es[j].epoch
      BY <1>2, <3>2
    <3>3. QED
      BY <3>1, <3>2
  <2>2. es[i].epoch = es[j].epoch => (Before(es, i, j) <=> es[i].seq < es[j].seq)
    BY DEF Before
  <2>3. ASSUME es[i].epoch # es[j].epoch PROVE Before(es, i, j) <=> first[i] < first[j]
    <3>1. Before(es, i, j) <=> \E k \in 1..j - 1 : /\ es[k].epoch = es[i].epoch
                                                   /\ \A l \in 1..k : es[l].epoch # es[j].epoch
      BY <2>3 DEF Before
    <3>2. ASSUME NEW k \in 1..j - 1, es[k].epoch = es[i].epoch, \A l \in 1..k : es[l].epoch # es[j].epoch
          PROVE  first[i] < first[j]
      <4>1. k \in 1..n /\ first[i] <= k
        BY <1>1, <1>2, <3>2
      <4>2. first[j] \in 1..n /\ first[j] \notin 1..k
        BY <1>2, <3>2
      <4>3. first[i] \in Int
        BY <1>1, <1>2
      <4>4. QED
        BY <1>1, <4>1, <4>2, <4>3
    <3>3. ASSUME first[i] < first[j]
          PROVE  \E k \in 1..j - 1 : /\ es[k].epoch = es[i].epoch
                                     /\ \A l \in 1..k : es[l].epoch # es[j].epoch
      <4>1. first[i] \in 1..n /\ first[j] \in 1..n /\ first[j] <= j /\ es[first[i]].epoch = es[i].epoch
        BY <1>2
      <4>2. first[i] \in 1..j - 1
        BY <1>1, <3>3, <4>1
      <4>3. \A l \in 1..first[i] : es[l].epoch # es[j].epoch
        <5> SUFFICES ASSUME NEW l \in 1..first[i], es[l].epoch = es[j].epoch PROVE FALSE
          OBVIOUS
        <5>1. l \in 1..n
          BY <1>1, <4>1
        <5>2. first[j] <= l
          BY <1>2, <5>1
        <5>3. QED
          BY <1>1, <3>3, <4>1, <5>1, <5>2
      <4>4. QED
        BY <4>1, <4>2, <4>3
    <3>4. QED
      BY <3>1, <3>2, <3>3
  <2>4. QED
    BY <2>1, <2>2, <2>3
<1>4. Newest(es) \in SUBSET (1..n)
  BY DEF Newest
<1>5. \A i, j \in Newest(es) : <<i, j>> \in Order(es) <=> Before(es, i, j)
  BY DEF Order
<1>6. IsFiniteSet(Newest(es))
  BY <1>1, <1>4, UpTo, FS_Subset
<1>7. \A i \in Newest(es) : <<i, i>> \notin Order(es)
  <2> SUFFICES ASSUME NEW i \in Newest(es) PROVE ~Before(es, i, i)
    BY <1>5
  <2>1. es[i].seq \in Nat
    BY <1>1, <1>4
  <2>2. QED
    BY <2>1 DEF Before
<1>8. ASSUME NEW i \in Newest(es), NEW j \in Newest(es), NEW k \in Newest(es),
             Before(es, i, j), Before(es, j, k)
      PROVE  Before(es, i, k)
  <2>1. i \in 1..n /\ j \in 1..n /\ k \in 1..n
    BY <1>4
  <2>2. first[i] \in Int /\ first[j] \in Int /\ first[k] \in Int
    BY <1>1, <1>2, <2>1
  <2>3. es[i].seq \in Int /\ es[j].seq \in Int /\ es[k].seq \in Int
    BY <1>1, <2>1
  <2>4. first[i] < first[j] \/ (first[i] = first[j] /\ es[i].seq < es[j].seq)
    BY <1>3, <1>8, <2>1
  <2>5. first[j] < first[k] \/ (first[j] = first[k] /\ es[j].seq < es[k].seq)
    BY <1>3, <1>8, <2>1
  <2>6. first[i] < first[k] \/ (first[i] = first[k] /\ es[i].seq < es[k].seq)
    BY <2>2, <2>3, <2>4, <2>5
  <2>7. first[i] < first[k] => first[i] # first[k]
    BY <2>2
  <2>8. QED
    BY <1>3, <2>1, <2>6, <2>7
<1>9. ASSUME NEW i \in Newest(es), NEW j \in Newest(es), i # j
      PROVE  Before(es, i, j) \/ Before(es, j, i)
  <2>1. i \in 1..n /\ j \in 1..n
    BY <1>4
  <2>2. first[i] \in Int /\ first[j] \in Int /\ es[i].seq \in Int /\ es[j].seq \in Int
    BY <1>1, <1>2, <2>1
  <2>3. es[i].epoch = es[j].epoch => es[i].seq # es[j].seq
    <3>1. TimelineKey(es[i]) # TimelineKey(es[j])
      <4>1. j \in i + 1..n \/ i \in j + 1..n
        BY <1>1, <1>9, <2>1
      <4>2. QED
        BY <4>1 DEF Newest
    <3>2. QED
      BY <3>1 DEF TimelineKey
  <2>4. QED
    BY <1>3, <2>1, <2>2, <2>3
<1>10. QED
  BY <1>5, <1>6, <1>7, <1>8, <1>9

(* Every key of a timeline has its newest entry.                           *)
LEMMA NewestFacts ==
    ASSUME NEW es \in Seq(Item), NEW i \in 1..Len(es)
    PROVE  \E j \in Newest(es) : TimelineKey(es[j]) = TimelineKey(es[i])
<1> DEFINE n == Len(es)
           Later == {m \in 0..n : \E k \in 1..n : m = n - k /\ TimelineKey(es[k]) = TimelineKey(es[i])}
<1>1. n \in Nat
  OBVIOUS
<1>2. Later \in SUBSET Nat /\ n - i \in Later
  BY <1>1
<1>3. PICK m \in Later : \A l \in Later : m <= l
  <2> HIDE DEF Later
  <2>1. QED
    BY <1>2, LeastNat
<1>4. PICK k \in 1..n : m = n - k /\ TimelineKey(es[k]) = TimelineKey(es[i])
  OBVIOUS
<1>5. \A j \in k + 1..n : TimelineKey(es[j]) # TimelineKey(es[k])
  <2> SUFFICES ASSUME NEW j \in k + 1..n, TimelineKey(es[j]) = TimelineKey(es[k]) PROVE FALSE
    OBVIOUS
  <2>1. j \in 1..n /\ n - j \in 0..n /\ n - j < n - k
    BY <1>1
  <2>2. n - j \in Later
    BY <1>4, <2>1
  <2> HIDE DEF Later
  <2>3. n - k <= n - j
    BY <1>3, <1>4, <2>2
  <2>4. QED
    BY <1>1, <2>1, <2>3
<1>6. k \in Newest(es)
  BY <1>5 DEF Newest
<1>7. QED
  BY <1>4, <1>6

(* Sorting the newest entries loses none, and orders each epoch by seq.    *)
LEMMA SortFacts ==
    ASSUME NEW es \in Seq(Item)
    PROVE  LET t == SortTimeline(es, Newest(es))
           IN  /\ t \in Seq(Item)
               /\ \A p \in 1..Len(t) : \E i \in Newest(es) : t[p] = es[i]
               /\ \A i \in Newest(es) : \E p \in 1..Len(t) : t[p] = es[i]
               /\ \A p, q \in 1..Len(t) :
                     p < q /\ t[p].epoch = t[q].epoch => t[p].seq < t[q].seq
<1> DEFINE K == Newest(es)
           c == Cardinality(K)
           R == Order(es)
           h == [k \in 1..c |-> CHOOSE i \in K : Rank(K, R, i) = k - 1]
           t == SortTimeline(es, K)
<1>1. /\ c \in Nat
      /\ \A i \in K : Rank(K, R, i) \in 0..c - 1
      /\ \A i, j \in K : <<i, j>> \in R <=> Rank(K, R, i) < Rank(K, R, j)
      /\ \A m \in 0..c - 1 : \E i \in K : Rank(K, R, i) = m
  <2>1. /\ IsFiniteSet(K)
        /\ \A i \in K : <<i, i>> \notin R
        /\ \A i, j, k \in K : <<i, j>> \in R /\ <<j, k>> \in R => <<i, k>> \in R
        /\ \A i, j \in K : i = j \/ <<i, j>> \in R \/ <<j, i>> \in R
    BY BeforeFacts
  <2> HIDE DEF K, R
  <2>2. QED
    BY <2>1, Ranks
<1>2. K \in SUBSET (1..Len(es))
  BY DEF Newest
<1>3. \A i \in K : Cardinality({j \in K : Before(es, j, i)}) = Rank(K, R, i)
  <2> SUFFICES ASSUME NEW i \in K PROVE Cardinality({j \in K : Before(es, j, i)}) = Rank(K, R, i)
    OBVIOUS
  <2>1. {j \in K : Before(es, j, i)} = {j \in K : <<j, i>> \in R}
    BY DEF Order
  <2>2. QED
    BY <2>1 DEF Rank
<1>4. ASSUME NEW k \in 1..c PROVE h[k] \in K /\ Rank(K, R, h[k]) = k - 1
  <2>1. h[k] = CHOOSE i \in K : Rank(K, R, i) = k - 1
    OBVIOUS
  <2> HIDE DEF h, K, R
  <2>2. k - 1 \in 0..c - 1
    BY <1>1
  <2>3. \E i \in K : Rank(K, R, i) = k - 1
    BY <1>1, <2>2
  <2>4. QED
    BY <2>1, <2>3
<1>5. t = [k \in 1..c |-> es[h[k]]]
  <2> DEFINE g(k) == CHOOSE i \in K : Cardinality({j \in K : Before(es, j, i)}) = k - 1
  <2>1. t = [k \in 1..c |-> es[g(k)]]
    BY DEF SortTimeline
  <2> HIDE DEF t, R
  <2>2. \A k \in 1..c : g(k) = h[k]
    <3> SUFFICES ASSUME NEW k \in 1..c PROVE g(k) = h[k]
      OBVIOUS
    <3>1. \A i \in K : Cardinality({j \in K : Before(es, j, i)}) = k - 1 <=> Rank(K, R, i) = k - 1
      BY <1>3
    <3>2. g(k) = CHOOSE i \in K : Rank(K, R, i) = k - 1
      BY <3>1
    <3>3. QED
      BY <3>2
  <2> HIDE DEF h, c, K, g
  <2>3. QED
    BY <2>1, <2>2
<1> HIDE DEF h, t, R
<1>6. t \in Seq(Item) /\ Len(t) = c /\ \A k \in 1..c : t[k] = es[h[k]]
  <2>1. \A k \in 1..c : h[k] \in 1..Len(es)
    BY <1>2, <1>4
  <2>2. \A k \in 1..c : es[h[k]] \in Item
    BY <2>1, EntryOf
  <2> HIDE DEF c
  <2>3. QED
    BY <1>1, <1>5, <2>2
<1>7. ASSUME NEW i \in K PROVE \E p \in 1..Len(t) : t[p] = es[i]
  <2>1. PICK p \in 1..c : p = Rank(K, R, i) + 1
    BY <1>1
  <2>2. h[p] = i
    <3>1. h[p] \in K /\ Rank(K, R, h[p]) = Rank(K, R, i) /\ Rank(K, R, i) \in Int
      BY <1>1, <1>4, <2>1
    <3>2. <<h[p], i>> \notin R /\ <<i, h[p]>> \notin R
      BY <1>1, <3>1
    <3>3. QED
      BY <3>1, <3>2, BeforeFacts DEF R
  <2>3. QED
    BY <1>6, <2>1, <2>2
<1>8. ASSUME NEW p \in 1..Len(t), NEW q \in 1..Len(t), p < q, t[p].epoch = t[q].epoch
      PROVE  t[p].seq < t[q].seq
  <2>1. p \in 1..c /\ q \in 1..c
    BY <1>6
  <2>2. Rank(K, R, h[p]) < Rank(K, R, h[q]) /\ h[p] \in K /\ h[q] \in K
    BY <1>1, <1>4, <1>8, <2>1
  <2>3. Before(es, h[p], h[q])
    BY <1>1, <2>2 DEF Order, R
  <2>4. t[p] = es[h[p]] /\ t[q] = es[h[q]]
    BY <1>6, <2>1
  <2>5. QED
    BY <1>8, <2>3, <2>4 DEF Before
<1>9. \A p \in 1..Len(t) : \E i \in K : t[p] = es[i]
  BY <1>4, <1>6
<1>10. QED
  BY <1>6, <1>7, <1>8, <1>9 DEF t

(* The items of the server in a timeline.                                  *)
LEMMA ServerFacts ==
    ASSUME NEW es \in Seq(Item)
    PROVE  /\ \A e : e \in Server(es) <=> \E i \in 1..Len(es) : es[i] = e /\ IsServer(e)
           /\ Server(es) \subseteq Item
           /\ \A e \in Server(es) : e = Envelope(e.epoch, e.seq) /\ e.seq \in Nat \ {0} /\ e.epoch \in Nat \ {0}
<1>1. \A e : e \in Range(es) <=> \E i \in 1..Len(es) : es[i] = e
  BY RangeFacts
<1>2. \A e : e \in Server(es) <=> \E i \in 1..Len(es) : es[i] = e /\ IsServer(e)
  BY <1>1 DEF Server
<1>3. Server(es) \subseteq Item
  BY <1>2, EntryOf
<1>4. QED
  BY <1>2, <1>3, ItemFacts DEF Item, IsServer

HasLocal(es) == \E i \in 1..Len(es) : IsLocal(es[i])

(* The empty timeline.                                                     *)
LEMMA EmptyFacts == <<>> \in Seq(Item) /\ Len(<<>>) = 0 /\ Server(<<>>) = {} /\ ~HasLocal(<<>>)
<1>1. <<>> \in Seq(Item) /\ Len(<<>>) = 0
  OBVIOUS
<1>2. 1..Len(<<>>) = {}
  BY <1>1
<1>3. \A e : e \notin Server(<<>>)
  <2>1. \A e : e \in Server(<<>>) => \E i \in 1..Len(<<>>) : TRUE
    BY <1>1, ServerFacts
  <2>2. QED
    BY <1>2, <2>1
<1>4. ~HasLocal(<<>>)
  BY <1>2 DEF HasLocal
<1>5. QED
  BY <1>1, <1>3, <1>4

(* Joining timelines joins what they hold.                                 *)
LEMMA Joined ==
    ASSUME NEW a \in Seq(Item), NEW b \in Seq(Item)
    PROVE  /\ a \o b \in Seq(Item)
           /\ Server(a \o b) = Server(a) \cup Server(b)
           /\ HasLocal(a \o b) <=> HasLocal(a) \/ HasLocal(b)
           /\ \A e : (\E i \in 1..Len(a \o b) : (a \o b)[i] = e)
                     <=> (\E i \in 1..Len(a) : a[i] = e) \/ (\E i \in 1..Len(b) : b[i] = e)
<1> DEFINE c == a \o b
<1>1. /\ c \in Seq(Item) /\ Len(c) = Len(a) + Len(b) /\ Len(a) \in Nat /\ Len(b) \in Nat
      /\ \A i \in 1..Len(a) : c[i] = a[i]
      /\ \A i \in 1..Len(b) : c[Len(a) + i] = b[i]
  OBVIOUS
<1> HIDE DEF c
<1>2. \A e : (\E i \in 1..Len(c) : c[i] = e)
             <=> (\E i \in 1..Len(a) : a[i] = e) \/ (\E i \in 1..Len(b) : b[i] = e)
  <2>1. \A i \in 1..Len(a) : i \in 1..Len(c) /\ c[i] = a[i]
    BY <1>1
  <2>2. \A i \in 1..Len(b) : Len(a) + i \in 1..Len(c) /\ c[Len(a) + i] = b[i]
    BY <1>1
  <2>3. \A i \in 1..Len(c) : i \in 1..Len(a) \/ (i - Len(a) \in 1..Len(b) /\ c[i] = b[i - Len(a)])
    <3> SUFFICES ASSUME NEW i \in 1..Len(c), i \notin 1..Len(a)
                 PROVE  i - Len(a) \in 1..Len(b) /\ c[i] = b[i - Len(a)]
      OBVIOUS
    <3>1. i - Len(a) \in 1..Len(b) /\ Len(a) + (i - Len(a)) = i
      BY <1>1
    <3>2. QED
      BY <1>1, <3>1
  <2>4. QED
    BY <2>1, <2>2, <2>3
<1>3. Server(c) = Server(a) \cup Server(b)
  <2>1. /\ \A e : e \in Server(c) <=> \E i \in 1..Len(c) : c[i] = e /\ IsServer(e)
        /\ \A e : e \in Server(a) <=> \E i \in 1..Len(a) : a[i] = e /\ IsServer(e)
        /\ \A e : e \in Server(b) <=> \E i \in 1..Len(b) : b[i] = e /\ IsServer(e)
    BY <1>1, ServerFacts
  <2>2. \A e : e \in Server(c) <=> e \in Server(a) \/ e \in Server(b)
    BY <1>2, <2>1
  <2>3. QED
    BY <2>2
<1>4. HasLocal(c) <=> HasLocal(a) \/ HasLocal(b)
  BY <1>2 DEF HasLocal
<1>5. QED
  BY <1>1, <1>2, <1>3, <1>4 DEF c

(* A merge holds what both timelines hold, each epoch in order of seq.     *)
LEMMA MergeFacts ==
    ASSUME NEW a \in Seq(Item), NEW b \in Seq(Item)
    PROVE  LET t == MergeTimeline(a, b)
           IN  /\ t \in Seq(Item)
               /\ Server(t) = Server(a) \cup Server(b)
               /\ HasLocal(t) <=> HasLocal(a) \/ HasLocal(b)
               /\ \A p, q \in 1..Len(t) :
                     p < q /\ t[p].epoch = t[q].epoch => t[p].seq < t[q].seq
<1> DEFINE t == MergeTimeline(a, b)
           all == a \o b
<1>1. all \in Seq(Item) /\ Server(all) = Server(a) \cup Server(b)
      /\ (HasLocal(all) <=> HasLocal(a) \/ HasLocal(b))
  BY Joined
<1>2. t = SortTimeline(all, Newest(all))
  BY DEF MergeTimeline
<1> HIDE DEF t, all
<1>3. /\ t \in Seq(Item)
      /\ \A p \in 1..Len(t) : \E i \in Newest(all) : t[p] = all[i]
      /\ \A i \in Newest(all) : \E p \in 1..Len(t) : t[p] = all[i]
      /\ \A p, q \in 1..Len(t) : p < q /\ t[p].epoch = t[q].epoch => t[p].seq < t[q].seq
  BY <1>1, <1>2, SortFacts
<1>4. Newest(all) \in SUBSET (1..Len(all))
  BY DEF Newest
<1>5. ASSUME NEW i \in 1..Len(all)
      PROVE  \E p \in 1..Len(t) : TimelineKey(t[p]) = TimelineKey(all[i])
  <2>1. PICK j \in Newest(all) : TimelineKey(all[j]) = TimelineKey(all[i])
    BY <1>1, NewestFacts
  <2>2. PICK p \in 1..Len(t) : t[p] = all[j]
    BY <1>3
  <2>3. QED
    BY <2>1, <2>2
<1>6. Server(t) = Server(all)
  <2>1. \A e : e \in Server(t) <=> \E i \in 1..Len(t) : t[i] = e /\ IsServer(e)
    BY <1>3, ServerFacts
  <2>2. \A e : e \in Server(all) <=> \E i \in 1..Len(all) : all[i] = e /\ IsServer(e)
    BY <1>1, ServerFacts
  <2>3. ASSUME NEW i \in 1..Len(all), IsServer(all[i]) PROVE all[i] \in Server(t)
    <3>1. PICK p \in 1..Len(t) : TimelineKey(t[p]) = TimelineKey(all[i])
      BY <1>5
    <3>2. t[p] \in Item /\ all[i] \in Item
      BY <1>1, <1>3, EntryOf
    <3>3. t[p] = all[i]
      BY <2>3, <3>1, <3>2, SameKey
    <3>4. QED
      BY <2>1, <2>3, <3>3
  <2>4. \A e \in Server(t) : e \in Server(all)
    BY <1>3, <1>4, <2>1, <2>2
  <2>5. QED
    BY <2>2, <2>3, <2>4
<1>7. HasLocal(t) <=> HasLocal(all)
  <2>1. ASSUME NEW i \in 1..Len(all), IsLocal(all[i]) PROVE HasLocal(t)
    <3>1. PICK p \in 1..Len(t) : TimelineKey(t[p]) = TimelineKey(all[i])
      BY <1>5
    <3>2. t[p] \in Item /\ all[i] \in Item
      BY <1>1, <1>3, EntryOf
    <3>3. IsLocal(t[p])
      BY <2>1, <3>1, <3>2, SameKey, ItemFacts
    <3>4. QED
      BY <3>3 DEF HasLocal
  <2>2. HasLocal(t) => HasLocal(all)
    BY <1>3, <1>4 DEF HasLocal
  <2>3. QED
    BY <2>1, <2>2 DEF HasLocal
<1>8. QED
  BY <1>1, <1>3, <1>6, <1>7 DEF t

(* So does the incremental merge, whichever way it takes.                  *)
LEMMA IncrementalFacts ==
    ASSUME NEW a \in Seq(Item), NEW b \in Seq(Item)
    PROVE  LET t == MergeTimelineIncremental(a, b)
           IN  /\ t \in Seq(Item)
               /\ Server(t) = Server(a) \cup Server(b)
               /\ HasLocal(t) <=> HasLocal(a) \/ HasLocal(b)
<1> DEFINE z == <<>>
<1>1. z \in Seq(Item) /\ Server(z) = {} /\ ~HasLocal(z)
  BY EmptyFacts
<1>2. b = <<>> <=> b = z
  OBVIOUS
<1>3. CASE b = <<>>
  <2>1. MergeTimelineIncremental(a, b) = a
    BY <1>3 DEF MergeTimelineIncremental
  <2> HIDE DEF z
  <2>2. Server(b) = {} /\ ~HasLocal(b)
    BY <1>1, <1>2, <1>3
  <2>3. QED
    BY <2>1, <2>2
<1>4. CASE b # <<>> /\ MergeTimelineIncremental(a, b) = a \o MergeTimeline(<<>>, b)
  <2>1. /\ MergeTimeline(<<>>, b) \in Seq(Item)
        /\ Server(MergeTimeline(<<>>, b)) = Server(b)
        /\ HasLocal(MergeTimeline(<<>>, b)) <=> HasLocal(b)
    <3>1. MergeTimeline(<<>>, b) = MergeTimeline(z, b)
      OBVIOUS
    <3> HIDE DEF z
    <3>2. /\ MergeTimeline(z, b) \in Seq(Item)
          /\ Server(MergeTimeline(z, b)) = Server(z) \cup Server(b)
          /\ HasLocal(MergeTimeline(z, b)) <=> HasLocal(z) \/ HasLocal(b)
      BY <1>1, MergeFacts
    <3>3. QED
      BY <1>1, <3>1, <3>2
  <2>2. QED
    BY <1>4, <2>1, Joined
<1>5. CASE b # <<>> /\ MergeTimelineIncremental(a, b) = MergeTimeline(a, b)
  BY <1>5, MergeFacts
<1>6. QED
  BY <1>3, <1>4, <1>5 DEF MergeTimelineIncremental

(* A timeline that grows by one item.                                      *)
LEMMA Grown ==
    ASSUME NEW a \in Seq(Item), NEW e \in Item
    PROVE  /\ Append(a, e) \in Seq(Item)
           /\ Len(Append(a, e)) = Len(a) + 1
           /\ \A i \in 1..Len(a) : Append(a, e)[i] = a[i]
           /\ Append(a, e)[Len(a) + 1] = e
           /\ Server(Append(a, e)) = Server(a) \cup (IF IsServer(e) THEN {e} ELSE {})
           /\ HasLocal(Append(a, e)) <=> HasLocal(a) \/ IsLocal(e)
<1> DEFINE c == Append(a, e)
<1>1. /\ c \in Seq(Item) /\ Len(c) = Len(a) + 1 /\ Len(a) \in Nat
      /\ \A i \in 1..Len(a) : c[i] = a[i]
      /\ c[Len(a) + 1] = e
  OBVIOUS
<1> HIDE DEF c
<1>2. \A x : (\E i \in 1..Len(c) : c[i] = x) <=> (\E i \in 1..Len(a) : a[i] = x) \/ x = e
  <2>1. \A i \in 1..Len(a) : i \in 1..Len(c)
    BY <1>1
  <2>2. Len(a) + 1 \in 1..Len(c)
    BY <1>1
  <2>3. \A i \in 1..Len(c) : i \in 1..Len(a) \/ i = Len(a) + 1
    BY <1>1
  <2>4. QED
    BY <1>1, <2>1, <2>2, <2>3
<1>3. Server(c) = Server(a) \cup (IF IsServer(e) THEN {e} ELSE {})
  <2>1. /\ \A x : x \in Server(c) <=> \E i \in 1..Len(c) : c[i] = x /\ IsServer(x)
        /\ \A x : x \in Server(a) <=> \E i \in 1..Len(a) : a[i] = x /\ IsServer(x)
    BY <1>1, ServerFacts
  <2>2. \A x : x \in Server(c) <=> x \in Server(a) \/ (x = e /\ IsServer(x))
    BY <1>2, <2>1
  <2>3. QED
    BY <2>2
<1>4. HasLocal(c) <=> HasLocal(a) \/ IsLocal(e)
  BY <1>2 DEF HasLocal
<1>5. QED
  BY <1>1, <1>3, <1>4 DEF c

(* What is local is kept, and nothing of the server with it.               *)
LEMMA LocalsFacts ==
    ASSUME NEW a \in Seq(Item)
    PROVE  /\ Locals(a) \in Seq(Item)
           /\ Server(Locals(a)) = {}
           /\ HasLocal(Locals(a)) <=> HasLocal(a)
<1> DEFINE T == {e \in Range(a) : IsLocal(e)}
           r == Locals(a)
<1>1. r = Filter(a, T)
  BY DEF Locals
<1>2. \A e : e \in T <=> IsLocal(e) /\ \E i \in 1..Len(a) : a[i] = e
  BY RangeFacts
<1> HIDE DEF r, T
<1>3. r \in Seq(Item) /\ \E f : Embeds(r, a, T, Len(a), f)
  BY <1>1, FilterFacts
<1>4. PICK f : Embeds(r, a, T, Len(a), f)
  BY <1>3
<1>5. \A p \in 1..Len(r) : r[p] = a[f[p]] /\ r[p] \in T
  BY <1>4 DEF Embeds
<1>6. \A j \in 1..Len(a) : a[j] \in T => \E p \in 1..Len(r) : r[p] = a[j]
  BY <1>4 DEF Embeds
<1>7. \A p \in 1..Len(r) : IsLocal(r[p]) /\ ~IsServer(r[p])
  BY <1>2, <1>3, <1>5, EntryOf, ItemFacts
<1>8. Server(r) = {}
  BY <1>3, <1>7, ServerFacts
<1>9. HasLocal(r) <=> HasLocal(a)
  <2>1. HasLocal(r) => HasLocal(a)
    BY <1>2, <1>5 DEF HasLocal
  <2>2. HasLocal(a) => HasLocal(r)
    BY <1>2, <1>6 DEF HasLocal
  <2>3. QED
    BY <2>1, <2>2
<1>10. QED
  BY <1>3, <1>8, <1>9 DEF r

-----------------------------------------------------------------------------
(* The folds of a batch, event by event.                                   *)

Event == Item \X BOOLEAN
Sessions == [transcript : Seq(Item), seen : SUBSET (Nat \X Nat)]

(* The keys that a session has seen are those of its transcript.           *)
Keys(es) == {TimelineKey(e) : e \in Server(es)}
Sound(s) == s \in Sessions /\ s.seen = Keys(s.transcript)

(* The events of a batch.                                                  *)
LEMMA EventFacts ==
    ASSUME NEW b \in Seq(Event), NEW i \in 1..Len(b)
    PROVE  b[i] \in Event /\ b[i][1] \in Item /\ b[i][2] \in BOOLEAN
BY DEF Event

(* An item has one of the keys of a timeline just if it is in it.          *)
LEMMA KeysFacts ==
    ASSUME NEW es \in Seq(Item), NEW e \in Item
    PROVE  /\ Keys(es) \in SUBSET (Nat \X Nat)
           /\ TimelineKey(e) \in Keys(es) <=> IsServer(e) /\ e \in Server(es)
<1>1. \A d \in Server(es) : d \in Item /\ IsServer(d)
  BY ServerFacts DEF Server
<1>2. Keys(es) \in SUBSET (Nat \X Nat)
  BY <1>1 DEF Keys, Item, TimelineKey
<1>3. ASSUME TimelineKey(e) \in Keys(es) PROVE IsServer(e) /\ e \in Server(es)
  <2>1. PICK d \in Server(es) : TimelineKey(e) = TimelineKey(d)
    BY <1>3 DEF Keys
  <2>2. e = d
    BY <1>1, <2>1, SameKey
  <2>3. QED
    BY <1>1, <2>2
<1>4. e \in Server(es) => TimelineKey(e) \in Keys(es)
  BY DEF Keys
<1>5. QED
  BY <1>2, <1>3, <1>4

(* The session with nothing in it.                                         *)
LEMMA SoundNone == Sound(NoSession) /\ Server(NoSession.transcript) = {}
<1> DEFINE z == <<>>
<1>1. z \in Seq(Item) /\ Server(z) = {}
  BY EmptyFacts
<1>2. NoSession.transcript = z /\ NoSession.seen = {} /\ NoSession = [transcript |-> z, seen |-> {}]
  BY DEF NoSession
<1> HIDE DEF z
<1>3. Keys(z) = {}
  BY <1>1 DEF Keys
<1>4. QED
  BY <1>1, <1>2, <1>3 DEF Sound, Sessions

(* One event: the session begins again if the event rotates, and then it   *)
(* has the event.                                                          *)
LEMMA FoldEventFacts ==
    ASSUME NEW s, Sound(s), NEW ev \in Event
    PROVE  LET base == IF ev[2] THEN NoSession ELSE s
               t == FoldEvent(s, ev)
           IN  /\ Sound(base)
               /\ Sound(t)
               /\ ev[1] \in Server(base.transcript) => t = base
               /\ ev[1] \notin Server(base.transcript) => t.transcript = Append(base.transcript, ev[1])
               /\ Server(t.transcript)
                  = Server(base.transcript) \cup (IF IsServer(ev[1]) THEN {ev[1]} ELSE {})
<1> DEFINE base == IF ev[2] THEN NoSession ELSE s
           e == ev[1]
           t == FoldEvent(s, ev)
<1>1. e \in Item /\ ev[2] \in BOOLEAN
  BY DEF Event
<1>2. Sound(base)
  BY SoundNone
<1>3. t = IF TimelineKey(e) \in base.seen THEN base
          ELSE [transcript |-> Append(base.transcript, e),
                seen |-> base.seen \cup (IF IsServer(e) THEN {TimelineKey(e)} ELSE {})]
  BY DEF FoldEvent
<1> HIDE DEF base, e, t
<1>4. base.transcript \in Seq(Item) /\ base.seen = Keys(base.transcript) /\ base \in Sessions
  BY <1>2 DEF Sound, Sessions
<1>5. TimelineKey(e) \in base.seen <=> IsServer(e) /\ e \in Server(base.transcript)
  BY <1>1, <1>4, KeysFacts
<1>6. e \in Server(base.transcript) => IsServer(e)
  BY DEF Server
<1>7. CASE e \in Server(base.transcript)
  <2>1. t = base
    BY <1>3, <1>5, <1>6, <1>7
  <2>2. QED
    BY <1>2, <1>6, <1>7, <2>1 DEF base, e, t
<1>8. CASE e \notin Server(base.transcript)
  <2> DEFINE more == IF IsServer(e) THEN {e} ELSE {}
             keys == IF IsServer(e) THEN {TimelineKey(e)} ELSE {}
  <2>1. t.transcript = Append(base.transcript, e) /\ t.seen = base.seen \cup keys
        /\ t = [transcript |-> t.transcript, seen |-> t.seen]
    BY <1>3, <1>5, <1>8
  <2>2. t.transcript \in Seq(Item) /\ Server(t.transcript) = Server(base.transcript) \cup more
    BY <1>1, <1>4, <2>1, Grown
  <2>3. keys = {TimelineKey(d) : d \in more}
    OBVIOUS
  <2> HIDE DEF more, keys
  <2>4. t.seen = Keys(t.transcript)
    BY <1>4, <2>1, <2>2, <2>3 DEF Keys
  <2>5. Keys(t.transcript) \in SUBSET (Nat \X Nat)
    BY <1>1, <2>2, KeysFacts
  <2>6. t \in Sessions
    BY <2>1, <2>2, <2>4, <2>5 DEF Sessions
  <2>7. Sound(t)
    BY <2>4, <2>6 DEF Sound
  <2>8. QED
    BY <1>2, <1>8, <2>1, <2>2, <2>7 DEF base, e, t, more
<1>9. QED
  BY <1>7, <1>8

SoundSessions == {s \in Sessions : Sound(s)}

Steps(g, s, b) == g[0] = s /\ \A i \in 1..Len(b) : g[i] = FoldEvent(g[i - 1], b[i])

(* The fold of a session goes event by event.                              *)
LEMMA SessionFold ==
    ASSUME NEW s, Sound(s), NEW b \in Seq(Event)
    PROVE  \E g \in [0..Len(b) -> SoundSessions] :
              Steps(g, s, b) /\ FoldBatchIntoSessionState(s, b) = g[Len(b)]
<1> DEFINE Body(g) == [i \in 0..Len(b) |-> IF i = 0 THEN s ELSE FoldEvent(g[i - 1], b[i])]
           f == CHOOSE g : g = Body(g)
           step == [i \in 1..Len(b) |-> [q \in SoundSessions |-> FoldEvent(q, b[i])]]
<1>1. Len(b) \in Nat /\ s \in SoundSessions
  BY DEF SoundSessions, Sound
<1>2. step \in [1..Len(b) -> [SoundSessions -> SoundSessions]]
  <2>1. \A i \in 1..Len(b), q \in SoundSessions : FoldEvent(q, b[i]) \in SoundSessions
    <3> SUFFICES ASSUME NEW i \in 1..Len(b), NEW q \in SoundSessions
                 PROVE  FoldEvent(q, b[i]) \in SoundSessions
      OBVIOUS
    <3>1. Sound(q) /\ b[i] \in Event
      BY EventFacts DEF SoundSessions
    <3>2. Sound(FoldEvent(q, b[i]))
      BY <3>1, FoldEventFacts
    <3>3. QED
      BY <3>2 DEF SoundSessions, Sound
  <2>2. QED
    BY <2>1
<1>3. \A i \in 1..Len(b), q \in SoundSessions : step[i][q] = FoldEvent(q, b[i])
  OBVIOUS
<1> HIDE DEF step
<1>4. PICK g \in [0..Len(b) -> SoundSessions] : Iterates(g, s, step, Len(b))
  BY <1>1, <1>2, Recursion
<1>5. Steps(g, s, b)
  <2>1. \A i \in 1..Len(b) : g[i - 1] \in SoundSessions
    OBVIOUS
  <2>2. QED
    BY <1>3, <1>4, <2>1 DEF Iterates, Steps
<1>6. g = Body(g)
  <2>1. \A i \in 0..Len(b) : i = 0 \/ i \in 1..Len(b)
    BY <1>1
  <2>2. \A i \in 0..Len(b) : g[i] = Body(g)[i]
    BY <1>5, <2>1 DEF Steps
  <2>3. DOMAIN Body(g) = 0..Len(b) /\ g = [i \in 0..Len(b) |-> g[i]]
    OBVIOUS
  <2>4. QED
    BY <2>2, <2>3
<1>7. FoldBatchIntoSessionState(s, b) = f[Len(b)]
  BY DEF FoldBatchIntoSessionState
<1>8. f = Body(f)
  <2> HIDE DEF Body
  <2>1. QED
    BY <1>6
<1> HIDE DEF f
<1>9. DOMAIN f = 0..Len(b) /\ \A i \in 0..Len(b) : f[i] = IF i = 0 THEN s ELSE FoldEvent(f[i - 1], b[i])
  BY <1>8
<1>10. \A i \in 0..Len(b) : i \in {j \in 0..Len(b) : f[j] = g[j]}
  <2> DEFINE T == {j \in 0..Len(b) : f[j] = g[j]}
  <2>1. 0 \in T
    BY <1>1, <1>5, <1>9 DEF Steps
  <2>2. ASSUME NEW i \in 1..Len(b), i - 1 \in T PROVE i \in T
    <3>1. i \in 0..Len(b) /\ i # 0 /\ f[i - 1] = g[i - 1]
      BY <1>1, <2>2
    <3>2. f[i] = FoldEvent(f[i - 1], b[i])
      BY <1>9, <3>1
    <3>3. g[i] = FoldEvent(g[i - 1], b[i])
      BY <1>5 DEF Steps
    <3>4. QED
      BY <3>1, <3>2, <3>3
  <2> HIDE DEF T
  <2>3. \A i \in 0..Len(b) : i \in T
    BY <1>1, <2>1, <2>2, Upwards
  <2>4. QED
    BY <2>3 DEF T
<1>11. f[Len(b)] = g[Len(b)]
  BY <1>1, <1>10
<1>12. QED
  BY <1>5, <1>7, <1>11

(* What is folded of a prefix depends on the prefix only.                  *)
LEMMA SamePrefix ==
    ASSUME NEW s, NEW b \in Seq(Event), NEW c \in Seq(Event), NEW m \in Nat,
           m <= Len(b), m <= Len(c), \A i \in 1..m : b[i] = c[i],
           NEW g, NEW h, Steps(g, s, b), Steps(h, s, c)
    PROVE  g[m] = h[m]
<1> DEFINE T == {i \in 0..m : g[i] = h[i]}
<1>1. 0 \in T
  BY DEF Steps
<1>2. ASSUME NEW i \in 1..m, i - 1 \in T PROVE i \in T
  <2>1. i \in 1..Len(b) /\ i \in 1..Len(c) /\ b[i] = c[i] /\ i \in 0..m
    OBVIOUS
  <2>2. g[i - 1] = h[i - 1]
    BY <1>2
  <2>3. g[i] = FoldEvent(g[i - 1], b[i]) /\ h[i] = FoldEvent(h[i - 1], c[i])
    BY <2>1 DEF Steps
  <2>4. QED
    BY <2>1, <2>2, <2>3
<1> HIDE DEF T
<1>3. \A i \in 0..m : i \in T
  BY <1>1, <1>2, Upwards
<1>4. QED
  BY <1>3 DEF T

(* Two batches, one after the other, fold as one.                          *)
LEMMA FoldOfJoined ==
    ASSUME NEW s, Sound(s), NEW a \in Seq(Event), NEW b \in Seq(Event)
    PROVE  \E g \in [0..Len(b) -> SoundSessions] :
              /\ Steps(g, FoldBatchIntoSessionState(s, a), b)
              /\ FoldBatchIntoSessionState(s, a \o b) = g[Len(b)]
<1> DEFINE c == a \o b
           n == Len(a)
           m == Len(b)
<1>1. /\ c \in Seq(Event) /\ Len(c) = n + m /\ n \in Nat /\ m \in Nat
      /\ \A i \in 1..n : c[i] = a[i]
      /\ \A i \in 1..m : c[n + i] = b[i]
  OBVIOUS
<1>2. FoldBatchIntoSessionState(s, a \o b) = FoldBatchIntoSessionState(s, c)
  OBVIOUS
<1> HIDE DEF c
<1>3. PICK h \in [0..Len(c) -> SoundSessions] :
              Steps(h, s, c) /\ FoldBatchIntoSessionState(s, c) = h[Len(c)]
  BY <1>1, SessionFold
<1>4. PICK k \in [0..n -> SoundSessions] : Steps(k, s, a) /\ FoldBatchIntoSessionState(s, a) = k[n]
  BY SessionFold
<1>5. h[n] = k[n]
  <2>1. n <= Len(c) /\ n <= Len(a)
    BY <1>1
  <2>2. Steps(h, s, c) /\ Steps(k, s, a)
    BY <1>3, <1>4
  <2>3. n \in Nat /\ c \in Seq(Event) /\ \A i \in 1..n : c[i] = a[i]
    BY <1>1
  <2> HIDE DEF n
  <2>4. QED
    BY <2>1, <2>2, <2>3, SamePrefix
<1> DEFINE g == [i \in 0..m |-> h[n + i]]
<1>6. \A i \in 0..m : n + i \in 0..Len(c) /\ g[i] = h[n + i]
  BY <1>1
<1>7. g \in [0..m -> SoundSessions]
  BY <1>6
<1> HIDE DEF g
<1>8. g[0] = FoldBatchIntoSessionState(s, a)
  BY <1>1, <1>4, <1>5, <1>6
<1>9. ASSUME NEW i \in 1..m PROVE g[i] = FoldEvent(g[i - 1], b[i])
  <2>1. i \in 0..m /\ i - 1 \in 0..m /\ n + (i - 1) = (n + i) - 1 /\ n + i \in 1..Len(c)
    BY <1>1
  <2>2. h[n + i] = FoldEvent(h[(n + i) - 1], c[n + i])
    BY <1>3, <2>1 DEF Steps
  <2>3. c[n + i] = b[i] /\ g[i] = h[n + i] /\ g[i - 1] = h[(n + i) - 1]
    BY <1>1, <1>6, <2>1
  <2>4. QED
    BY <2>2, <2>3
<1>10. g[m] = h[Len(c)]
  <2>1. m \in 0..m /\ n + m = Len(c)
    BY <1>1
  <2>2. QED
    BY <1>6, <2>1
<1>11. QED
  BY <1>2, <1>3, <1>7, <1>8, <1>9, <1>10 DEF Steps

(* And so does a batch that grows by one event.                            *)
LEMMA FoldGrows ==
    ASSUME NEW s, Sound(s), NEW b \in Seq(Event), NEW ev \in Event
    PROVE  /\ Sound(FoldBatchIntoSessionState(s, b))
           /\ FoldBatchIntoSessionState(s, <<>>) = s
           /\ FoldBatchIntoSessionState(s, Append(b, ev)) = FoldEvent(FoldBatchIntoSessionState(s, b), ev)
<1> DEFINE c == <<ev>>
           z == <<>>
<1>1. c \in Seq(Event) /\ Len(c) = 1 /\ c[1] = ev /\ b \o c = Append(b, ev)
  OBVIOUS
<1>2. Sound(FoldBatchIntoSessionState(s, b))
  <2>1. PICK g \in [0..Len(b) -> SoundSessions] : FoldBatchIntoSessionState(s, b) = g[Len(b)]
    BY SessionFold
  <2>2. Len(b) \in 0..Len(b)
    OBVIOUS
  <2>3. QED
    BY <2>1, <2>2 DEF SoundSessions
<1>3. z \in Seq(Event) /\ Len(z) = 0
  OBVIOUS
<1>4. FoldBatchIntoSessionState(s, z) = s
  <2> HIDE DEF z
  <2>1. PICK g : Steps(g, s, z) /\ FoldBatchIntoSessionState(s, z) = g[Len(z)]
    BY <1>3, SessionFold
  <2>2. QED
    BY <1>3, <2>1 DEF Steps
<1> HIDE DEF c
<1>5. PICK g : /\ Steps(g, FoldBatchIntoSessionState(s, b), c)
               /\ FoldBatchIntoSessionState(s, b \o c) = g[Len(c)]
  BY <1>1, FoldOfJoined
<1>6. g[1] = FoldEvent(g[1 - 1], c[1]) /\ g[0] = FoldBatchIntoSessionState(s, b)
  BY <1>1, <1>5 DEF Steps
<1>7. FoldBatchIntoSessionState(s, Append(b, ev)) = FoldEvent(FoldBatchIntoSessionState(s, b), ev)
  BY <1>1, <1>5, <1>6
<1>8. QED
  BY <1>2, <1>4, <1>7

(* The fold of the timeline.                                               *)
Parts == [next : Seq(Item), incoming : Seq(Item)]

FoldPart(f, ev) ==
    IF ev[2] THEN [next |-> Append(Locals(f.next) \o Locals(f.incoming), ev[1]), incoming |-> <<>>]
    ELSE [f EXCEPT !.incoming = Append(@, ev[1])]

(* One event of the fold of a timeline: what it adds and what it keeps.    *)
LEMMA PartFacts ==
    ASSUME NEW f \in Parts, NEW ev \in Event
    PROVE  LET p == FoldPart(f, ev)
               old == IF ev[2] THEN {} ELSE Server(f.next) \cup Server(f.incoming)
           IN  /\ p \in Parts
               /\ Server(p.next) \cup Server(p.incoming) = old \cup (IF IsServer(ev[1]) THEN {ev[1]} ELSE {})
               /\ HasLocal(f.next) \/ HasLocal(f.incoming) \/ IsLocal(ev[1])
                  => HasLocal(p.next) \/ HasLocal(p.incoming)
<1> DEFINE p == FoldPart(f, ev)
           e == ev[1]
           z == <<>>
<1>1. e \in Item /\ ev[2] \in BOOLEAN /\ f.next \in Seq(Item) /\ f.incoming \in Seq(Item)
  BY DEF Event, Parts
<1>2. z \in Seq(Item) /\ Server(z) = {}
  BY EmptyFacts
<1>3. CASE ev[2]
  <2> DEFINE kept == Locals(f.next) \o Locals(f.incoming)
  <2>1. /\ Locals(f.next) \in Seq(Item) /\ Server(Locals(f.next)) = {}
        /\ HasLocal(Locals(f.next)) <=> HasLocal(f.next)
        /\ Locals(f.incoming) \in Seq(Item) /\ Server(Locals(f.incoming)) = {}
        /\ HasLocal(Locals(f.incoming)) <=> HasLocal(f.incoming)
    BY <1>1, LocalsFacts
  <2>2. kept \in Seq(Item) /\ Server(kept) = {} /\ (HasLocal(kept) <=> HasLocal(f.next) \/ HasLocal(f.incoming))
    BY <2>1, Joined
  <2>3. p.next = Append(kept, e) /\ p.incoming = z /\ p = [next |-> Append(kept, e), incoming |-> z]
    BY <1>3 DEF FoldPart
  <2> HIDE DEF kept, p, e, z
  <2>4. /\ Append(kept, e) \in Seq(Item)
        /\ Server(Append(kept, e)) = IF IsServer(e) THEN {e} ELSE {}
        /\ HasLocal(Append(kept, e)) <=> HasLocal(kept) \/ IsLocal(e)
    BY <1>1, <2>2, Grown
  <2>5. p \in Parts
    BY <1>2, <2>3, <2>4 DEF Parts
  <2>6. QED
    BY <1>2, <1>3, <2>2, <2>3, <2>4, <2>5 DEF p, e
<1>4. CASE ~ev[2]
  <2>1. p = [f EXCEPT !.incoming = Append(f.incoming, e)]
    BY <1>4 DEF FoldPart
  <2> HIDE DEF p, e
  <2>2. /\ Append(f.incoming, e) \in Seq(Item)
        /\ Server(Append(f.incoming, e)) = Server(f.incoming) \cup (IF IsServer(e) THEN {e} ELSE {})
        /\ HasLocal(Append(f.incoming, e)) <=> HasLocal(f.incoming) \/ IsLocal(e)
    BY <1>1, Grown
  <2>3. p \in Parts /\ p.next = f.next /\ p.incoming = Append(f.incoming, e)
    BY <2>1, <2>2 DEF Parts
  <2>4. QED
    BY <1>4, <2>2, <2>3 DEF p, e
<1>5. QED
  BY <1>1, <1>3, <1>4

PartSteps(g, t, b) ==
    g[0] = [next |-> t, incoming |-> <<>>] /\ \A i \in 1..Len(b) : g[i] = FoldPart(g[i - 1], b[i])

(* The fold of a timeline goes event by event, and then merges.            *)
LEMMA TimelineFold ==
    ASSUME NEW t \in Seq(Item), NEW b \in Seq(Event)
    PROVE  \E g \in [0..Len(b) -> Parts] :
              /\ PartSteps(g, t, b)
              /\ FoldBatchIntoTimeline(t, b) = MergeTimelineIncremental(g[Len(b)].next, g[Len(b)].incoming)
<1> DEFINE start == [next |-> t, incoming |-> <<>>]
           Body(g) == [i \in 0..Len(b) |->
                         IF i = 0 THEN start
                         ELSE LET f == g[i - 1]
                              IN  IF b[i][2]
                                  THEN [next |-> Append(Locals(f.next) \o Locals(f.incoming), b[i][1]),
                                        incoming |-> <<>>]
                                  ELSE [f EXCEPT !.incoming = Append(@, b[i][1])]]
           f == CHOOSE g : g = Body(g)
           step == [i \in 1..Len(b) |-> [q \in Parts |-> FoldPart(q, b[i])]]
<1>1. Len(b) \in Nat /\ start \in Parts
  BY DEF Parts
<1>2. step \in [1..Len(b) -> [Parts -> Parts]]
  <2>1. \A i \in 1..Len(b), q \in Parts : FoldPart(q, b[i]) \in Parts
    BY EventFacts, PartFacts
  <2>2. QED
    BY <2>1
<1>3. \A i \in 1..Len(b), q \in Parts : step[i][q] = FoldPart(q, b[i])
  OBVIOUS
<1>4. \A g : Body(g) = [i \in 0..Len(b) |-> IF i = 0 THEN start ELSE FoldPart(g[i - 1], b[i])]
  BY DEF FoldPart
<1>5. FoldBatchIntoTimeline(t, b) = MergeTimelineIncremental(f[Len(b)].next, f[Len(b)].incoming)
  BY DEF FoldBatchIntoTimeline
<1> HIDE DEF step, start
<1>6. PICK g \in [0..Len(b) -> Parts] : Iterates(g, start, step, Len(b))
  BY <1>1, <1>2, Recursion
<1>7. g[0] = start /\ \A i \in 1..Len(b) : g[i] = FoldPart(g[i - 1], b[i])
  <2>1. \A i \in 1..Len(b) : g[i - 1] \in Parts
    OBVIOUS
  <2>2. QED
    BY <1>3, <1>6, <2>1 DEF Iterates
<1> HIDE DEF Body
<1>8. g = Body(g)
  <2>1. \A i \in 0..Len(b) : i = 0 \/ i \in 1..Len(b)
    BY <1>1
  <2>2. \A i \in 0..Len(b) : g[i] = Body(g)[i]
    BY <1>4, <1>7, <2>1
  <2>3. DOMAIN Body(g) = 0..Len(b) /\ g = [i \in 0..Len(b) |-> g[i]] /\ Body(g) = [i \in 0..Len(b) |-> Body(g)[i]]
    BY <1>4
  <2>4. QED
    BY <2>2, <2>3
<1>9. f = Body(f)
  BY <1>8
<1> HIDE DEF f
<1>10. \A i \in 0..Len(b) : f[i] = IF i = 0 THEN start ELSE FoldPart(f[i - 1], b[i])
  BY <1>4, <1>9
<1>11. \A i \in 0..Len(b) : i \in {j \in 0..Len(b) : f[j] = g[j]}
  <2> DEFINE T == {j \in 0..Len(b) : f[j] = g[j]}
  <2>1. 0 \in T
    BY <1>1, <1>7, <1>10
  <2>2. ASSUME NEW i \in 1..Len(b), i - 1 \in T PROVE i \in T
    <3>1. i \in 0..Len(b) /\ i # 0 /\ f[i - 1] = g[i - 1]
      BY <1>1, <2>2
    <3>2. f[i] = FoldPart(f[i - 1], b[i])
      BY <1>10, <3>1
    <3>3. g[i] = FoldPart(g[i - 1], b[i])
      BY <1>7
    <3>4. QED
      BY <3>1, <3>2, <3>3
  <2> HIDE DEF T
  <2>3. \A i \in 0..Len(b) : i \in T
    BY <1>1, <2>1, <2>2, Upwards
  <2>4. QED
    BY <2>3 DEF T
<1>12. f[Len(b)] = g[Len(b)]
  BY <1>1, <1>11
<1>13. QED
  BY <1>5, <1>7, <1>12 DEF PartSteps, start

(* The two folds hold the same of the server, which is of the session and  *)
(* the batch, and what is local to the client stays in the timeline.       *)
LEMMA FoldsAgree ==
    ASSUME NEW s, Sound(s), NEW t \in Seq(Item), Server(t) = Server(s.transcript),
           NEW b \in Seq(Event)
    PROVE  LET v == FoldBatchIntoSessionState(s, b)
               u == FoldBatchIntoTimeline(t, b)
           IN  /\ u \in Seq(Item)
               /\ Server(u) = Server(v.transcript)
               /\ \A e \in Server(v.transcript) :
                     e \in Server(s.transcript) \/ \E i \in 1..Len(b) : b[i][1] = e
               /\ HasLocal(t) \/ (\E i \in 1..Len(b) : IsLocal(b[i][1])) => HasLocal(u)
<1> DEFINE n == Len(b)
           v == FoldBatchIntoSessionState(s, b)
           u == FoldBatchIntoTimeline(t, b)
<1>1. n \in Nat /\ \A i \in 1..n : b[i] \in Event /\ b[i][1] \in Item /\ b[i][2] \in BOOLEAN
  BY EventFacts
<1>2. PICK h \in [0..n -> SoundSessions] : Steps(h, s, b) /\ v = h[n]
  BY SessionFold
<1>3. PICK g \in [0..n -> Parts] :
         PartSteps(g, t, b) /\ u = MergeTimelineIncremental(g[n].next, g[n].incoming)
  BY TimelineFold
<1> HIDE DEF n, v, u
<1> DEFINE Now(i) == Server(g[i].next) \cup Server(g[i].incoming)
           Some(i) == HasLocal(g[i].next) \/ HasLocal(g[i].incoming)
           Good(i) == /\ Now(i) = Server(h[i].transcript)
                      /\ \A e \in Server(h[i].transcript) :
                            e \in Server(s.transcript) \/ \E j \in 1..n : b[j][1] = e
                      /\ HasLocal(t) \/ (\E j \in 1..i : IsLocal(b[j][1])) => Some(i)
           T == {i \in 0..n : Good(i)}
<1>4. 0 \in T
  <2> DEFINE z == <<>>
  <2>1. g[0].next = t /\ g[0].incoming = z /\ h[0] = s
    BY <1>2, <1>3 DEF Steps, PartSteps
  <2>2. Server(z) = {}
    BY EmptyFacts
  <2> HIDE DEF z
  <2>3. Now(0) = Server(h[0].transcript)
    BY <2>1, <2>2
  <2>4. HasLocal(t) => Some(0)
    BY <2>1
  <2>5. QED
    BY <1>1, <2>1, <2>3, <2>4
<1>5. ASSUME NEW i \in 1..n, i - 1 \in T PROVE i \in T
  <2> DEFINE e == b[i][1]
             more == IF IsServer(e) THEN {e} ELSE {}
             base == IF b[i][2] THEN NoSession ELSE h[i - 1]
  <2>1. Good(i - 1) /\ i - 1 \in 0..n /\ i \in 0..n
    BY <1>1, <1>5
  <2>2. b[i] \in Event /\ h[i] = FoldEvent(h[i - 1], b[i]) /\ g[i] = FoldPart(g[i - 1], b[i])
    BY <1>1, <1>2, <1>3 DEF Steps, PartSteps, n
  <2>3. Sound(h[i - 1]) /\ g[i - 1] \in Parts
    BY <1>2, <1>3, <2>1 DEF SoundSessions
  <2>4. Server(h[i].transcript) = Server(base.transcript) \cup more
    <3>1. Server(FoldEvent(h[i - 1], b[i]).transcript) = Server(base.transcript) \cup more
      BY <2>2, <2>3, FoldEventFacts
    <3>2. QED
      BY <2>2, <3>1
  <2>5. Now(i) = (IF b[i][2] THEN {} ELSE Now(i - 1)) \cup more
    BY <2>2, <2>3, PartFacts
  <2>6. Some(i - 1) \/ IsLocal(e) => Some(i)
    BY <2>2, <2>3, PartFacts
  <2>7. Server(base.transcript) = IF b[i][2] THEN {} ELSE Server(h[i - 1].transcript)
    BY SoundNone
  <2>8. /\ Now(i - 1) = Server(h[i - 1].transcript)
        /\ \A x \in Server(h[i - 1].transcript) :
              x \in Server(s.transcript) \/ \E j \in 1..n : b[j][1] = x
        /\ HasLocal(t) \/ (\E j \in 1..i - 1 : IsLocal(b[j][1])) => Some(i - 1)
    BY <2>1
  <2> HIDE DEF Now, Some, base, more
  <2>9. Now(i) = Server(h[i].transcript)
    BY <2>4, <2>5, <2>7, <2>8
  <2>10. \A x \in Server(h[i].transcript) :
            x \in Server(s.transcript) \/ \E j \in 1..n : b[j][1] = x
    <3>1. \A x \in more : x = b[i][1]
      BY DEF more
    <3>2. QED
      BY <2>4, <2>7, <2>8, <3>1
  <2>11. HasLocal(t) \/ (\E j \in 1..i : IsLocal(b[j][1])) => Some(i)
    <3>1. \A j \in 1..i : j \in 1..i - 1 \/ j = i
      OBVIOUS
    <3>2. QED
      BY <2>6, <2>8, <3>1
  <2>12. Good(i)
    BY <2>9, <2>10, <2>11
  <2> HIDE DEF Good
  <2>13. QED
    BY <2>1, <2>12
<1> HIDE DEF T
<1>6. \A i \in 0..n : i \in T
  BY <1>1, <1>4, <1>5, Upwards
<1>7. Good(n)
  <2>1. n \in T
    BY <1>1, <1>6
  <2>2. QED
    BY <2>1 DEF T
<1>8. g[n].next \in Seq(Item) /\ g[n].incoming \in Seq(Item)
  BY <1>1, <1>3 DEF Parts
<1>9. u \in Seq(Item) /\ Server(u) = Now(n) /\ (HasLocal(u) <=> Some(n))
  BY <1>3, <1>8, IncrementalFacts
<1>10. QED
  <2>1. /\ Now(n) = Server(v.transcript)
        /\ \A e \in Server(v.transcript) :
              e \in Server(s.transcript) \/ \E j \in 1..n : b[j][1] = e
        /\ HasLocal(t) \/ (\E j \in 1..n : IsLocal(b[j][1])) => Some(n)
    BY <1>2, <1>7
  <2> HIDE DEF Now, Some
  <2>2. QED
    BY <1>9, <2>1 DEF n, u, v

-----------------------------------------------------------------------------
(* Items in order that lack none up to k are numbered.                     *)
Fills(q, n, m, k) ==
    /\ \A i \in 1..n : q[i] \in Nat
    /\ \A i, j \in 1..n : i < j => q[i] < q[j]
    /\ \A i \in 1..n : m < q[i] /\ q[i] <= k
    /\ \A s \in m + 1..k : \E i \in 1..n : q[i] = s

(* A rising sequence of just the numbers after m, up to k, is those.       *)
LEMMA Numbered ==
    ASSUME NEW m \in Nat, NEW k \in Nat, NEW n \in Nat, NEW q, Fills(q, n, m, k)
    PROVE  \A i \in 1..n : q[i] = m + i
<1> USE DEF Fills
<1> DEFINE Bad == {i \in 1..n : q[i] # m + i}
<1>1. SUFFICES ASSUME Bad # {} PROVE FALSE
  OBVIOUS
<1>2. PICK i \in Bad : \A j \in Bad : i <= j
  <2>1. Bad \in SUBSET Nat
    OBVIOUS
  <2> HIDE DEF Bad
  <2>2. QED
    BY <1>1, <2>1, LeastNat
<1>3. i \in 1..n /\ q[i] \in Nat /\ q[i] # m + i
  OBVIOUS
<1>4. \A j \in 1..n : j < i => q[j] = m + j
  BY <1>2
<1>5. q[i] > m + i
  <2>1. CASE i = 1
    BY <1>3, <2>1
  <2>2. CASE i # 1
    <3>1. i - 1 \in 1..n /\ i - 1 < i
      BY <1>3, <2>2
    <3>2. q[i - 1] = m + (i - 1) /\ q[i - 1] < q[i]
      BY <1>3, <1>4, <3>1
    <3>3. QED
      BY <1>3, <3>2
  <2>3. QED
    BY <2>1, <2>2
<1>6. m + i \in m + 1..k
  BY <1>3, <1>5
<1>7. PICK j \in 1..n : q[j] = m + i
  BY <1>6
<1>8. q[j] \in Nat /\ j # i
  BY <1>3, <1>7
<1>9. CASE j < i
  BY <1>3, <1>4, <1>7, <1>9
<1>10. CASE i < j
  BY <1>3, <1>5, <1>7, <1>8, <1>10
<1>11. QED
  BY <1>3, <1>8, <1>9, <1>10

(* What the runtime has after a cursor follows it one by one.              *)
LEMMA FetchFacts ==
    ASSUME NEW es \in Seq(Item), NEW c \in [epoch : Nat, seq : Nat], NEW pin \in Nat, NEW k \in Nat,
           Keys(es) = {pin} \X (1..k)
    PROVE  LET t == FetchTimeline(es, c).items
           IN  /\ t \in Seq(Item)
               /\ \A i \in 1..Len(t) : t[i] = Envelope(c.epoch, c.seq + i) /\ c.seq + i <= k
<1> DEFINE after == {e \in Range(es) : e.epoch = c.epoch /\ e.seq > c.seq}
           f == Filter(es, after)
           z == <<>>
           t == FetchTimeline(es, c).items
<1>1. t = MergeTimeline(z, f)
  BY DEF FetchTimeline
<1>2. \A e : e \in after <=> (\E i \in 1..Len(es) : es[i] = e) /\ e.epoch = c.epoch /\ e.seq > c.seq
  BY RangeFacts
<1>3. c.epoch \in Nat /\ c.seq \in Nat
  OBVIOUS
<1>4. z \in Seq(Item) /\ Server(z) = {} /\ ~HasLocal(z)
  BY EmptyFacts
<1> HIDE DEF z, t, after, f
<1>5. f \in Seq(Item) /\ \E g : Embeds(f, es, after, Len(es), g)
  BY FilterFacts DEF f
<1>6. PICK g : Embeds(f, es, after, Len(es), g)
  BY <1>5
<1>7. \A p \in 1..Len(f) : f[p] \in after
  BY <1>6 DEF Embeds
<1>8. ASSUME NEW e \in after PROVE \E p \in 1..Len(f) : f[p] = e
  <2>1. PICK i \in 1..Len(es) : es[i] = e
    BY <1>2
  <2>2. PICK p \in 1..Len(f) : g[p] = i
    BY <1>6, <2>1 DEF Embeds
  <2>3. f[p] = es[g[p]]
    BY <1>6 DEF Embeds
  <2>4. QED
    BY <2>1, <2>2, <2>3
<1>9. \A p \in 1..Len(f) : f[p].epoch = c.epoch /\ f[p].seq > c.seq /\ f[p] \in Item
  BY <1>2, <1>5, <1>7, EntryOf
<1>10. \A p \in 1..Len(f) : IsServer(f[p]) /\ ~IsLocal(f[p])
  BY <1>3, <1>9, ItemFacts DEF IsServer
<1>11. ~HasLocal(f)
  BY <1>10 DEF HasLocal
<1>12. /\ t \in Seq(Item) /\ Server(t) = Server(f) /\ ~HasLocal(t)
       /\ \A p, q \in 1..Len(t) : p < q /\ t[p].epoch = t[q].epoch => t[p].seq < t[q].seq
  <2>1. /\ t \in Seq(Item) /\ Server(t) = Server(z) \cup Server(f)
        /\ HasLocal(t) <=> HasLocal(z) \/ HasLocal(f)
        /\ \A p, q \in 1..Len(t) : p < q /\ t[p].epoch = t[q].epoch => t[p].seq < t[q].seq
    BY <1>1, <1>4, <1>5, MergeFacts
  <2>2. QED
    BY <1>4, <1>11, <2>1
<1>13. ASSUME NEW e PROVE e \in Server(f) <=> e \in after /\ IsServer(e)
  <2>1. e \in Server(f) <=> \E i \in 1..Len(f) : f[i] = e /\ IsServer(e)
    BY <1>5, ServerFacts
  <2>2. e \in after <=> \E i \in 1..Len(f) : f[i] = e
    BY <1>7, <1>8
  <2>3. QED
    BY <2>1, <2>2
<1>14. \A e : e \in Server(es) <=> (\E i \in 1..Len(es) : es[i] = e) /\ IsServer(e)
  BY ServerFacts
<1>15. ASSUME NEW i \in 1..Len(t)
       PROVE  /\ t[i] \in Item /\ IsServer(t[i]) /\ t[i].epoch = c.epoch
              /\ t[i].seq > c.seq /\ t[i].seq <= k /\ c.epoch = pin
              /\ t[i] = Envelope(c.epoch, t[i].seq)
  <2>1. t[i] \in Item /\ ~IsLocal(t[i])
    BY <1>12, EntryOf DEF HasLocal
  <2>2. IsServer(t[i])
    BY <2>1, ItemFacts
  <2>3. t[i] \in Server(t)
    BY <1>12, <2>2, ServerFacts
  <2>4. t[i] \in after /\ t[i] \in Server(es)
    BY <1>2, <1>12, <1>13, <1>14, <2>2, <2>3
  <2>5. TimelineKey(t[i]) \in {pin} \X (1..k)
    BY <2>4 DEF Keys
  <2>6. t[i].epoch = pin /\ t[i].seq \in 1..k
    BY <2>5 DEF TimelineKey
  <2>7. t[i].epoch = c.epoch /\ t[i].seq > c.seq
    BY <1>2, <2>4
  <2>8. QED
    BY <2>1, <2>2, <2>6, <2>7, ItemFacts
<1>16. ASSUME NEW i \in 1..Len(t) PROVE t[i].seq = c.seq + i
  <2> DEFINE n == Len(t)
             q == [j \in 1..n |-> t[j].seq]
  <2>1. n \in Nat /\ q \in [1..n -> Nat] /\ \A j \in 1..n : q[j] = t[j].seq
    <3>1. \A j \in 1..n : t[j].seq \in Nat
      BY <1>12, EntryOf
    <3>2. QED
      BY <1>12, <3>1
  <2>2. c.epoch = pin
    BY <1>15
  <2> HIDE DEF q
  <2>3. \A j, l \in 1..n : j < l => q[j] < q[l]
    BY <1>12, <1>15, <2>1
  <2>4. \A j \in 1..n : c.seq < q[j] /\ q[j] <= k
    BY <1>3, <1>15, <2>1
  <2>5. ASSUME NEW s \in c.seq + 1..k PROVE \E j \in 1..n : q[j] = s
    <3>1. <<pin, s>> \in Keys(es)
      BY <1>3
    <3>2. PICK d \in Server(es) : TimelineKey(d) = <<pin, s>>
      BY <3>1 DEF Keys
    <3>3. d.epoch = c.epoch /\ d.seq = s /\ s > c.seq
      BY <1>3, <2>2, <3>2 DEF TimelineKey
    <3>4. d \in Server(t)
      BY <1>2, <1>12, <1>13, <1>14, <3>3
    <3>5. PICK j \in 1..n : t[j] = d
      BY <1>12, <3>4, ServerFacts
    <3>6. QED
      BY <2>1, <3>3, <3>5
  <2>6. \A j \in 1..n : q[j] = c.seq + j
    <3>1. Fills(q, n, c.seq, k)
      BY <2>1, <2>3, <2>4, <2>5 DEF Fills
    <3>2. n \in Nat /\ c.seq \in Nat /\ k \in Nat
      BY <1>3, <2>1
    <3> HIDE DEF n
    <3>3. QED
      BY <3>1, <3>2, Numbered
  <2>7. QED
    BY <2>1, <2>6
<1>17. \A i \in 1..Len(t) : t[i] = Envelope(c.epoch, c.seq + i) /\ c.seq + i <= k
  <2> SUFFICES ASSUME NEW i \in 1..Len(t)
               PROVE  t[i] = Envelope(c.epoch, c.seq + i) /\ c.seq + i <= k
    OBVIOUS
  <2>1. QED
    BY <1>15, <1>16
<1>18. QED
  BY <1>12, <1>17 DEF t

-----------------------------------------------------------------------------
(* The stream: at most one fetch is under way, or one timer for it, and it *)
(* is served what comes after the cursor.                                  *)

OneFetch ==
    /\ \A f \in Fetch : fetch[f].state # "idle" => f = controller /\ timers = 0
    /\ disposed => \A f \in Fetch : fetch[f].state \in {"idle", "aborted"}
    /\ ~listening /\ ~disposed =>
          ~connected /\ timers = 0 /\ \A f \in Fetch : fetch[f].state = "idle"

CursorInv ==
    /\ cursor.epoch = 0 => cursor.seq = 0
    /\ cursor.epoch <= epoch
    /\ cursor.epoch = epoch => cursor.seq <= length
    /\ \A f \in Fetch :
          /\ fetch[f].state = "opening" =>
                fetch[f].epoch = cursor.epoch /\ fetch[f].next = cursor.seq + 1
          /\ fetch[f].state = "open" =>
                /\ fetch[f].epoch = epoch
                /\ fetch[f].next = IF cursor.epoch = epoch THEN cursor.seq + 1 ELSE 1

StreamInv == SseTypeOK /\ OneFetch /\ CursorInv

FetchState == [state : {"idle", "opening", "aborted", "open"}, epoch : 0..MaxEpoch, next : 0..MaxSeq + 1]

(* The types of the stream, part by part.                                  *)
LEMMA SseTypes ==
    ASSUME StreamInv
    PROVE  /\ MaxSeq \in Nat /\ MaxEpoch \in Nat /\ MaxAttempts \in Nat /\ MaxBreaks \in Nat
           /\ epoch \in Nat /\ epoch # 0 /\ epoch <= MaxEpoch
           /\ length \in Nat /\ length <= MaxSeq
           /\ cursor = [epoch |-> cursor.epoch, seq |-> cursor.seq]
           /\ cursor.epoch \in Nat /\ cursor.seq \in Nat
           /\ cursor.epoch <= MaxEpoch /\ cursor.seq <= MaxSeq
           /\ timers \in Nat /\ breaks \in Nat /\ attempts \in Nat
           /\ fetch \in [Fetch -> FetchState] /\ controller \in Fetch
BY StreamAssumption DEF StreamInv, SseTypeOK, FetchState

(* The invariant of the stream holds at first ...                          *)
LEMMA StreamInit ==
    ASSUME SseInit PROVE StreamInv
<1>1. Idle \in FetchState /\ Idle.state = "idle"
  BY StreamAssumption DEF Idle, FetchState
<1>2. \A f \in Fetch : fetch[f].state = "idle"
  BY <1>1 DEF SseInit
<1>3. fetch \in [Fetch -> FetchState]
  BY <1>1 DEF SseInit
<1>4. SseTypeOK
  <2>1. /\ epoch \in 1..MaxEpoch /\ length \in 0..MaxSeq /\ breaks \in 0..MaxBreaks
        /\ controller \in Fetch /\ attempts \in 0..MaxAttempts /\ timers \in 0..1
        /\ cursor \in [epoch : 0..MaxEpoch, seq : 0..MaxSeq]
    BY StreamAssumption DEF SseInit
  <2>2. connected \in BOOLEAN /\ disposed \in BOOLEAN /\ listening \in BOOLEAN /\ gaveUp \in BOOLEAN
    BY DEF SseInit
  <2>3. QED
    BY <1>3, <2>1, <2>2 DEF SseTypeOK, FetchState
<1>5. QED
  BY <1>2, <1>4, StreamAssumption DEF SseInit, StreamInv, OneFetch, CursorInv

(* What arrives is the item after the cursor, or the first of a new epoch. *)
LEMMA ReceivesFacts ==
    ASSUME StreamInv, NEW f \in Fetch, NEW e, e = Envelope(epoch, fetch[f].next), Receives(f, e)
    PROVE  /\ listening /\ ~disposed
           /\ e \in Item /\ IsServer(e) /\ e.epoch = epoch /\ e.seq \in 1..length
           /\ cursor' = [epoch |-> epoch, seq |-> e.seq]
           /\ e.seq = IF cursor.epoch = epoch THEN cursor.seq + 1 ELSE 1
           /\ fetch' = [fetch EXCEPT ![f] = [fetch[f] EXCEPT !.next = e.seq + 1]]
           /\ UNCHANGED <<serving, breaks, controller, connected, disposed, listening, attempts, timers, gaveUp>>
<1>1. fetch[f].state = "open" /\ fetch[f].next <= length /\ fetch[f] \in FetchState
  BY SseTypes DEF Receives
<1>2. ~disposed /\ listening
  BY <1>1 DEF StreamInv, OneFetch, SseTypeOK
<1>3. e.epoch = epoch /\ e.seq = fetch[f].next
  BY DEF Envelope
<1>4. e.seq = IF cursor.epoch = epoch THEN cursor.seq + 1 ELSE 1
  BY <1>1, <1>3 DEF StreamInv, CursorInv
<1>5. e.seq \in 1..length
  BY <1>1, <1>3, <1>4, SseTypes
<1>6. e \in Item /\ IsServer(e)
  <2>1. epoch \in Nat \ {0} /\ e.seq \in Nat \ {0} /\ e = Envelope(epoch, e.seq)
    BY <1>3, <1>5, SseTypes
  <2>2. QED
    BY <2>1, EnvelopeFacts
<1>7. cursor' = [epoch |-> epoch, seq |-> e.seq]
  <2>1. cursor' = [epoch |-> epoch,
                   seq |-> IF cursor.epoch \notin {0, epoch} \/ e.seq > cursor.seq
                           THEN e.seq ELSE cursor.seq]
    BY <1>3 DEF Receives, AdvanceReconnectCursor
  <2>2. cursor.epoch \notin {0, epoch} \/ e.seq > cursor.seq
    <3>1. cursor.epoch = 0 => cursor.seq = 0
      BY DEF StreamInv, CursorInv
    <3>2. QED
      BY <1>4, <3>1, SseTypes
  <2>3. QED
    BY <2>1, <2>2
<1>8. fetch' = [fetch EXCEPT ![f] = [fetch[f] EXCEPT !.next = e.seq + 1]]
  BY <1>1, <1>3, SseTypes DEF Receives, FetchState
<1>9. QED
  BY <1>2, <1>3, <1>4, <1>5, <1>6, <1>7, <1>8 DEF Receives

(* ... and is kept when an item arrives, ...                               *)
LEMMA StreamReceives ==
    ASSUME StreamInv, NEW f \in Fetch, NEW e, e = Envelope(epoch, fetch[f].next), Receives(f, e)
    PROVE  StreamInv'
<1>1. fetch[f].state = "open" /\ fetch[f] \in FetchState
  BY SseTypes DEF Receives
<1> DEFINE r == [fetch[f] EXCEPT !.next = e.seq + 1]
<1>2. fetch' = [fetch EXCEPT ![f] = r]
  BY ReceivesFacts
<1>3. /\ e.seq \in Nat /\ e.seq <= length /\ e.seq # 0
      /\ cursor'.epoch = epoch /\ cursor'.seq = e.seq /\ cursor' = [epoch |-> epoch, seq |-> e.seq]
  BY ReceivesFacts, SseTypes
<1>4. r \in FetchState /\ r.state = "open" /\ r.epoch = fetch[f].epoch /\ r.next = e.seq + 1
  BY <1>1, <1>3, SseTypes DEF FetchState
<1> HIDE DEF r
<1>5. /\ fetch' \in [Fetch -> FetchState] /\ fetch'[f] = r
      /\ \A g \in Fetch : g # f => fetch'[g] = fetch[g]
  BY <1>2, <1>4, SseTypes
<1>6. \A g \in Fetch : fetch[g].state # "idle" => g = f
  BY <1>1 DEF StreamInv, OneFetch
<1>7. UNCHANGED <<epoch, length, breaks, controller, connected, disposed, listening, attempts, timers, gaveUp>>
  BY ReceivesFacts DEF serving
<1>8. cursor' \in [epoch : 0..MaxEpoch, seq : 0..MaxSeq]
  BY <1>3, SseTypes
<1>9. SseTypeOK'
  BY <1>5, <1>7, <1>8 DEF StreamInv, SseTypeOK, FetchState
<1>10. OneFetch'
  BY <1>1, <1>4, <1>5, <1>7 DEF StreamInv, OneFetch
<1>11. CursorInv'
  BY <1>1, <1>3, <1>4, <1>5, <1>6, <1>7, SseTypes DEF StreamInv, CursorInv
<1>12. QED
  BY <1>9, <1>10, <1>11 DEF StreamInv

(* ... when a fetch starts, unless the stream is disposed of, ...          *)
LEMMA StartsFetch ==
    ASSUME StreamInv, StartFetch, \A g \in Fetch : disposed' \/ fetch[g].state = "idle", timers' = 0 \/ disposed',
           timers' \in 0..1, connected' \in BOOLEAN, listening' \in BOOLEAN, disposed' \in BOOLEAN,
           disposed' => disposed, listening' \/ disposed', attempts' \in 0..MaxAttempts,
           UNCHANGED <<serving, breaks, cursor, gaveUp>>,
           \A g \in Fetch : disposed' /\ fetch[g].state # "idle" => timers' = 0
    PROVE  StreamInv'
<1>1. CASE disposed'
  <2>1. UNCHANGED <<fetch, controller>>
    BY <1>1 DEF StartFetch
  <2>2. QED
    BY <1>1, <2>1 DEF StreamInv, SseTypeOK, OneFetch, CursorInv, serving
<1>2. CASE ~disposed'
  <2>1. PICK f \in Fetch :
           /\ fetch[f].state = "idle"
           /\ fetch' = [fetch EXCEPT ![f] = [state |-> "opening", epoch |-> cursor.epoch, next |-> cursor.seq + 1]]
           /\ controller' = f
    BY <1>2 DEF StartFetch
  <2> DEFINE r == [state |-> "opening", epoch |-> cursor.epoch, next |-> cursor.seq + 1]
  <2>2. r \in FetchState /\ r.state = "opening" /\ r.epoch = cursor.epoch /\ r.next = cursor.seq + 1
    BY SseTypes DEF FetchState
  <2>3. fetch' = [fetch EXCEPT ![f] = r]
    BY <2>1
  <2> HIDE DEF r
  <2>4. /\ fetch' \in [Fetch -> FetchState] /\ fetch'[f] = r
        /\ \A g \in Fetch : g # f => fetch'[g] = fetch[g]
    BY <2>2, <2>3, SseTypes
  <2>5. \A g \in Fetch : g # f => fetch'[g].state = "idle"
    BY <1>2, <2>4
  <2>6. UNCHANGED <<epoch, length, breaks, cursor, gaveUp>>
    BY DEF serving
  <2>7. SseTypeOK'
    BY <2>1, <2>4, <2>6 DEF StreamInv, SseTypeOK, FetchState
  <2>8. OneFetch'
    BY <1>2, <2>1, <2>2, <2>4, <2>5 DEF OneFetch
  <2>9. CursorInv'
    BY <2>2, <2>4, <2>5, <2>6 DEF StreamInv, CursorInv
  <2>10. QED
    BY <2>7, <2>8, <2>9 DEF StreamInv
<1>3. QED
  BY <1>1, <1>2

(* ... by the first connect, ...                                           *)
LEMMA StreamConnects ==
    ASSUME StreamInv, ~listening, ~disposed, Connect
    PROVE  StreamInv'
<1>1. ~connected /\ timers = 0 /\ \A f \in Fetch : fetch[f].state = "idle"
  BY DEF StreamInv, OneFetch
<1>2. /\ StartFetch /\ attempts' = 0 /\ disposed' = FALSE /\ listening' = TRUE /\ connected' = TRUE
      /\ UNCHANGED <<serving, breaks, cursor, timers, gaveUp>>
  BY <1>1 DEF Connect
<1>3. attempts' \in 0..MaxAttempts /\ timers' = 0
  BY <1>1, <1>2, StreamAssumption
<1>4. connected' \in BOOLEAN /\ listening' \in BOOLEAN /\ disposed' \in BOOLEAN
  BY <1>2
<1>5. ~disposed' /\ listening' /\ timers' \in 0..1
  BY <1>2, <1>3
<1>6. QED
  BY <1>1, <1>2, <1>3, <1>4, <1>5, StartsFetch

(* ... by the timer, ...                                                   *)
LEMMA StreamReconnects ==
    ASSUME StreamInv, ReconnectTimer
    PROVE  StreamInv'
<1>1. timers = 1 /\ timers' = 0
  BY DEF ReconnectTimer, StreamInv, SseTypeOK
<1>2. \A f \in Fetch : fetch[f].state = "idle"
  BY <1>1 DEF StreamInv, OneFetch
<1>3. /\ StartFetch /\ connected' = TRUE
      /\ UNCHANGED <<serving, breaks, cursor, gaveUp>>
      /\ disposed' = disposed /\ listening' = listening /\ attempts' = attempts
  BY DEF ReconnectTimer
<1>4. listening \/ disposed
  BY <1>1 DEF StreamInv, OneFetch
<1>5. attempts \in 0..MaxAttempts /\ disposed \in BOOLEAN /\ listening \in BOOLEAN
  BY DEF StreamInv, SseTypeOK
<1>6. QED
  BY <1>1, <1>2, <1>3, <1>4, <1>5, StartsFetch

(* ... by an answer, ...                                                   *)
LEMMA StreamOpens ==
    ASSUME StreamInv, NEW f \in Fetch, Opens(f)
    PROVE  StreamInv'
<1> DEFINE r == [state |-> "open", epoch |-> epoch,
                 next |-> IF fetch[f].epoch \in {0, epoch} THEN fetch[f].next ELSE 1]
<1>1. fetch[f].state = "opening" /\ fetch[f] \in FetchState
  BY SseTypes DEF Opens
<1>2. fetch' = [fetch EXCEPT ![f] = r]
  BY SseTypes DEF Opens
<1>3. fetch[f].epoch = cursor.epoch /\ fetch[f].next = cursor.seq + 1
  BY <1>1 DEF StreamInv, CursorInv
<1>4. /\ r \in FetchState /\ r.state = "open" /\ r.epoch = epoch
      /\ r.next = IF cursor.epoch = epoch THEN cursor.seq + 1 ELSE 1
  <2>1. cursor.epoch = 0 => cursor.seq = 0
    BY DEF StreamInv, CursorInv
  <2>2. r.next = IF cursor.epoch = epoch THEN cursor.seq + 1 ELSE 1
    BY <1>3, <2>1, SseTypes
  <2>3. r.next \in 0..MaxSeq + 1
    BY <2>2, SseTypes
  <2>4. QED
    BY <2>2, <2>3, SseTypes DEF FetchState
<1> HIDE DEF r
<1>5. /\ fetch' \in [Fetch -> FetchState] /\ fetch'[f] = r
      /\ \A g \in Fetch : g # f => fetch'[g] = fetch[g]
  BY <1>2, <1>4, SseTypes
<1>6. /\ attempts' = 0
      /\ UNCHANGED <<epoch, length, breaks, controller, connected, disposed, listening, cursor, timers, gaveUp>>
  BY DEF Opens, serving
<1>7. attempts' \in 0..MaxAttempts
  BY <1>6, StreamAssumption
<1>8. SseTypeOK'
  BY <1>5, <1>6, <1>7 DEF StreamInv, SseTypeOK, FetchState
<1>9. OneFetch'
  BY <1>1, <1>5, <1>6 DEF StreamInv, OneFetch
<1>10. CursorInv'
  BY <1>4, <1>5, <1>6 DEF StreamInv, CursorInv
<1>11. QED
  BY <1>8, <1>9, <1>10 DEF StreamInv

(* ... by the end of a fetch, ...                                          *)
LEMMA StreamEnds ==
    ASSUME StreamInv, NEW f \in Fetch, fetch[f].state # "idle", FetchEnds(f),
           breaks' \in 0..MaxBreaks
    PROVE  StreamInv'
<1>1. fetch' = [fetch EXCEPT ![f] = Idle] /\ Idle \in FetchState /\ Idle.state = "idle"
  BY StreamAssumption DEF FetchEnds, Idle, FetchState
<1>2. /\ fetch' \in [Fetch -> FetchState] /\ fetch'[f] = Idle
      /\ \A g \in Fetch : g # f => fetch'[g] = fetch[g]
  BY <1>1, SseTypes
<1>3. timers = 0 /\ \A g \in Fetch : g # f => fetch[g].state = "idle"
  BY DEF StreamInv, OneFetch
<1>4. \A g \in Fetch : fetch'[g].state = "idle"
  BY <1>1, <1>2, <1>3
<1>5. /\ UNCHANGED <<epoch, length, controller, disposed, listening, cursor>>
      /\ ScheduleReconnect
  BY DEF FetchEnds, serving
<1>6. /\ connected' \in BOOLEAN /\ timers' \in 0..1 /\ attempts' \in 0..MaxAttempts /\ gaveUp' \in BOOLEAN
      /\ disposed => timers' = 0
      /\ ~disposed => connected' = FALSE
  <2>1. attempts \in 0..MaxAttempts /\ connected \in BOOLEAN /\ gaveUp \in BOOLEAN
        /\ listening \in BOOLEAN /\ MaxAttempts \in Nat
    BY StreamAssumption DEF StreamInv, SseTypeOK
  <2>2. CASE disposed
    BY <1>3, <1>5, <2>1, <2>2 DEF ScheduleReconnect
  <2>3. CASE ~disposed
    <3>1. connected' = FALSE
      BY <1>5, <2>3 DEF ScheduleReconnect
    <3>2. CASE attempts >= MaxAttempts
      <4>1. gaveUp' = listening /\ attempts' = attempts /\ timers' = timers
        BY <1>5, <2>3, <3>2 DEF ScheduleReconnect
      <4>2. gaveUp' \in BOOLEAN
        BY <2>1, <4>1
      <4>3. timers' \in 0..1 /\ attempts' \in 0..MaxAttempts
        BY <1>3, <2>1, <4>1
      <4>4. QED
        BY <2>3, <3>1, <4>2, <4>3
    <3>3. CASE ~(attempts >= MaxAttempts)
      <4>1. gaveUp' = gaveUp /\ attempts' = attempts + 1 /\ timers' = timers + 1
        BY <1>5, <2>3, <3>3 DEF ScheduleReconnect
      <4>2. gaveUp' \in BOOLEAN
        BY <2>1, <4>1
      <4>3. timers' \in 0..1 /\ attempts' \in 0..MaxAttempts
        BY <1>3, <2>1, <3>3, <4>1
      <4>4. QED
        BY <2>3, <3>1, <4>2, <4>3
    <3>4. QED
      BY <3>2, <3>3
  <2>4. QED
    BY <2>2, <2>3
<1>7. listening \/ disposed
  BY DEF StreamInv, OneFetch
<1>8. SseTypeOK'
  BY <1>2, <1>5, <1>6 DEF StreamInv, SseTypeOK, FetchState
<1>9. OneFetch'
  BY <1>4, <1>5, <1>6, <1>7 DEF OneFetch
<1>10. CursorInv'
  BY <1>4, <1>5 DEF StreamInv, CursorInv
<1>11. QED
  BY <1>8, <1>9, <1>10 DEF StreamInv

(* ... by a disconnect, ...                                                *)
LEMMA StreamDisconnects ==
    ASSUME StreamInv, Disconnect
    PROVE  StreamInv'
<1> DEFINE r == [Idle EXCEPT !.state = "aborted"]
<1>1. r \in FetchState /\ r.state = "aborted"
  BY StreamAssumption DEF Idle, FetchState
<1>2. /\ disposed' = TRUE /\ connected' = FALSE /\ listening' = FALSE
      /\ UNCHANGED <<epoch, length, breaks, controller, cursor, attempts, timers, gaveUp>>
      /\ fetch' = IF fetch[controller].state = "idle" THEN fetch
                  ELSE [fetch EXCEPT ![controller] = r]
  BY DEF Disconnect, serving
<1> HIDE DEF r
<1>3. /\ fetch' \in [Fetch -> FetchState]
      /\ \A g \in Fetch : fetch'[g] = fetch[g] \/ (g = controller /\ fetch'[g] = r /\ fetch[g].state # "idle")
      /\ fetch[controller].state # "idle" => fetch'[controller] = r
  BY <1>1, <1>2, SseTypes
<1>4. \A g \in Fetch : fetch[g].state # "idle" => g = controller
  BY DEF StreamInv, OneFetch
<1>5. \A g \in Fetch : fetch'[g].state \in {"idle", "aborted"}
  BY <1>1, <1>3, <1>4
<1>6. SseTypeOK'
  BY <1>2, <1>3 DEF StreamInv, SseTypeOK, FetchState
<1>7. OneFetch'
  BY <1>2, <1>3, <1>5 DEF StreamInv, OneFetch
<1>8. CursorInv'
  BY <1>2, <1>5 DEF StreamInv, CursorInv
<1>9. QED
  BY <1>6, <1>7, <1>8 DEF StreamInv

(* ... and by the server.                                                  *)
LEMMA StreamServes ==
    ASSUME StreamInv, Appends \/ Restarts
    PROVE  StreamInv'
<1>1. UNCHANGED <<breaks, fetch, controller, connected, disposed, listening, cursor, attempts, timers, gaveUp>>
  BY DEF Appends, Restarts, stream
<1>2. CASE Appends
  <2>1. length' = length + 1 /\ length < MaxSeq /\ epoch' = epoch
    BY <1>2 DEF Appends
  <2>2. SseTypeOK'
    BY <1>1, <2>1, SseTypes DEF StreamInv, SseTypeOK
  <2>3. OneFetch' /\ CursorInv'
    BY <1>1, <2>1, SseTypes DEF StreamInv, OneFetch, CursorInv
  <2>4. QED
    BY <2>2, <2>3 DEF StreamInv
<1>3. CASE Restarts
  <2>1. epoch' = epoch + 1 /\ epoch < MaxEpoch /\ length' = length
        /\ \A f \in Fetch : fetch[f].state # "open"
    BY <1>3 DEF Restarts
  <2>2. SseTypeOK'
    BY <1>1, <2>1, SseTypes DEF StreamInv, SseTypeOK
  <2>3. OneFetch'
    BY <1>1 DEF StreamInv, OneFetch
  <2>4. CursorInv'
    BY <1>1, <2>1, SseTypes DEF StreamInv, CursorInv
  <2>5. QED
    BY <2>2, <2>3, <2>4 DEF StreamInv
<1>4. QED
  BY <1>2, <1>3

(* Every step keeps the invariant of the stream.                           *)
LEMMA StreamStep ==
    ASSUME StreamInv, [Next]_vars
    PROVE  StreamInv'
<1>1. CASE UNCHANGED sse
  BY <1>1 DEF sse, serving, stream, StreamInv, SseTypeOK, OneFetch, CursorInv
<1>2. CASE Receive
  BY <1>2, StreamReceives DEF Receive
<1>3. CASE \E f \in Fetch : Opens(f)
  BY <1>3, StreamOpens
<1>4. CASE \E f \in Fetch : AbortedEnds(f) \/ Breaks(f)
  <2>1. PICK f \in Fetch : AbortedEnds(f) \/ Breaks(f)
    BY <1>4
  <2>2. fetch[f].state # "idle" /\ FetchEnds(f)
    BY <2>1 DEF AbortedEnds, Breaks
  <2>3. breaks' \in 0..MaxBreaks
    BY <2>1, SseTypes DEF AbortedEnds, Breaks, StreamInv, SseTypeOK
  <2>4. QED
    BY <2>2, <2>3, StreamEnds
<1>5. CASE ConnectSse
  BY <1>5, StreamConnects DEF ConnectSse
<1>6. CASE ReconnectTimer
  BY <1>6, StreamReconnects
<1>7. CASE Dispose
  BY <1>7, StreamDisconnects DEF Dispose
<1>8. CASE Appends \/ Restarts
  BY <1>8, StreamServes
<1>9. CASE CatchUpFails
  <2>1. breaks' = breaks + 1 /\ breaks < MaxBreaks /\ UNCHANGED <<serving, fetch, stream>>
    BY <1>9 DEF CatchUpFails
  <2>2. breaks' \in 0..MaxBreaks
    BY <2>1, SseTypes
  <2>3. QED
    BY <2>1, <2>2 DEF serving, stream, StreamInv, SseTypeOK, OneFetch, CursorInv
<1>10. CASE Flush \/ ArmReplay \/ Commit \/ CatchUpReturns \/ Preflight \/ Close
  BY <1>1, <1>10 DEF Flush, ArmReplay, Commit, CatchUpReturns, Preflight, Close
<1>11. CASE UNCHANGED vars
  BY <1>1, <1>11 DEF vars
<1>12. QED
  BY <1>2, <1>3, <1>4, <1>5, <1>6, <1>7, <1>8, <1>9, <1>10, <1>11 DEF Next, Runs

-----------------------------------------------------------------------------
(* The hook.  What es holds of the server when c is the cursor and m came  *)
(* while nobody listened: the items of one epoch in order, all up to the   *)
(* cursor, and beyond it a run without gaps.                               *)

Ordered(es) == \A i, j \in 1..Len(es) : i < j /\ IsServer(es[i]) /\ IsServer(es[j]) => es[i].seq < es[j].seq

Holds(es, c, m) ==
    /\ \A e \in Server(es) : e.epoch = c.epoch
    /\ \A s \in 1..c.seq : Envelope(c.epoch, s) \in Server(es) \/ <<c.epoch, s>> \in m
    /\ \A e \in Server(es) : \A s \in c.seq + 1..e.seq : Envelope(c.epoch, s) \in Server(es)

Held(es, c, m) == Ordered(es) /\ Holds(es, c, m)

InOrderBut(es, m) ==
    \A i \in 1..Len(es) : IsServer(es[i]) =>
        /\ \A j \in 1..i - 1 : IsServer(es[j]) => es[j].epoch = es[i].epoch /\ es[j].seq < es[i].seq
        /\ \A s \in 1..es[i].seq - 1 :
              Envelope(es[i].epoch, s) \in Range(es) \/ <<es[i].epoch, s>> \in m

(* InOrder, with what was missed as a parameter, and with more of it.      *)
LEMMA InOrderFacts ==
    ASSUME NEW es, NEW m, NEW more, m \subseteq more
    PROVE  /\ InOrder(es) <=> InOrderBut(es, missed)
           /\ InOrderBut(es, m) => InOrderBut(es, more)
BY DEF InOrder, InOrderBut

(* What is held is in order.                                               *)
LEMMA HeldInOrder ==
    ASSUME NEW es \in Seq(Item), NEW c \in [epoch : Nat, seq : Nat], NEW m, Held(es, c, m)
    PROVE  InOrderBut(es, m)
<1> SUFFICES ASSUME NEW i \in 1..Len(es), IsServer(es[i])
             PROVE  /\ \A j \in 1..i - 1 : IsServer(es[j]) => es[j].epoch = es[i].epoch /\ es[j].seq < es[i].seq
                    /\ \A s \in 1..es[i].seq - 1 :
                          Envelope(es[i].epoch, s) \in Range(es) \/ <<es[i].epoch, s>> \in m
  BY DEF InOrderBut
<1>1. \A j \in 1..Len(es) : IsServer(es[j]) => es[j] \in Server(es) /\ es[j].epoch = c.epoch
  BY ServerFacts DEF Held, Holds
<1>2. \A j \in 1..i - 1 : IsServer(es[j]) => es[j].epoch = es[i].epoch /\ es[j].seq < es[i].seq
  <2>1. \A j \in 1..i - 1 : j \in 1..Len(es) /\ j < i
    OBVIOUS
  <2>2. QED
    BY <1>1, <2>1 DEF Held, Ordered
<1>3. ASSUME NEW s \in 1..es[i].seq - 1
      PROVE  Envelope(es[i].epoch, s) \in Range(es) \/ <<es[i].epoch, s>> \in m
  <2>1. es[i].seq \in Nat /\ c.seq \in Nat
    BY EntryOf
  <2>2. s \in 1..c.seq \/ s \in c.seq + 1..es[i].seq
    BY <2>1
  <2>3. Envelope(c.epoch, s) \in Server(es) \/ <<c.epoch, s>> \in m
    BY <1>1, <2>2 DEF Held, Holds
  <2>4. QED
    BY <1>1, <2>3 DEF Server
<1>4. QED
  BY <1>2, <1>3

(* An item that comes after all others keeps the order.                    *)
LEMMA OrderedGrows ==
    ASSUME NEW es \in Seq(Item), NEW e \in Item, Ordered(es),
           IsServer(e) => \A d \in Server(es) : d.seq < e.seq
    PROVE  Ordered(Append(es, e))
<1> DEFINE q == Append(es, e)
<1>1. /\ Len(q) = Len(es) + 1 /\ Len(es) \in Nat
      /\ \A i \in 1..Len(es) : q[i] = es[i]
      /\ q[Len(es) + 1] = e
  OBVIOUS
<1> HIDE DEF q
<1>2. ASSUME NEW i \in 1..Len(q), NEW j \in 1..Len(q), i < j, IsServer(q[i]), IsServer(q[j])
      PROVE  q[i].seq < q[j].seq
  <2>1. i \in 1..Len(es) /\ q[i] = es[i]
    BY <1>1, <1>2
  <2>2. CASE j \in 1..Len(es)
    BY <1>1, <1>2, <2>1, <2>2 DEF Ordered
  <2>3. CASE j = Len(es) + 1
    <3>1. es[i] \in Server(es)
      BY <1>2, <2>1, ServerFacts
    <3>2. QED
      BY <1>1, <1>2, <2>1, <2>3, <3>1
  <2>4. QED
    BY <1>1, <2>2, <2>3
<1>3. QED
  BY <1>2 DEF Ordered, q

(* What is local changes nothing that is held.                             *)
LEMMA HeldLocal ==
    ASSUME NEW s, Sound(s), NEW e \in Item, IsLocal(e), NEW c, NEW m, NEW more, m \subseteq more,
           Held(s.transcript, c, m)
    PROVE  LET t == FoldEvent(s, <<e, FALSE>>)
           IN  Server(t.transcript) = Server(s.transcript) /\ Held(t.transcript, c, more)
<1> DEFINE ev == <<e, FALSE>>
           t == FoldEvent(s, ev)
<1>1. ev \in Event /\ ev[1] = e /\ ev[2] = FALSE /\ ~IsServer(e)
  BY ItemFacts DEF Event
<1> HIDE DEF ev, t
<1>2. /\ e \in Server(s.transcript) => t = s
      /\ e \notin Server(s.transcript) => t.transcript = Append(s.transcript, e)
      /\ Server(t.transcript) = Server(s.transcript)
  <2>1. /\ ev[1] \in Server((IF ev[2] THEN NoSession ELSE s).transcript) => t = IF ev[2] THEN NoSession ELSE s
        /\ ev[1] \notin Server((IF ev[2] THEN NoSession ELSE s).transcript) =>
              t.transcript = Append((IF ev[2] THEN NoSession ELSE s).transcript, ev[1])
        /\ Server(t.transcript) = Server((IF ev[2] THEN NoSession ELSE s).transcript)
                                  \cup (IF IsServer(ev[1]) THEN {ev[1]} ELSE {})
    BY <1>1, FoldEventFacts DEF t
  <2>2. QED
    BY <1>1, <2>1
<1>3. s.transcript \in Seq(Item)
  BY DEF Sound, Sessions
<1>4. t.transcript = Append(s.transcript, e)
  BY <1>1, <1>2 DEF Server
<1>5. Ordered(t.transcript)
  BY <1>1, <1>3, <1>4, OrderedGrows DEF Held
<1>6. Holds(t.transcript, c, more)
  BY <1>2 DEF Held, Holds
<1>7. QED
  BY <1>2, <1>5, <1>6 DEF Held, t, ev

(* The more was missed, the more is held.                                  *)
LEMMA HeldMore ==
    ASSUME NEW es, NEW c, NEW m, NEW more, m \subseteq more, Held(es, c, m)
    PROVE  Held(es, c, more)
BY DEF Held, Holds

(* Items that may come next in base: all before them are there or missed,  *)
(* and none after them unless what is in between is there.                 *)
Fits(base, epo, k, m) ==
    /\ Ordered(base)
    /\ \A d \in Server(base) : d.epoch = epo
    /\ Envelope(epo, k) \notin Server(base) => \A d \in Server(base) : d.seq < k
    /\ \A s \in 1..k - 1 : Envelope(epo, s) \in Server(base) \/ <<epo, s>> \in m
    /\ \A d \in Server(base) : \A s \in k + 1..d.seq : Envelope(epo, s) \in Server(base)

(* An item that may come next is held once it is folded.                   *)
LEMMA HeldItem ==
    ASSUME NEW s, Sound(s), NEW epo \in Nat \ {0}, NEW k \in Nat \ {0}, NEW rotates \in BOOLEAN, NEW m,
           Fits((IF rotates THEN NoSession ELSE s).transcript, epo, k, m)
    PROVE  LET t == FoldEvent(s, <<Envelope(epo, k), rotates>>)
           IN  /\ Held(t.transcript, [epoch |-> epo, seq |-> k], m)
               /\ ~rotates => Server(s.transcript) \subseteq Server(t.transcript)
<1> DEFINE e == Envelope(epo, k)
           ev == <<e, rotates>>
           base == IF rotates THEN NoSession ELSE s
           t == FoldEvent(s, ev)
           c == [epoch |-> epo, seq |-> k]
<1>1. e \in Item /\ e.epoch = epo /\ e.seq = k /\ IsServer(e)
  BY EnvelopeFacts
<1>2. ev \in Event /\ ev[1] = e /\ ev[2] = rotates
  BY <1>1 DEF Event
<1>3. /\ Sound(base)
      /\ e \in Server(base.transcript) => t = base
      /\ e \notin Server(base.transcript) => t.transcript = Append(base.transcript, e)
      /\ Server(t.transcript) = Server(base.transcript) \cup {e}
  <2> HIDE DEF ev, e
  <2>1. /\ Sound(base)
        /\ ev[1] \in Server(base.transcript) => t = base
        /\ ev[1] \notin Server(base.transcript) => t.transcript = Append(base.transcript, ev[1])
        /\ Server(t.transcript) = Server(base.transcript) \cup (IF IsServer(ev[1]) THEN {ev[1]} ELSE {})
    BY <1>2, FoldEventFacts
  <2>2. QED
    BY <1>1, <1>2, <2>1
<1>4. Fits(base.transcript, epo, k, m)
  OBVIOUS
<1>5. ~rotates => base = s
  OBVIOUS
<1> HIDE DEF ev, base, t
<1>6. base.transcript \in Seq(Item)
  BY <1>3 DEF Sound, Sessions
<1>7. Ordered(t.transcript)
  <2>1. CASE e \in Server(base.transcript)
    BY <1>3, <1>4, <2>1 DEF Fits
  <2>2. CASE e \notin Server(base.transcript)
    <3>1. \A d \in Server(base.transcript) : d.seq < e.seq
      BY <1>1, <1>4, <2>2 DEF Fits
    <3> HIDE DEF e
    <3>2. Ordered(Append(base.transcript, e))
      BY <1>1, <1>4, <1>6, <3>1, OrderedGrows DEF Fits
    <3>3. QED
      BY <1>3, <2>2, <3>2
  <2>3. QED
    BY <2>1, <2>2
<1>8. Holds(t.transcript, c, m)
  <2>1. \A d \in Server(t.transcript) : d.epoch = epo
    BY <1>1, <1>3, <1>4 DEF Fits
  <2>2. \A i \in 1..k : Envelope(epo, i) \in Server(t.transcript) \/ <<epo, i>> \in m
    <3>1. \A i \in 1..k : i = k \/ i \in 1..k - 1
      OBVIOUS
    <3>2. QED
      BY <1>3, <1>4, <3>1 DEF Fits
  <2>3. \A d \in Server(t.transcript) : \A i \in k + 1..d.seq : Envelope(epo, i) \in Server(t.transcript)
    <3>1. \A i \in k + 1..e.seq : FALSE
      BY <1>1
    <3>2. QED
      BY <1>3, <1>4, <3>1 DEF Fits
  <2>4. QED
    BY <2>1, <2>2, <2>3 DEF Holds
<1>9. ~rotates => Server(s.transcript) \subseteq Server(t.transcript)
  BY <1>3, <1>5
<1>10. QED
  BY <1>7, <1>8, <1>9 DEF Held, t, ev

(* The first item of an epoch may come next in a new session.              *)
LEMMA FitsFirst ==
    ASSUME NEW epo \in Nat \ {0}, NEW m
    PROVE  Fits(NoSession.transcript, epo, 1, m)
<1>1. Server(NoSession.transcript) = {}
  BY SoundNone
<1>2. Ordered(NoSession.transcript)
  BY DEF NoSession, Ordered
<1>3. \A s \in 1..1 - 1 : FALSE
  OBVIOUS
<1>4. QED
  BY <1>1, <1>2, <1>3 DEF Fits

(* What is held may go on with the item after the cursor.                  *)
LEMMA FitsNext ==
    ASSUME NEW es \in Seq(Item), NEW c \in [epoch : Nat, seq : Nat], NEW m, Held(es, c, m)
    PROVE  Fits(es, c.epoch, c.seq + 1, m)
<1>1. c.seq \in Nat /\ \A d \in Server(es) : d.seq \in Nat
  BY ServerFacts
<1>2. /\ Ordered(es) /\ \A d \in Server(es) : d.epoch = c.epoch
      /\ \A s \in 1..c.seq : Envelope(c.epoch, s) \in Server(es) \/ <<c.epoch, s>> \in m
      /\ \A e \in Server(es) : \A s \in c.seq + 1..e.seq : Envelope(c.epoch, s) \in Server(es)
  BY DEF Held, Holds
<1>3. ASSUME Envelope(c.epoch, c.seq + 1) \notin Server(es), NEW d \in Server(es) PROVE d.seq < c.seq + 1
  <2>1. c.seq + 1 \notin c.seq + 1..d.seq
    BY <1>2, <1>3
  <2>2. QED
    BY <1>1, <2>1
<1>4. \A s \in 1..(c.seq + 1) - 1 : s \in 1..c.seq
  BY <1>1
<1>5. ASSUME NEW d \in Server(es), NEW s \in (c.seq + 1) + 1..d.seq PROVE Envelope(c.epoch, s) \in Server(es)
  <2>1. s \in c.seq + 1..d.seq
    BY <1>1
  <2>2. QED
    BY <1>2, <2>1
<1>6. QED
  BY <1>2, <1>3, <1>4, <1>5 DEF Fits

-----------------------------------------------------------------------------
(* The runtime and the hook.                                               *)

Flags == {replayMode, subscribed, armTimer, render, reconnecting}

TypeInv ==
    /\ pinned \in 0..MaxEpoch /\ metas \in 0..2 /\ Flags \subseteq BOOLEAN
    /\ buffer \in Seq(Item) /\ timeline \in Seq(Item) /\ pending \in Seq(Event)
    /\ Sound(session)
    /\ lastCursor \in [epoch : 0..MaxEpoch, seq : 0..MaxSeq]
    /\ catchup \in [asked : BOOLEAN, items : Seq(Item)]
    /\ missed \in SUBSET (Nat \X Nat)

(* The runtime has taken what the stream received.                         *)
TakenInv ==
    /\ pinned = cursor.epoch
    /\ seenKeys = {pinned} \X (1..cursor.seq)
    /\ Keys(buffer) = seenKeys

(* The session as it will be when the batch is folded.                     *)
View == FoldBatchIntoSessionState(session, pending)

(* What the runtime has taken the hook has, unless it is ahead of it.      *)
Covered ==
    lastCursor.epoch <= pinned =>
        \A s \in 1..cursor.seq :
            <<pinned, s>> \in missed \/ Envelope(pinned, s) \in Server(View.transcript)

MissedPast == \A k \in missed : k[1] < pinned \/ (k[1] = pinned /\ k[2] <= cursor.seq)

Asked ==
    catchup.asked =>
        /\ ~subscribed /\ lastCursor.epoch # 0
        /\ \A i \in 1..Len(catchup.items) :
              /\ catchup.items[i] = Envelope(lastCursor.epoch, lastCursor.seq + i)
              /\ lastCursor.seq + i <= MaxSeq

HookInv ==
    /\ lastCursor.epoch <= epoch
    /\ MissedPast
    /\ Held(View.transcript, lastCursor, missed)
    /\ Covered
    /\ Asked
    /\ InOrderBut(session.transcript, missed)
    /\ Server(timeline) = Server(session.transcript)

Inv == StreamInv /\ TypeInv /\ TakenInv /\ HookInv

(* The types of the runtime and of the hook, part by part.                 *)
LEMMA Types0 ==
    ASSUME Inv
    PROVE  /\ pinned \in Nat /\ pinned <= epoch
           /\ lastCursor = [epoch |-> lastCursor.epoch, seq |-> lastCursor.seq]
           /\ lastCursor.epoch \in Nat /\ lastCursor.seq \in Nat
           /\ lastCursor.epoch <= epoch
           /\ lastCursor.seq <= MaxSeq /\ lastCursor.epoch <= MaxEpoch
           /\ Sound(View) /\ View.transcript \in Seq(Item)
           /\ session.transcript \in Seq(Item)
<1>1. Sound(session) /\ pending \in Seq(Event)
  BY DEF Inv, TypeInv
<1>2. Sound(View)
  <2>1. <<Meta(0, 0), FALSE>> \in Event
    BY DEF Event, Item, Meta
  <2>2. QED
    BY <1>1, <2>1, FoldGrows DEF View
<1>3. View.transcript \in Seq(Item) /\ session.transcript \in Seq(Item)
  BY <1>1, <1>2 DEF Sound, Sessions
<1>4. pinned \in Nat /\ pinned <= epoch
  BY SseTypes DEF Inv, TakenInv, StreamInv, CursorInv
<1>5. lastCursor \in [epoch : 0..MaxEpoch, seq : 0..MaxSeq] /\ lastCursor.epoch <= epoch
  BY DEF Inv, TypeInv, HookInv
<1>6. QED
  BY <1>2, <1>3, <1>4, <1>5, SseTypes DEF Inv

(* What ingest does to what the runtime has, for an item of the server ... *)
LEMMA TakesItem ==
    ASSUME Inv, NEW e \in Item, IsServer(e), e.epoch = epoch,
           e.seq = IF cursor.epoch = epoch THEN cursor.seq + 1 ELSE 1,
           cursor' = [epoch |-> epoch, seq |-> e.seq],
           Ingest(e)
    PROVE  /\ TakenInv' /\ buffer' \in Seq(Item) /\ pinned' = epoch
           /\ replayMode' \in BOOLEAN
           /\ Emit(e)
<1> DEFINE rotates == e.epoch # pinned
           keys == IF rotates THEN {} ELSE seenKeys
           kept == IF rotates THEN Locals(buffer) ELSE buffer
<1>1. /\ pinned = cursor.epoch /\ seenKeys = {pinned} \X (1..cursor.seq) /\ Keys(buffer) = seenKeys
      /\ buffer \in Seq(Item) /\ replayMode \in BOOLEAN /\ cursor.seq \in Nat
  BY SseTypes DEF Inv, TakenInv, TypeInv, Flags
<1>2. /\ pinned' = IF rotates THEN e.epoch ELSE pinned
      /\ replayMode' = (replayMode \/ rotates)
      /\ TimelineKey(e) \notin keys => /\ seenKeys' = keys \cup {TimelineKey(e)}
                                       /\ buffer' = Append(kept, e)
                                       /\ Emit(e)
  BY DEF Ingest
<1>3. pinned' = epoch
  BY <1>2
<1>4. keys = {epoch} \X (1..e.seq - 1)
  <2>1. CASE rotates
    <3>1. e.seq = 1
      BY <1>1, <2>1
    <3>2. 1..1 - 1 = {}
      OBVIOUS
    <3>3. QED
      BY <2>1, <3>1, <3>2
  <2>2. CASE ~rotates
    BY <1>1, <2>2
  <2>3. QED
    BY <2>1, <2>2
<1>5. TimelineKey(e) = <<epoch, e.seq>> /\ e.seq \in Nat \ {0}
  BY DEF TimelineKey, IsServer, Item
<1>6. TimelineKey(e) \notin keys
  BY <1>4, <1>5
<1>7. kept \in Seq(Item) /\ Keys(kept) = keys
  <2>1. Locals(buffer) \in Seq(Item) /\ Server(Locals(buffer)) = {}
    BY <1>1, LocalsFacts
  <2>2. Keys(Locals(buffer)) = {}
    BY <2>1 DEF Keys
  <2>3. QED
    BY <1>1, <2>1, <2>2
<1> HIDE DEF keys, kept
<1>8. buffer' = Append(kept, e) /\ seenKeys' = keys \cup {TimelineKey(e)} /\ Emit(e)
  BY <1>2, <1>6
<1>9. buffer' \in Seq(Item) /\ Server(buffer') = Server(kept) \cup {e}
  BY <1>7, <1>8, Grown
<1>10. Keys(buffer)' = seenKeys'
  <2>1. Keys(buffer)' = Keys(kept) \cup {TimelineKey(e)}
    BY <1>9 DEF Keys, Server
  <2>2. QED
    BY <1>7, <1>8, <2>1
<1>11. seenKeys' = {pinned'} \X (1..cursor'.seq)
  <2>1. cursor'.seq = e.seq
    OBVIOUS
  <2>2. \A i : i \in 1..e.seq <=> i \in 1..e.seq - 1 \/ i = e.seq
    BY <1>5
  <2>3. QED
    BY <1>3, <1>4, <1>5, <1>8, <2>1, <2>2
<1>12. TakenInv'
  BY <1>3, <1>10, <1>11 DEF TakenInv
<1>13. replayMode' \in BOOLEAN
  BY <1>1, <1>2
<1>14. QED
  BY <1>3, <1>8, <1>9, <1>12, <1>13

(* ... and for a report of the client.                                     *)
LEMMA TakesLocal ==
    ASSUME Inv, NEW n \in Nat, Ingest(Meta(pinned, n)), UNCHANGED cursor
    PROVE  LET e == Meta(pinned, n)
           IN  /\ TakenInv' /\ buffer' \in Seq(Item) /\ pinned' = pinned
               /\ replayMode' \in BOOLEAN
               /\ Emit(e) /\ e \in Item /\ IsLocal(e) /\ TimelineKey(e) = <<pinned, 0>>
<1> DEFINE e == Meta(pinned, n)
<1>1. e \in Item /\ IsLocal(e) /\ ~IsServer(e) /\ TimelineKey(e) = <<pinned, 0>>
  BY Types0 DEF Meta, Item, IsLocal, IsServer, TimelineKey
<1> HIDE DEF e
<1>2. /\ pinned = cursor.epoch /\ seenKeys = {pinned} \X (1..cursor.seq) /\ Keys(buffer) = seenKeys
      /\ buffer \in Seq(Item) /\ replayMode \in BOOLEAN
  BY DEF Inv, TakenInv, TypeInv, Flags
<1>3. TimelineKey(e) \notin seenKeys
  BY <1>1, <1>2
<1>4. /\ pinned' = pinned /\ replayMode' = replayMode
      /\ seenKeys' = seenKeys /\ buffer' = Append(buffer, e) /\ Emit(e)
  BY <1>1, <1>2, <1>3 DEF Ingest, e
<1>5. buffer' \in Seq(Item) /\ Server(buffer') = Server(buffer)
  BY <1>1, <1>2, <1>4, Grown
<1>6. Keys(buffer)' = Keys(buffer)
  BY <1>5 DEF Keys, Server
<1>7. TakenInv'
  BY <1>2, <1>4, <1>6 DEF TakenInv
<1>8. QED
  BY <1>1, <1>2, <1>4, <1>5, <1>7 DEF e

(* The hook takes an item, or it is missed.                                *)
EmitTyped ==
    /\ pending' \in Seq(Event)
    /\ lastCursor' \in [epoch : 0..MaxEpoch, seq : 0..MaxSeq]
    /\ missed' \in SUBSET (Nat \X Nat)

(* What comes next fits what is held, or is missed.                        *)
LEMMA EmitItem ==
    ASSUME Inv, NEW e \in Item, IsServer(e), e.epoch = epoch, e.seq \in 1..length,
           e.seq = IF cursor.epoch = epoch THEN cursor.seq + 1 ELSE 1,
           cursor' = [epoch |-> epoch, seq |-> e.seq],
           pinned' = epoch, Emit(e), UNCHANGED <<epoch, subscribed, catchup, timeline, session>>
    PROVE  EmitTyped /\ HookInv'
<1> DEFINE k == e.seq
           v == View.transcript
           flag == lastCursor.epoch \notin {0, epoch}
           ev == <<e, flag>>
<1>1. /\ e = Envelope(epoch, k) /\ k \in Nat \ {0} /\ epoch \in Nat \ {0} /\ epoch <= MaxEpoch
      /\ k <= MaxSeq /\ TimelineKey(e) = <<epoch, k>> /\ cursor'.epoch = epoch /\ cursor'.seq = k
  <2>1. e = Envelope(e.epoch, e.seq)
    BY ItemFacts
  <2>2. QED
    BY <2>1, SseTypes DEF Inv, TimelineKey
<1>2. /\ pinned = cursor.epoch /\ pinned \in Nat /\ pinned <= epoch
      /\ cursor.seq \in Nat /\ v \in Seq(Item) /\ Sound(View)
      /\ lastCursor.epoch \in Nat /\ lastCursor.seq \in Nat /\ lastCursor.epoch <= epoch
      /\ lastCursor = [epoch |-> lastCursor.epoch, seq |-> lastCursor.seq]
  BY Types0, SseTypes DEF Inv, TakenInv
<1>3. /\ MissedPast /\ Held(v, lastCursor, missed) /\ Covered /\ Asked
      /\ InOrderBut(session.transcript, missed) /\ Server(timeline) = Server(session.transcript)
      /\ missed \in SUBSET (Nat \X Nat) /\ pending \in Seq(Event) /\ Sound(session)
      /\ lastCursor \in [epoch : 0..MaxEpoch, seq : 0..MaxSeq]
  BY DEF Inv, HookInv, TypeInv
<1>4. k = IF pinned = epoch THEN cursor.seq + 1 ELSE 1
  BY <1>2
<1>5. \A i \in Nat : i >= k => <<epoch, i>> \notin missed
  <2> SUFFICES ASSUME NEW i \in Nat, i >= k, <<epoch, i>> \in missed PROVE FALSE
    OBVIOUS
  <2>1. epoch < pinned \/ (epoch = pinned /\ i <= cursor.seq)
    BY <1>3 DEF MissedPast
  <2>2. QED
    BY <1>1, <1>2, <1>4, <2>1
<1>6. \A i \in 1..k - 1 : Envelope(epoch, i) \in Server(v) \/ <<epoch, i>> \in missed
  <2> SUFFICES ASSUME NEW i \in 1..k - 1
               PROVE  Envelope(epoch, i) \in Server(v) \/ <<epoch, i>> \in missed
    OBVIOUS
  <2>1. pinned = epoch /\ i \in 1..cursor.seq
    BY <1>2, <1>4
  <2>2. QED
    BY <1>2, <1>3, <2>1 DEF Covered
<1>7. ev \in Event /\ ev[1] = e /\ ev[2] = flag /\ flag \in BOOLEAN
  BY DEF Event
<1>8. CASE subscribed
  <2>1. pending' = Append(pending, ev) /\ missed' = missed /\ lastCursor' = [epoch |-> epoch, seq |-> k]
    <3>1. IsServer(e) /\ e.epoch = epoch
      OBVIOUS
    <3>2. pending' = Append(pending, <<e, IsServer(e) /\ lastCursor.epoch \notin {0, e.epoch}>>)
          /\ missed' = missed /\ lastCursor' = IF IsServer(e) THEN [epoch |-> e.epoch, seq |-> e.seq] ELSE lastCursor
      BY <1>8 DEF Emit
    <3>3. (IsServer(e) /\ lastCursor.epoch \notin {0, e.epoch}) = flag
      BY <3>1
    <3>4. QED
      BY <3>1, <3>2, <3>3
  <2> HIDE DEF ev, k, flag
  <2>2. EmitTyped
    <3>1. Append(pending, ev) \in Seq(Event)
      BY <1>3, <1>7
    <3>2. [epoch |-> epoch, seq |-> k] \in [epoch : 0..MaxEpoch, seq : 0..MaxSeq]
      BY <1>1
    <3>3. QED
      BY <1>3, <2>1, <3>1, <3>2 DEF EmitTyped
  <2>3. View' = FoldEvent(View, ev)
    <3>1. View' = FoldBatchIntoSessionState(session, Append(pending, ev))
      BY <2>1 DEF View
    <3>2. QED
      BY <1>3, <1>7, <3>1, FoldGrows DEF View
  <2>4. Fits((IF flag THEN NoSession ELSE View).transcript, epoch, k, missed)
    <3>1. /\ Ordered(v) /\ \A d \in Server(v) : d.epoch = lastCursor.epoch
          /\ \A i \in 1..lastCursor.seq :
                Envelope(lastCursor.epoch, i) \in Server(v) \/ <<lastCursor.epoch, i>> \in missed
          /\ \A d \in Server(v) : \A i \in lastCursor.seq + 1..d.seq :
                Envelope(lastCursor.epoch, i) \in Server(v)
      BY <1>3 DEF Held, Holds
    <3>2. \A d \in Server(v) : d = Envelope(d.epoch, d.seq) /\ d.seq \in Nat \ {0} /\ d.epoch \in Nat \ {0}
      BY <1>2, ServerFacts
    <3>3. CASE lastCursor.epoch = epoch
      <4>1. ASSUME Envelope(epoch, k) \notin Server(v), NEW d \in Server(v) PROVE d.seq < k
        <5>1. d.seq # k /\ d.seq \in Nat
          BY <3>1, <3>2, <3>3, <4>1
        <5>2. k \notin 1..lastCursor.seq
          BY <1>1, <1>5, <3>1, <3>3, <4>1
        <5>3. k \notin lastCursor.seq + 1..d.seq
          BY <3>1, <3>3, <4>1
        <5>4. QED
          BY <1>1, <1>2, <5>1, <5>2, <5>3
      <4>2. ASSUME NEW d \in Server(v), NEW i \in k + 1..d.seq PROVE Envelope(epoch, i) \in Server(v)
        <5>1. d.seq \in Nat /\ i \in Nat /\ i >= k /\ i # 0
          BY <1>1, <3>2
        <5>2. i \in 1..lastCursor.seq \/ i \in lastCursor.seq + 1..d.seq
          BY <1>1, <1>2, <5>1
        <5>3. <<epoch, i>> \notin missed
          BY <1>5, <5>1
        <5>4. QED
          BY <3>1, <3>3, <5>2, <5>3
      <4>3. Fits(v, epoch, k, missed)
        BY <1>6, <3>1, <3>3, <4>1, <4>2 DEF Fits
      <4>4. ~flag
        BY <3>3 DEF flag
      <4>5. QED
        BY <4>3, <4>4
    <3>4. CASE lastCursor.epoch # epoch
      <4> DEFINE base == (IF flag THEN NoSession ELSE View).transcript
      <4>1. Server(base) = {} /\ Ordered(base)
        <5>1. CASE flag
          <6>1. Server(NoSession.transcript) = {} /\ Ordered(NoSession.transcript)
            BY SoundNone, FitsFirst, <1>1 DEF Fits
          <6>2. QED
            BY <5>1, <6>1
        <5>2. CASE ~flag
          <6>1. lastCursor.epoch = 0
            BY <3>4, <5>2 DEF flag
          <6>2. Server(v) = {}
            BY <3>1, <3>2, <6>1
          <6>3. QED
            BY <3>1, <5>2, <6>2
        <5>3. QED
          BY <5>1, <5>2
      <4>2. \A i \in 1..k - 1 : <<epoch, i>> \in missed
        <5> SUFFICES ASSUME NEW i \in 1..k - 1 PROVE <<epoch, i>> \in missed
          OBVIOUS
        <5>1. Envelope(epoch, i).epoch = epoch
          BY DEF Envelope
        <5>2. Envelope(epoch, i) \notin Server(v)
          BY <3>1, <3>4, <5>1
        <5>3. QED
          BY <1>6, <5>2
      <4> HIDE DEF base
      <4>3. Fits(base, epoch, k, missed)
        BY <4>1, <4>2 DEF Fits
      <4>4. QED
        BY <4>3 DEF base
    <3>5. QED
      BY <3>3, <3>4
  <2>5. Held(View'.transcript, lastCursor', missed')
    <3>1. epoch \in Nat \ {0} /\ k \in Nat \ {0} /\ flag \in BOOLEAN /\ Sound(View)
      BY <1>1, <1>2, <1>7
    <3>2. Held(FoldEvent(View, <<Envelope(epoch, k), flag>>).transcript, [epoch |-> epoch, seq |-> k], missed)
      BY <2>4, <3>1, HeldItem
    <3>3. ev = <<Envelope(epoch, k), flag>>
      BY <1>1 DEF ev
    <3>4. QED
      BY <2>1, <2>3, <3>2, <3>3
  <2>6. Covered'
    <3>1. \A i \in 1..k : Envelope(epoch, i) \in Server(View'.transcript) \/ <<epoch, i>> \in missed'
      BY <2>1, <2>5 DEF Held, Holds
    <3>2. QED
      BY <1>1, <3>1 DEF Covered, Server
  <2>7. MissedPast'
    <3> SUFFICES ASSUME NEW x \in missed PROVE x[1] < epoch \/ (x[1] = epoch /\ x[2] <= k)
      BY <1>1, <2>1 DEF MissedPast
    <3>1. x[1] \in Nat /\ x[2] \in Nat
      BY <1>3
    <3>2. x[1] < pinned \/ (x[1] = pinned /\ x[2] <= cursor.seq)
      BY <1>3 DEF MissedPast
    <3>3. QED
      BY <1>1, <1>2, <1>4, <3>1, <3>2
  <2>8. Asked'
    BY <1>3, <1>8 DEF Asked
  <2>9. (lastCursor.epoch <= epoch)'
    BY <1>1, <2>1
  <2>10. Server(timeline)' = Server(session.transcript)'
    BY <1>3 DEF Server
  <2>11. QED
    BY <1>3, <2>1, <2>2, <2>5, <2>6, <2>7, <2>8, <2>9, <2>10 DEF HookInv
<1>9. CASE ~subscribed
  <2>1. pending' = pending /\ lastCursor' = lastCursor /\ missed' = missed \cup {<<epoch, k>>}
    BY <1>1, <1>9 DEF Emit
  <2> HIDE DEF ev, k, flag
  <2>2. EmitTyped
    BY <1>1, <1>3, <2>1 DEF EmitTyped
  <2>3. View' = View
    BY <2>1 DEF View
  <2>4. Held(View'.transcript, lastCursor', missed')
    BY <1>3, <2>1, <2>3, HeldMore
  <2>5. Covered'
    <3>1. \A i \in 1..k : i \in 1..k - 1 \/ i = k
      BY <1>1
    <3>2. \A i \in 1..k : <<epoch, i>> \in missed' \/ Envelope(epoch, i) \in Server(v)
      BY <1>6, <2>1, <3>1
    <3>3. QED
      BY <1>1, <2>3, <3>2 DEF Covered, Server
  <2>6. MissedPast'
    <3> SUFFICES ASSUME NEW x \in missed' PROVE x[1] < epoch \/ (x[1] = epoch /\ x[2] <= k)
      BY <1>1 DEF MissedPast
    <3>1. CASE x = <<epoch, k>>
      BY <1>1, <3>1
    <3>2. CASE x \in missed
      <4>1. x[1] \in Nat /\ x[2] \in Nat
        BY <1>3, <3>2
      <4>2. x[1] < pinned \/ (x[1] = pinned /\ x[2] <= cursor.seq)
        BY <1>3, <3>2 DEF MissedPast
      <4>3. QED
        BY <1>1, <1>2, <1>4, <4>1, <4>2
    <3>3. QED
      BY <2>1, <3>1, <3>2
  <2>7. Asked'
    BY <1>3, <2>1 DEF Asked
  <2>8. (lastCursor.epoch <= epoch)'
    BY <1>2, <2>1
  <2>9. InOrderBut(session.transcript, missed)'
    <3>1. InOrderBut(session.transcript, missed')
      BY <1>3, <2>1, InOrderFacts
    <3>2. QED
      BY <3>1 DEF InOrderBut
  <2>10. Server(timeline)' = Server(session.transcript)'
    BY <1>3 DEF Server
  <2>11. QED
    BY <2>2, <2>4, <2>5, <2>6, <2>7, <2>8, <2>9, <2>10 DEF HookInv
<1>10. QED
  BY <1>8, <1>9

(* A report of the client changes nothing of this.                         *)
LEMMA EmitLocal ==
    ASSUME Inv, NEW e \in Item, IsLocal(e), TimelineKey(e) = <<pinned, 0>>, Emit(e),
           UNCHANGED <<epoch, cursor, pinned, subscribed, catchup, timeline, session>>
    PROVE  EmitTyped /\ HookInv'
<1> DEFINE ev == <<e, FALSE>>
           v == View.transcript
<1>1. ~IsServer(e) /\ ev \in Event
  BY ItemFacts DEF Event
<1>2. /\ MissedPast /\ Held(v, lastCursor, missed) /\ Covered /\ Asked
      /\ InOrderBut(session.transcript, missed) /\ Server(timeline) = Server(session.transcript)
      /\ missed \in SUBSET (Nat \X Nat) /\ pending \in Seq(Event) /\ Sound(session)
      /\ lastCursor \in [epoch : 0..MaxEpoch, seq : 0..MaxSeq] /\ lastCursor.epoch <= epoch
  BY DEF Inv, HookInv, TypeInv
<1>3. pinned \in Nat /\ cursor.seq \in Nat /\ Sound(View)
  BY Types0, SseTypes DEF Inv
<1>4. lastCursor' = lastCursor /\ missed \subseteq missed' /\ (subscribed => missed' = missed)
      /\ (~subscribed => missed' = missed \cup {<<pinned, 0>>} /\ pending' = pending)
      /\ (subscribed => pending' = Append(pending, ev))
  <2>1. CASE subscribed
    <3>1. (IsServer(e) /\ lastCursor.epoch \notin {0, e.epoch}) = FALSE
      BY <1>1
    <3>2. pending' = Append(pending, <<e, IsServer(e) /\ lastCursor.epoch \notin {0, e.epoch}>>)
          /\ missed' = missed /\ lastCursor' = IF IsServer(e) THEN [epoch |-> e.epoch, seq |-> e.seq] ELSE lastCursor
      BY <2>1 DEF Emit
    <3>3. QED
      BY <1>1, <2>1, <3>1, <3>2
  <2>2. CASE ~subscribed
    BY <2>2 DEF Emit
  <2>3. QED
    BY <2>1, <2>2
<1> HIDE DEF ev
<1>5. EmitTyped
  <2>1. Append(pending, ev) \in Seq(Event)
    BY <1>1, <1>2
  <2>2. pending' \in Seq(Event)
    BY <1>2, <1>4, <2>1
  <2>3. <<pinned, 0>> \in Nat \X Nat
    BY <1>3
  <2>4. missed' \in SUBSET (Nat \X Nat)
    BY <1>2, <1>4, <2>3
  <2>5. QED
    BY <1>2, <1>4, <2>2, <2>4 DEF EmitTyped
<1>6. Server(View'.transcript) = Server(v) /\ Held(View'.transcript, lastCursor, missed')
  <2>1. CASE subscribed
    <3>1. View' = FoldBatchIntoSessionState(session, Append(pending, ev))
      BY <1>4, <2>1 DEF View
    <3>2. View' = FoldEvent(View, ev)
      BY <1>1, <1>2, <3>1, FoldGrows DEF View
    <3>3. /\ Server(FoldEvent(View, <<e, FALSE>>).transcript) = Server(v)
          /\ Held(FoldEvent(View, <<e, FALSE>>).transcript, lastCursor, missed')
      BY <1>2, <1>3, <1>4, HeldLocal
    <3>4. QED
      BY <3>2, <3>3 DEF ev
  <2>2. CASE ~subscribed
    <3>1. View' = View
      BY <1>4, <2>2 DEF View
    <3>2. QED
      BY <1>2, <1>4, <3>1, HeldMore
  <2>3. QED
    BY <2>1, <2>2
<1>7. Covered'
  BY <1>2, <1>4, <1>6 DEF Covered, Server
<1>8. MissedPast'
  <2> SUFFICES ASSUME NEW x \in missed' PROVE x[1] < pinned \/ (x[1] = pinned /\ x[2] <= cursor.seq)
    BY DEF MissedPast
  <2>1. x \in missed \/ x = <<pinned, 0>>
    BY <1>4
  <2>2. QED
    BY <1>2, <1>3, <2>1 DEF MissedPast
<1>9. Asked'
  BY <1>2, <1>4 DEF Asked
<1>10. InOrderBut(session.transcript, missed)'
  <2>1. InOrderBut(session.transcript, missed')
    BY <1>2, <1>4, InOrderFacts
  <2>2. QED
    BY <2>1 DEF InOrderBut
<1>11. Server(timeline)' = Server(session.transcript)'
  BY <1>2 DEF Server
<1>12. QED
  BY <1>2, <1>4, <1>5, <1>6, <1>7, <1>8, <1>9, <1>10, <1>11 DEF HookInv

(* Folding the batch changes nothing that is held.                         *)
LEMMA FoldStep ==
    ASSUME Inv, Folded(pending), pending' = <<>>,
           UNCHANGED <<epoch, cursor, pinned, missed, lastCursor>>, Asked'
    PROVE  /\ HookInv' /\ Sound(session') /\ timeline' \in Seq(Item) /\ pending' \in Seq(Event)
           /\ HasLocal(timeline) \/ (\E i \in 1..Len(pending) : IsLocal(pending[i][1])) => HasLocal(timeline')
<1>1. /\ MissedPast /\ Held(View.transcript, lastCursor, missed) /\ Covered
      /\ InOrderBut(session.transcript, missed) /\ Server(timeline) = Server(session.transcript)
      /\ pending \in Seq(Event) /\ Sound(session) /\ timeline \in Seq(Item)
      /\ lastCursor.epoch <= epoch
  BY DEF Inv, HookInv, TypeInv
<1>2. session' = View /\ timeline' = FoldBatchIntoTimeline(timeline, pending)
  BY DEF Folded, View
<1>3. Sound(View) /\ View.transcript \in Seq(Item) /\ lastCursor \in [epoch : Nat, seq : Nat]
  BY Types0
<1>4. /\ timeline' \in Seq(Item)
      /\ Server(timeline') = Server(View.transcript)
      /\ HasLocal(timeline) \/ (\E i \in 1..Len(pending) : IsLocal(pending[i][1])) => HasLocal(timeline')
  BY <1>1, <1>2, FoldsAgree DEF View
<1>5. View' = View
  <2>1. View' = FoldBatchIntoSessionState(session', <<>>)
    BY DEF View
  <2>2. <<Meta(0, 0), FALSE>> \in Event
    BY DEF Event, Item, Meta
  <2>3. Sound(session')
    BY <1>2, <1>3
  <2>4. FoldBatchIntoSessionState(session', <<>>) = session'
    BY <1>1, <2>2, <2>3, FoldGrows
  <2>5. QED
    BY <1>2, <2>1, <2>4
<1>6. Held(View.transcript, lastCursor, missed)' /\ Covered' /\ MissedPast'
  <2>1. Held(View'.transcript, lastCursor', missed')
    BY <1>1, <1>5
  <2>2. Covered'
    BY <1>1, <1>5 DEF Covered, Server
  <2>3. QED
    BY <1>1, <2>1, <2>2 DEF MissedPast, Held, Holds, Ordered, Server
<1>7. InOrderBut(session.transcript, missed)'
  <2>1. InOrderBut(View.transcript, missed)
    BY <1>1, <1>3, HeldInOrder
  <2>2. QED
    BY <1>2, <2>1 DEF InOrderBut
<1>8. Server(timeline)' = Server(session.transcript)'
  BY <1>2, <1>4 DEF Server
<1>9. QED
  BY <1>1, <1>2, <1>3, <1>4, <1>6, <1>7, <1>8 DEF HookInv

(* The answer to a fetch: what follows the cursor, or a new epoch.         *)
Run(items, epo, m) == \A i \in 1..Len(items) : items[i] = Envelope(epo, m + i)

Answers(items, epo, m) ==
    /\ Run(items, epo, m)
    /\ \/ epo = lastCursor.epoch /\ m = lastCursor.seq
       \/ epo # lastCursor.epoch /\ m = 0 /\ epo = epoch /\ Len(items) = length
    /\ epo <= epoch /\ m + Len(items) <= MaxSeq

(* The first item of a batch begins a new epoch if it is of one.           *)
Turns(i, from, epo) == i = 1 /\ from # epo

(* The batch that is made of an answer.                                    *)
LEMMA BatchFacts ==
    ASSUME NEW items \in Seq(Item), NEW epo \in Nat, NEW m \in Nat, NEW from, Run(items, epo, m)
    PROVE  LET b == CatchupBatch(items, from)
           IN  /\ b \in Seq(Event) /\ Len(b) = Len(items)
               /\ \A i \in 1..Len(b) : b[i] = <<Envelope(epo, m + i), Turns(i, from, epo)>>
<1> DEFINE b == CatchupBatch(items, from)
           n == Len(items)
<1>1. ASSUME NEW i \in 1..n PROVE items[i].epoch = epo
  <2>1. items[i] = Envelope(epo, m + i)
    BY DEF Run
  <2>2. QED
    BY <2>1 DEF Envelope
<1>2. b = [i \in 1..n |-> LET prev == IF i = 1 THEN from ELSE items[i - 1].epoch
                         IN  <<items[i], prev # items[i].epoch>>]
  BY DEF CatchupBatch
<1> HIDE DEF b
<1>3. ASSUME NEW i \in 1..n PROVE b[i] = <<items[i], Turns(i, from, epo)>>
  <2>1. CASE i = 1
    <3>1. b[i] = <<items[i], from # items[i].epoch>>
      BY <1>2, <2>1
    <3>2. (from # items[i].epoch) = Turns(i, from, epo)
      BY <1>1, <2>1 DEF Turns
    <3>3. QED
      BY <3>1, <3>2
  <2>2. CASE i # 1
    <3>1. i - 1 \in 1..n
      BY <2>2
    <3>2. items[i - 1].epoch = epo /\ items[i].epoch = epo
      BY <1>1, <3>1
    <3>3. b[i] = <<items[i], items[i - 1].epoch # items[i].epoch>>
      BY <1>2, <2>2
    <3>4. (items[i - 1].epoch # items[i].epoch) = Turns(i, from, epo)
      BY <2>2, <3>2 DEF Turns
    <3>5. QED
      BY <3>3, <3>4
  <2>3. QED
    BY <2>1, <2>2
<1>4. ASSUME NEW i \in 1..n PROVE b[i] \in Event
  <2>1. items[i] \in Item /\ Turns(i, from, epo) \in BOOLEAN
    BY EntryOf DEF Turns
  <2>2. PICK t \in BOOLEAN : t = Turns(i, from, epo)
    BY <2>1
  <2>3. <<items[i], t>> \in Event
    BY <2>1 DEF Event
  <2>4. QED
    BY <1>3, <2>2, <2>3
<1>5. n \in Nat /\ DOMAIN b = 1..n
  BY <1>2
<1>6. b = [i \in 1..n |-> b[i]]
  BY <1>2
<1>7. b \in Seq(Event) /\ Len(b) = n
  BY <1>4, <1>5, <1>6
<1>8. \A i \in 1..Len(b) : b[i] = <<Envelope(epo, m + i), Turns(i, from, epo)>>
  <2> SUFFICES ASSUME NEW i \in 1..n PROVE b[i] = <<Envelope(epo, m + i), Turns(i, from, epo)>>
    BY <1>7
  <2>1. items[i] = Envelope(epo, m + i)
    BY DEF Run
  <2>2. QED
    BY <1>3, <2>1
<1>9. QED
  BY <1>7, <1>8 DEF b

(* Folding the answer after the batch leaves all up to its last item held. *)
LEMMA CatchUpStep ==
    ASSUME Inv, catchup.asked, NEW items \in Seq(Item), items # <<>>,
           NEW epo \in Nat \ {0}, NEW m \in Nat, Answers(items, epo, m),
           CatchUp(items), UNCHANGED <<epoch, cursor>>
    PROVE  /\ HookInv' /\ Sound(session') /\ timeline' \in Seq(Item) /\ EmitTyped
           /\ HasLocal(timeline) \/ (\E i \in 1..Len(pending) : IsLocal(pending[i][1])) => HasLocal(timeline')
<1> DEFINE n == Len(items)
           b == CatchupBatch(items, lastCursor.epoch)
           c == pending \o b
           W(i) == [epoch |-> epo, seq |-> m + i]
<1>1. /\ MissedPast /\ Held(View.transcript, lastCursor, missed) /\ Covered
      /\ Server(timeline) = Server(session.transcript)
      /\ pending \in Seq(Event) /\ Sound(session) /\ timeline \in Seq(Item)
      /\ missed \in SUBSET (Nat \X Nat)
  BY DEF Inv, HookInv, TypeInv
<1>2. /\ Sound(View) /\ View.transcript \in Seq(Item)
      /\ lastCursor.epoch \in Nat /\ lastCursor.seq \in Nat /\ lastCursor.epoch # 0
      /\ lastCursor = [epoch |-> lastCursor.epoch, seq |-> lastCursor.seq]
      /\ pinned \in Nat /\ pinned <= epoch /\ pinned = cursor.epoch
      /\ cursor.seq \in Nat /\ cursor.epoch \in Nat /\ epoch \in Nat /\ length \in Nat /\ epoch <= MaxEpoch
      /\ MaxEpoch \in Nat /\ MaxSeq \in Nat
  BY Types0, SseTypes DEF Inv, HookInv, Asked, TakenInv
<1>3. n \in Nat /\ n # 0
  OBVIOUS
<1>4. /\ b \in Seq(Event) /\ Len(b) = n
      /\ \A i \in 1..n : b[i] = <<Envelope(epo, m + i), Turns(i, lastCursor.epoch, epo)>>
  <2>1. Run(items, epo, m) /\ epo \in Nat
    BY DEF Answers
  <2>2. QED
    BY <2>1, BatchFacts
<1>5. /\ catchup' = NoCatchup /\ pending' = <<>> /\ UNCHANGED <<pinned, missed>>
      /\ lastCursor' = [epoch |-> Last(items).epoch, seq |-> Last(items).seq]
      /\ timeline' = FoldBatchIntoTimeline(timeline, c)
      /\ session' = FoldBatchIntoSessionState(session, c)
  BY DEF CatchUp, Folded, runtime
<1>6. lastCursor' = W(n)
  <2>1. Last(items) = Envelope(epo, m + n)
    BY <1>3 DEF Last, Answers, Run
  <2>2. QED
    BY <1>5, <2>1 DEF Envelope
<1>7. c \in Seq(Event) /\ \A i \in 1..Len(pending) : i \in 1..Len(c) /\ c[i] = pending[i]
  <2> HIDE DEF b
  <2>1. QED
    BY <1>1, <1>4
<1>8. PICK g \in [0..n -> SoundSessions] : Steps(g, View, b) /\ session' = g[n]
  <2> HIDE DEF b
  <2>1. PICK g \in [0..Len(b) -> SoundSessions] :
           /\ Steps(g, FoldBatchIntoSessionState(session, pending), b)
           /\ FoldBatchIntoSessionState(session, pending \o b) = g[Len(b)]
    BY <1>1, <1>4, FoldOfJoined
  <2>2. QED
    BY <1>4, <1>5, <2>1 DEF View
<1>9. \A i \in 0..n : Sound(g[i]) /\ g[i].transcript \in Seq(Item)
  BY <1>8 DEF SoundSessions, Sound, Sessions
<1> HIDE DEF b, c, n
<1> DEFINE Good(i) ==
              i # 0 \/ epo = lastCursor.epoch =>
                 /\ Held(g[i].transcript, W(i), missed)
                 /\ epo = lastCursor.epoch => Server(View.transcript) \subseteq Server(g[i].transcript)
           T == {i \in 0..n : Good(i)}
<1>10. 0 \in T
  <2>1. g[0] = View
    BY <1>8 DEF Steps
  <2>2. epo = lastCursor.epoch => W(0) = lastCursor
    BY <1>2 DEF Answers
  <2>3. Good(0)
    BY <1>1, <2>1, <2>2
  <2> HIDE DEF Good
  <2>4. QED
    BY <1>3, <2>3
<1>11. ASSUME NEW i \in 1..n, i - 1 \in T PROVE i \in T
  <2> DEFINE e == Envelope(epo, m + i)
             flag == Turns(i, lastCursor.epoch, epo)
  <2>1. Good(i - 1) /\ i - 1 \in 0..n /\ i \in 0..n /\ i # 0
    BY <1>3, <1>11
  <2>2. g[i] = FoldEvent(g[i - 1], <<e, flag>>)
    BY <1>4, <1>8 DEF Steps
  <2>3. m + i \in Nat \ {0} /\ flag \in BOOLEAN /\ (flag <=> i = 1 /\ lastCursor.epoch # epo)
    BY <1>3 DEF Turns
  <2>4. Fits((IF flag THEN NoSession ELSE g[i - 1]).transcript, epo, m + i, missed)
    <3>1. CASE flag
      <4>1. m + i = 1
        BY <1>3, <2>3, <3>1 DEF Answers
      <4>2. QED
        BY <3>1, <4>1, FitsFirst
    <3>2. CASE ~flag
      <4>1. Held(g[i - 1].transcript, W(i - 1), missed)
        BY <1>3, <2>1, <2>3, <3>2
      <4>2. W(i - 1) \in [epoch : Nat, seq : Nat] /\ W(i - 1).epoch = epo /\ W(i - 1).seq + 1 = m + i
        BY <1>3
      <4>3. g[i - 1].transcript \in Seq(Item)
        BY <1>9, <2>1
      <4> HIDE DEF W
      <4>4. Fits(g[i - 1].transcript, W(i - 1).epoch, W(i - 1).seq + 1, missed)
        BY <4>1, <4>2, <4>3, FitsNext
      <4>5. QED
        BY <3>2, <4>2, <4>4
    <3>3. QED
      BY <3>1, <3>2
  <2>5. Sound(g[i - 1])
    BY <1>9, <2>1
  <2>6. flag \in BOOLEAN /\ (epo = lastCursor.epoch => ~flag)
    BY <2>3
  <2> HIDE DEF flag, e, Good
  <2>7. /\ Held(FoldEvent(g[i - 1], <<e, flag>>).transcript, W(i), missed)
        /\ ~flag => Server(g[i - 1].transcript) \subseteq Server(FoldEvent(g[i - 1], <<e, flag>>).transcript)
    BY <2>3, <2>4, <2>5, HeldItem DEF e
  <2>8. Held(g[i].transcript, W(i), missed)
        /\ (epo = lastCursor.epoch => Server(g[i - 1].transcript) \subseteq Server(g[i].transcript))
    BY <2>2, <2>6, <2>7
  <2>9. epo = lastCursor.epoch => Server(View.transcript) \subseteq Server(g[i - 1].transcript)
    BY <2>1 DEF Good
  <2> HIDE DEF W
  <2>10. Good(i)
    BY <2>8, <2>9 DEF Good
  <2>11. QED
    BY <2>1, <2>10
<1> HIDE DEF T
<1>12. \A i \in 0..n : i \in T
  BY <1>3, <1>10, <1>11, Upwards
<1>13. /\ Held(session'.transcript, W(n), missed)
       /\ epo = lastCursor.epoch => Server(View.transcript) \subseteq Server(session'.transcript)
  <2>1. n \in T
    BY <1>3, <1>12
  <2>2. Good(n)
    BY <2>1 DEF T
  <2>3. QED
    BY <1>3, <1>8, <2>2
<1> HIDE DEF Good
<1>14. Sound(session') /\ session'.transcript \in Seq(Item)
  BY <1>3, <1>8, <1>9
<1>15. View' = session'
  <2>1. View' = FoldBatchIntoSessionState(session', <<>>)
    BY <1>5 DEF View
  <2>2. <<Meta(0, 0), FALSE>> \in Event
    BY DEF Event, Item, Meta
  <2>3. FoldBatchIntoSessionState(session', <<>>) = session'
    BY <1>1, <1>14, <2>2, FoldGrows
  <2>4. QED
    BY <2>1, <2>3
<1>16. /\ timeline' \in Seq(Item) /\ Server(timeline') = Server(session'.transcript)
       /\ HasLocal(timeline) \/ (\E i \in 1..Len(c) : IsLocal(c[i][1])) => HasLocal(timeline')
  BY <1>1, <1>5, <1>7, FoldsAgree
<1>17. Held(View'.transcript, lastCursor', missed')
  BY <1>5, <1>6, <1>13, <1>15
<1>18. Covered'
  <2> SUFFICES ASSUME epo <= pinned, NEW s \in 1..cursor.seq
               PROVE  <<pinned, s>> \in missed \/ Envelope(pinned, s) \in Server(session'.transcript)
    BY <1>5, <1>6, <1>15 DEF Covered, Server
  <2>1. CASE epo = lastCursor.epoch
    BY <1>1, <1>13, <2>1 DEF Covered
  <2>2. CASE epo # lastCursor.epoch
    <3>1. epo = epoch /\ m = 0 /\ n = length
      BY <2>2 DEF Answers, n
    <3>2. pinned = epoch /\ cursor.epoch = epoch
      BY <1>2, <3>1
    <3>3. cursor.seq <= length
      BY <3>2 DEF Inv, StreamInv, CursorInv
    <3>4. s \in 1..W(n).seq /\ W(n).epoch = pinned
      BY <1>2, <3>1, <3>2, <3>3
    <3> HIDE DEF W
    <3>5. QED
      BY <1>13, <3>4 DEF Held, Holds
  <2>3. QED
    BY <2>1, <2>2
<1>19. MissedPast'
  BY <1>1, <1>5 DEF MissedPast
<1>20. Asked'
  BY <1>5 DEF Asked, NoCatchup
<1>21. InOrderBut(session.transcript, missed)'
  <2>1. W(n) \in [epoch : Nat, seq : Nat]
    BY <1>3
  <2> HIDE DEF W
  <2>2. InOrderBut(session'.transcript, missed)
    BY <1>13, <1>14, <2>1, HeldInOrder
  <2>3. QED
    BY <1>5, <2>2 DEF InOrderBut
<1>22. Server(timeline)' = Server(session.transcript)'
  BY <1>16 DEF Server
<1>23. (lastCursor.epoch <= epoch)' /\ lastCursor' \in [epoch : 0..MaxEpoch, seq : 0..MaxSeq]
  BY <1>2, <1>3, <1>6 DEF Answers, n
<1>24. EmitTyped
  BY <1>1, <1>5, <1>23 DEF EmitTyped
<1>25. HasLocal(timeline) \/ (\E i \in 1..Len(pending) : IsLocal(pending[i][1])) => HasLocal(timeline')
  BY <1>7, <1>16
<1>26. QED
  BY <1>14, <1>16, <1>17, <1>18, <1>19, <1>20, <1>21, <1>22, <1>23, <1>24, <1>25 DEF HookInv

-----------------------------------------------------------------------------
(* The steps.  A report is in the timeline or in the batch, once it is     *)
(* there.                                                                  *)

Reported == HasLocal(timeline) \/ \E i \in 1..Len(pending) : IsLocal(pending[i][1])

Kept ==
    /\ Reported => Reported'
    /\ missed \subseteq missed'
    /\ metas' = metas

(* A report that is held stays so, and a new one is held or missed.        *)
LEMMA EmitKeeps ==
    ASSUME Inv, NEW e, Emit(e), timeline' = timeline
    PROVE  /\ Reported => Reported'
           /\ missed \subseteq missed'
           /\ IsLocal(e) => Reported' \/ missed' # {}
<1>1. pending \in Seq(Event)
  BY DEF Inv, TypeInv
<1>2. CASE subscribed
  <2> DEFINE ev == <<e, IsServer(e) /\ lastCursor.epoch \notin {0, e.epoch}>>
             q == Append(pending, ev)
  <2>1. pending' = q /\ missed' = missed
    BY <1>2 DEF Emit
  <2>2. ev[1] = e
    OBVIOUS
  <2> HIDE DEF ev
  <2>3. \A i \in 1..Len(pending) : i \in 1..Len(q) /\ q[i] = pending[i]
    BY <1>1
  <2>4. Len(pending) + 1 \in 1..Len(q) /\ q[Len(pending) + 1] = ev
    BY <1>1
  <2> HIDE DEF q
  <2>5. Reported => Reported'
    BY <2>1, <2>3 DEF Reported, HasLocal
  <2>6. IsLocal(e) => Reported'
    BY <2>1, <2>2, <2>4 DEF Reported
  <2>7. QED
    BY <2>1, <2>5, <2>6
<1>3. CASE ~subscribed
  <2>1. pending' = pending /\ missed' = missed \cup {TimelineKey(e)}
    BY <1>3 DEF Emit
  <2>2. Reported => Reported'
    BY <2>1 DEF Reported, HasLocal
  <2>3. QED
    BY <2>1, <2>2
<1>4. QED
  BY <1>2, <1>3

(* An item arrives.                                                        *)
LEMMA ReceiveStep ==
    ASSUME Inv, Receive
    PROVE  TypeInv' /\ TakenInv' /\ HookInv' /\ Kept
<1>1. PICK f \in Fetch : \E e \in {Envelope(epoch, fetch[f].next)} :
         /\ Receives(f, e)
         /\ IF listening THEN Ingest(e)
            ELSE UNCHANGED <<pinned, seenKeys, buffer, replayMode, missed, pending, lastCursor>>
  BY DEF Receive
<1>2. PICK e \in {Envelope(epoch, fetch[f].next)} :
         /\ Receives(f, e)
         /\ IF listening THEN Ingest(e)
            ELSE UNCHANGED <<pinned, seenKeys, buffer, replayMode, missed, pending, lastCursor>>
  BY <1>1
<1>3. /\ listening
      /\ e \in Item /\ IsServer(e) /\ e.epoch = epoch /\ e.seq \in 1..length
      /\ cursor' = [epoch |-> epoch, seq |-> e.seq]
      /\ e.seq = IF cursor.epoch = epoch THEN cursor.seq + 1 ELSE 1
      /\ epoch' = epoch
  BY <1>2, ReceivesFacts DEF Inv, serving
<1>4. UNCHANGED <<metas, subscribed, catchup, timeline, session, armTimer, render, reconnecting>>
  BY DEF Receive, folds
<1>5. Ingest(e)
  BY <1>2, <1>3
<1>6. TakenInv' /\ buffer' \in Seq(Item) /\ pinned' = epoch /\ replayMode' \in BOOLEAN /\ Emit(e)
  BY <1>3, <1>5, TakesItem
<1>7. EmitTyped /\ HookInv'
  BY <1>3, <1>4, <1>6, EmitItem
<1>8. TypeInv'
  BY <1>4, <1>6, <1>7, SseTypes DEF Inv, StreamInv, SseTypeOK, TypeInv, Flags, EmitTyped
<1>9. Kept
  BY <1>4, <1>6, EmitKeeps DEF Kept
<1>10. QED
  BY <1>6, <1>7, <1>8, <1>9

(* The client reports.                                                     *)
LEMMA PreflightStep ==
    ASSUME Inv, Preflight
    PROVE  /\ TypeInv' /\ TakenInv' /\ HookInv'
           /\ Reported => Reported'
           /\ missed \subseteq missed'
           /\ metas' = metas + 1 /\ (Reported' \/ missed' # {})
<1>1. /\ metas' = metas + 1 /\ Ingest(Meta(pinned, metas + 1)) /\ metas \in 0..1
      /\ UNCHANGED <<sse, subscribed, catchup, timeline, session, armTimer, render, reconnecting>>
  BY DEF Preflight, folds, Inv, TypeInv
<1>2. epoch' = epoch /\ cursor' = cursor
  BY <1>1 DEF sse, serving, stream
<1> DEFINE e == Meta(pinned, metas + 1)
<1>3. /\ TakenInv' /\ buffer' \in Seq(Item) /\ pinned' = pinned /\ replayMode' \in BOOLEAN
      /\ Emit(e) /\ e \in Item /\ IsLocal(e) /\ TimelineKey(e) = <<pinned, 0>>
  <2>1. metas + 1 \in Nat
    BY <1>1
  <2>2. QED
    BY <1>1, <1>2, <2>1, TakesLocal
<1> HIDE DEF e
<1>4. EmitTyped /\ HookInv'
  BY <1>1, <1>2, <1>3, EmitLocal
<1>5. TypeInv'
  BY <1>1, <1>3, <1>4 DEF Inv, TypeInv, Flags, EmitTyped
<1>6. /\ Reported => Reported'
      /\ missed \subseteq missed'
      /\ Reported' \/ missed' # {}
  BY <1>1, <1>3, EmitKeeps
<1>7. QED
  BY <1>1, <1>3, <1>4, <1>5, <1>6

(* The batch is folded, at a frame or at a render.                         *)
LEMMA FlushStep ==
    ASSUME Inv, Flush \/ Commit
    PROVE  TypeInv' /\ TakenInv' /\ HookInv' /\ Kept
<1>1. /\ pending' = <<>> /\ Folded(pending)
      /\ UNCHANGED <<sse, runtime, missed, lastCursor>>
      /\ (subscribed' = subscribed /\ catchup' = catchup) \/ catchup' = NoCatchup
  BY DEF Flush, Commit
<1>2. UNCHANGED <<epoch, cursor, pinned, seenKeys, buffer, replayMode, metas, missed, lastCursor>>
  BY <1>1 DEF sse, serving, stream, runtime
<1>3. Asked'
  BY <1>1, <1>2 DEF Inv, HookInv, Asked, NoCatchup
<1>4. /\ HookInv' /\ Sound(session') /\ timeline' \in Seq(Item) /\ pending' \in Seq(Event)
      /\ HasLocal(timeline) \/ (\E i \in 1..Len(pending) : IsLocal(pending[i][1])) => HasLocal(timeline')
  BY <1>1, <1>2, <1>3, FoldStep
<1>5. catchup' \in [asked : BOOLEAN, items : Seq(Item)]
  <2>1. NoCatchup \in [asked : BOOLEAN, items : Seq(Item)]
    BY DEF NoCatchup
  <2>2. QED
    BY <1>1, <2>1 DEF Inv, TypeInv
<1>6. Flags' \subseteq BOOLEAN
  <2>1. replayMode \in BOOLEAN /\ subscribed \in BOOLEAN /\ reconnecting \in BOOLEAN
    BY DEF Inv, TypeInv, Flags
  <2>2. armTimer' \in BOOLEAN /\ subscribed' \in BOOLEAN
    BY <2>1 DEF Flush, Commit
  <2>3. reconnecting' \in BOOLEAN
    BY <2>1 DEF Flush, Commit
  <2>4. render' \in BOOLEAN
    BY DEF Flush, Commit
  <2>5. QED
    BY <1>2, <2>1, <2>2, <2>3, <2>4 DEF Flags
<1>7. TypeInv'
  BY <1>2, <1>4, <1>5, <1>6 DEF Inv, TypeInv, Sound
<1>8. TakenInv'
  BY <1>2 DEF Inv, TakenInv, Keys, Server
<1>9. Kept
  BY <1>2, <1>4 DEF Kept, Reported, HasLocal
<1>10. QED
  BY <1>4, <1>7, <1>8, <1>9

(* Steps that change nothing of what is received and folded.               *)
LEMMA QuietStep ==
    ASSUME Inv, epoch' \in Nat, epoch <= epoch',
           UNCHANGED <<cursor, pinned, seenKeys, buffer, metas, missed, pending, lastCursor, timeline, session>>,
           Asked', Flags' \subseteq BOOLEAN, catchup' \in [asked : BOOLEAN, items : Seq(Item)]
    PROVE  TypeInv' /\ TakenInv' /\ HookInv' /\ Kept
<1>1. TypeInv'
  BY DEF Inv, TypeInv, Sound
<1>2. TakenInv'
  BY DEF Inv, TakenInv, Keys, Server
<1>3. Kept
  BY DEF Kept, Reported, HasLocal
<1>4. View' = View
  BY DEF View
<1>5. (lastCursor.epoch <= epoch)'
  BY Types0, SseTypes DEF Inv
<1>6. Held(View.transcript, lastCursor, missed)' /\ Covered' /\ MissedPast'
  BY <1>4 DEF Inv, HookInv, Held, Holds, Ordered, Covered, MissedPast, Server
<1>7. InOrderBut(session.transcript, missed)' /\ Server(timeline)' = Server(session.transcript)'
  BY DEF Inv, HookInv, InOrderBut, Server
<1>8. HookInv'
  BY <1>5, <1>6, <1>7 DEF HookInv
<1>9. QED
  BY <1>1, <1>2, <1>3, <1>8

(* No fetch is under way.                                                  *)
LEMMA NoCatchupFacts ==
    /\ NoCatchup \in [asked : BOOLEAN, items : Seq(Item)]
    /\ catchup' = NoCatchup => Asked'
<1>1. <<>> \in Seq(Item)
  BY EmptyFacts
<1>2. QED
  BY <1>1 DEF NoCatchup, Asked

(* The types of the flags.                                                 *)
LEMMA FlagFacts ==
    ASSUME Inv
    PROVE  /\ replayMode \in BOOLEAN /\ subscribed \in BOOLEAN /\ armTimer \in BOOLEAN
           /\ render \in BOOLEAN /\ reconnecting \in BOOLEAN
           /\ catchup \in [asked : BOOLEAN, items : Seq(Item)]
           /\ Asked
BY DEF Inv, TypeInv, Flags, HookInv

(* The runtime is armed.                                                   *)
LEMMA ArmReplayStep ==
    ASSUME Inv, ArmReplay
    PROVE  TypeInv' /\ TakenInv' /\ HookInv' /\ Kept
<1>1. /\ armTimer' = FALSE /\ replayMode' = FALSE
      /\ UNCHANGED <<sse, pinned, seenKeys, buffer, metas, subscribed, missed, pending, lastCursor,
                     catchup, timeline, session, render, reconnecting>>
  BY DEF ArmReplay
<1>2. epoch' = epoch /\ cursor' = cursor /\ epoch \in Nat
  BY <1>1, SseTypes DEF sse, serving, stream, Inv
<1>3. Flags' \subseteq BOOLEAN
  BY <1>1, FlagFacts DEF Flags
<1>4. Asked' /\ catchup' \in [asked : BOOLEAN, items : Seq(Item)]
  BY <1>1, FlagFacts DEF Asked
<1>5. QED
  BY <1>1, <1>2, <1>3, <1>4, QuietStep

(* What the runtime has after the cursor of the hook follows it.           *)
LEMMA CloseStep ==
    ASSUME Inv, Close
    PROVE  TypeInv' /\ TakenInv' /\ HookInv' /\ Kept
<1> DEFINE t == FetchTimeline(buffer, lastCursor).items
<1>1. /\ subscribed' = FALSE /\ reconnecting' = TRUE /\ render' = (render \/ ~reconnecting)
      /\ catchup' = IF lastCursor.epoch = 0 THEN catchup ELSE [asked |-> TRUE, items |-> t]
      /\ UNCHANGED <<sse, pinned, seenKeys, buffer, replayMode, metas, missed, pending, lastCursor,
                     timeline, session, armTimer>>
  BY DEF Close, OnClose, runtime
<1>2. epoch' = epoch /\ cursor' = cursor /\ epoch \in Nat
  BY <1>1, SseTypes DEF sse, serving, stream, Inv
<1>3. Flags' \subseteq BOOLEAN
  BY <1>1, FlagFacts DEF Flags
<1>4. /\ t \in Seq(Item)
      /\ \A i \in 1..Len(t) : t[i] = Envelope(lastCursor.epoch, lastCursor.seq + i)
                              /\ lastCursor.seq + i <= cursor.seq
  <2>1. Keys(buffer) = {pinned} \X (1..cursor.seq) /\ buffer \in Seq(Item)
    BY DEF Inv, TakenInv, TypeInv
  <2>2. cursor.seq \in Nat /\ pinned \in Nat /\ lastCursor \in [epoch : Nat, seq : Nat]
    BY Types0, SseTypes DEF Inv
  <2>3. QED
    BY <2>1, <2>2, FetchFacts
<1> HIDE DEF t
<1>5. \A i \in 1..Len(t) : lastCursor.seq + i <= MaxSeq
  <2>1. cursor.seq \in Nat /\ cursor.seq <= MaxSeq /\ MaxSeq \in Nat /\ lastCursor.seq \in Nat
    BY Types0, SseTypes DEF Inv
  <2>2. QED
    BY <1>4, <2>1
<1>6. catchup' \in [asked : BOOLEAN, items : Seq(Item)]
  BY <1>1, <1>4, FlagFacts
<1>7. Asked'
  <2>1. CASE lastCursor.epoch = 0
    <3>1. ~catchup.asked /\ catchup' = catchup
      BY <1>1, <2>1, FlagFacts DEF Asked
    <3>2. QED
      BY <3>1 DEF Asked
  <2>2. CASE lastCursor.epoch # 0
    <3>1. catchup'.items = t /\ lastCursor' = lastCursor
      BY <1>1, <2>2
    <3>2. QED
      BY <1>1, <1>4, <1>5, <2>2, <3>1 DEF Asked
  <2>3. QED
    BY <2>1, <2>2
<1>8. QED
  BY <1>1, <1>2, <1>3, <1>6, <1>7, QuietStep

(* The answer is empty, or it is of the runtime or of the server.          *)
LEMMA AnswerStep ==
    ASSUME Inv, catchup.asked, NEW items, CatchUp(items), UNCHANGED <<epoch, cursor>>,
           items = <<>> \/ (items \in Seq(Item) /\
              \E epo \in Nat \ {0} : \E m \in Nat : Answers(items, epo, m))
    PROVE  TypeInv' /\ TakenInv' /\ HookInv' /\ Kept
<1>1. catchup' = NoCatchup /\ UNCHANGED <<pinned, seenKeys, buffer, replayMode, metas, subscribed, missed>>
  BY DEF CatchUp, runtime
<1>2. CASE items = <<>>
  <2>1. UNCHANGED <<pending, lastCursor, timeline, session, armTimer, render, reconnecting>>
    BY <1>2 DEF CatchUp, folds
  <2>2. Flags' \subseteq BOOLEAN
    BY <1>1, <2>1, FlagFacts DEF Flags
  <2>3. epoch \in Nat /\ epoch <= epoch'
    BY SseTypes DEF Inv
  <2>4. QED
    BY <1>1, <2>1, <2>2, <2>3, NoCatchupFacts, QuietStep
<1>3. CASE items # <<>>
  <2>1. items \in Seq(Item)
    BY <1>3
  <2>2. PICK epo \in Nat \ {0} : \E m \in Nat : Answers(items, epo, m)
    BY <1>3
  <2>3. PICK m \in Nat : Answers(items, epo, m)
    BY <2>2
  <2>4. /\ HookInv' /\ Sound(session') /\ timeline' \in Seq(Item) /\ EmitTyped
        /\ HasLocal(timeline) \/ (\E i \in 1..Len(pending) : IsLocal(pending[i][1])) => HasLocal(timeline')
    BY <1>3, <2>1, <2>3, CatchUpStep
  <2>5. Flags' \subseteq BOOLEAN
    <3>1. /\ armTimer' = (armTimer \/ pending # <<>>)
          /\ reconnecting' = (reconnecting /\ pending = <<>>)
          /\ render' = TRUE
      BY <1>3 DEF CatchUp
    <3>2. QED
      BY <1>1, <3>1, FlagFacts DEF Flags
  <2>6. TypeInv'
    BY <1>1, <2>4, <2>5, NoCatchupFacts DEF Inv, TypeInv, EmitTyped, Sound
  <2>7. TakenInv'
    BY <1>1 DEF Inv, TakenInv, Keys, Server
  <2>8. Kept
    BY <1>1, <2>4 DEF Kept, Reported, HasLocal
  <2>9. QED
    BY <2>4, <2>6, <2>7, <2>8
<1>4. QED
  BY <1>2, <1>3

(* The answer comes from what the runtime had, or from the server.         *)
LEMMA CatchUpReturnsStep ==
    ASSUME Inv, CatchUpReturns
    PROVE  TypeInv' /\ TakenInv' /\ HookInv' /\ Kept
<1> DEFINE after == IF lastCursor.epoch = epoch THEN lastCursor.seq ELSE 0
           n == length - after
           served == [i \in 1..n |-> Envelope(epoch, after + i)]
           items == IF catchup.items # <<>> THEN catchup.items ELSE served
<1>1. catchup.asked /\ CatchUp(items) /\ UNCHANGED sse
  BY DEF CatchUpReturns
<1>2. UNCHANGED <<epoch, cursor>>
  BY <1>1 DEF sse, serving, stream
<1>3. /\ lastCursor.epoch \in Nat \ {0} /\ lastCursor.seq \in Nat /\ lastCursor.epoch <= epoch
      /\ lastCursor.seq <= MaxSeq
      /\ epoch \in Nat \ {0} /\ length \in Nat /\ length <= MaxSeq /\ MaxSeq \in Nat
  BY <1>1, Types0, SseTypes, FlagFacts DEF Inv, Asked
<1>4. after \in Nat
  BY <1>3
<1>5. CASE catchup.items # <<>>
  <2>1. items = catchup.items /\ items \in Seq(Item)
    BY <1>5, FlagFacts
  <2> HIDE DEF items
  <2>2. \A i \in 1..Len(items) : items[i] = Envelope(lastCursor.epoch, lastCursor.seq + i)
                                 /\ lastCursor.seq + i <= MaxSeq
    BY <1>1, <2>1, FlagFacts DEF Asked
  <2>3. lastCursor.seq + Len(items) <= MaxSeq
    <3>1. Len(items) \in Nat /\ (Len(items) # 0 => Len(items) \in 1..Len(items))
      BY <2>1
    <3>2. QED
      BY <1>3, <2>2, <3>1
  <2>4. Answers(items, lastCursor.epoch, lastCursor.seq)
    BY <1>3, <2>2, <2>3 DEF Answers, Run
  <2>5. QED
    BY <1>1, <1>2, <1>3, <2>1, <2>4, AnswerStep
<1>6. CASE catchup.items = <<>>
  <2>1. items = served
    BY <1>6
  <2>2. CASE n \in Nat
    <3>1. \A i \in 1..n : Envelope(epoch, after + i) \in Item
      <4>1. \A i \in 1..n : after + i \in Nat \ {0}
        BY <1>4
      <4>2. QED
        BY <1>3, <4>1, EnvelopeFacts
    <3>2. served \in Seq(Item) /\ Len(served) = n /\ \A i \in 1..n : served[i] = Envelope(epoch, after + i)
      BY <2>2, <3>1
    <3>3. /\ lastCursor.epoch = epoch => after = lastCursor.seq
          /\ lastCursor.epoch # epoch => after = 0 /\ n = length
          /\ after + n <= MaxSeq
      BY <1>3, <1>4
    <3> HIDE DEF served, n, after
    <3>4. Run(served, epoch, after)
      BY <3>2 DEF Run
    <3>5. Answers(served, epoch, after)
      BY <1>3, <3>2, <3>3, <3>4 DEF Answers
    <3> HIDE DEF items
    <3>6. QED
      BY <1>1, <1>2, <1>3, <1>4, <2>1, <3>2, <3>5, AnswerStep
  <2>3. CASE n \notin Nat
    <3>1. 1..n = {}
      BY <1>3, <1>4, <2>3
    <3>2. served = <<>>
      BY <3>1
    <3> HIDE DEF served, n, after
    <3>3. items = <<>>
      BY <2>1, <3>2
    <3> HIDE DEF items
    <3>4. QED
      BY <1>1, <1>2, <3>3, AnswerStep
  <2>4. QED
    BY <2>2, <2>3
<1>7. QED
  BY <1>5, <1>6

(* It fails, which is an empty answer.                                     *)
LEMMA CatchUpFailsStep ==
    ASSUME Inv, CatchUpFails
    PROVE  TypeInv' /\ TakenInv' /\ HookInv' /\ Kept
<1>1. catchup.asked /\ CatchUp(<<>>) /\ UNCHANGED <<serving, stream>>
  BY DEF CatchUpFails
<1>2. UNCHANGED <<epoch, cursor>>
  BY <1>1 DEF serving, stream
<1>3. QED
  BY <1>1, <1>2, AnswerStep

(* The runtime is disposed of.                                             *)
LEMMA DisposeStep ==
    ASSUME Inv, Dispose
    PROVE  TypeInv' /\ TakenInv' /\ HookInv' /\ Kept
<1>1. /\ Disconnect /\ subscribed' = FALSE
      /\ UNCHANGED <<pinned, seenKeys, buffer, replayMode, metas, missed, pending, lastCursor, catchup,
                     timeline, session, armTimer, render, reconnecting>>
  BY DEF Dispose, runtime, folds
<1>2. epoch' = epoch /\ cursor' = cursor /\ epoch \in Nat
  BY <1>1, SseTypes DEF Disconnect, serving, Inv
<1>3. Flags' \subseteq BOOLEAN
  BY <1>1, FlagFacts DEF Flags
<1>4. Asked' /\ catchup' \in [asked : BOOLEAN, items : Seq(Item)]
  BY <1>1, FlagFacts DEF Asked
<1>5. QED
  BY <1>1, <1>2, <1>3, <1>4, QuietStep

(* The stream and its server by themselves.                                *)
LEMMA UntouchedStep ==
    ASSUME Inv, Untouched, epoch' \in Nat, epoch <= epoch', cursor' = cursor
    PROVE  TypeInv' /\ TakenInv' /\ HookInv' /\ Kept
<1>1. UNCHANGED <<pinned, seenKeys, buffer, replayMode, metas, subscribed, missed, pending, lastCursor,
                  catchup, timeline, session, armTimer, render, reconnecting>>
  BY DEF Untouched, runtime, hook, folds
<1>2. Flags' \subseteq BOOLEAN
  BY <1>1, FlagFacts DEF Flags
<1>3. Asked' /\ catchup' \in [asked : BOOLEAN, items : Seq(Item)]
  BY <1>1, FlagFacts DEF Asked
<1>4. QED
  BY <1>1, <1>2, <1>3, QuietStep

(* Steps of the stream that the runtime sees nothing of.                   *)
LEMMA StreamOnly ==
    ASSUME Inv, Untouched,
           \/ Connect \/ ReconnectTimer \/ Appends \/ Restarts \/ UNCHANGED sse
           \/ \E f \in Fetch : Opens(f) \/ AbortedEnds(f) \/ Breaks(f)
    PROVE  TypeInv' /\ TakenInv' /\ HookInv' /\ Kept
<1>1. epoch \in Nat
  BY SseTypes DEF Inv
<1>2. (epoch' = epoch \/ epoch' = epoch + 1) /\ cursor' = cursor
  <2>1. CASE Connect
    BY <2>1 DEF Connect, serving
  <2>2. CASE ReconnectTimer
    BY <2>2 DEF ReconnectTimer, serving
  <2>3. CASE Appends \/ Restarts
    BY <2>3 DEF Appends, Restarts, stream
  <2>4. CASE UNCHANGED sse
    BY <2>4 DEF sse, serving, stream
  <2>5. ASSUME NEW f \in Fetch, Opens(f) \/ AbortedEnds(f) \/ Breaks(f)
        PROVE  epoch' = epoch /\ cursor' = cursor
    BY <2>5 DEF Opens, AbortedEnds, Breaks, FetchEnds, serving
  <2>6. QED
    BY <2>1, <2>2, <2>3, <2>4, <2>5
<1>3. epoch' \in Nat /\ epoch <= epoch'
  BY <1>1, <1>2
<1>4. QED
  BY <1>2, <1>3, UntouchedStep

(* Every step but a report of the client keeps the invariant and what has  *)
(* been reported.                                                          *)
LEMMA InvStep ==
    ASSUME Inv, [Next]_vars
    PROVE  Inv' /\ (Kept \/ Preflight)
<1>1. StreamInv'
  BY StreamStep DEF Inv
<1>2. CASE Preflight
  BY <1>1, <1>2, PreflightStep DEF Inv
<1>3. CASE ~Preflight
  <2>1. TypeInv' /\ TakenInv' /\ HookInv' /\ Kept
    <3>1. CASE Receive
      BY <3>1, ReceiveStep
    <3>2. CASE Flush \/ Commit
      BY <3>2, FlushStep
    <3>3. CASE ArmReplay
      BY <3>3, ArmReplayStep
    <3>4. CASE CatchUpReturns
      BY <3>4, CatchUpReturnsStep
    <3>5. CASE CatchUpFails
      BY <3>5, CatchUpFailsStep
    <3>6. CASE Close
      BY <3>6, CloseStep
    <3>7. CASE Dispose
      BY <3>7, DisposeStep
    <3>8. CASE ConnectSse
      BY <3>8, StreamOnly DEF ConnectSse
    <3>9. CASE ReconnectTimer /\ Untouched
      BY <3>9, StreamOnly
    <3>10. CASE (Appends \/ Restarts) /\ Untouched
      BY <3>10, StreamOnly
    <3>11. CASE \E f \in Fetch : (Opens(f) \/ AbortedEnds(f)) /\ Untouched
      BY <3>11, StreamOnly
    <3>12. CASE \E f \in Fetch : Breaks(f) /\ Untouched
      BY <3>12, StreamOnly
    <3>13. CASE UNCHANGED vars
      BY <3>13, StreamOnly DEF vars, Untouched
    <3>14. QED
      BY <1>3, <3>1, <3>2, <3>3, <3>4, <3>5, <3>6, <3>7, <3>8, <3>9, <3>10, <3>11, <3>12, <3>13
      DEF Next, Runs
  <2>2. QED
    BY <1>1, <2>1 DEF Inv
<1>4. QED
  BY <1>2, <1>3

(* The invariant holds at first, when nothing has come.                    *)
LEMMA InvInit ==
    ASSUME Init
    PROVE  Inv
<1> DEFINE z == <<>>
<1>1. z \in Seq(Item) /\ z \in Seq(Event) /\ Server(z) = {}
  BY EmptyFacts
<1>2. /\ pinned = 0 /\ seenKeys = {} /\ buffer = z /\ replayMode = FALSE /\ metas = 0
      /\ subscribed = TRUE /\ missed = {} /\ pending = z /\ timeline = z /\ session = NoSession
      /\ lastCursor = [epoch |-> 0, seq |-> 0]
      /\ armTimer = FALSE /\ render = FALSE /\ reconnecting = FALSE /\ catchup = NoCatchup
      /\ cursor = [epoch |-> 0, seq |-> 0] /\ epoch = 1
  BY DEF Init, SseInit
<1> HIDE DEF z
<1>3. StreamInv
  BY StreamInit DEF Init
<1>4. MaxEpoch \in Nat /\ MaxSeq \in Nat
  BY StreamAssumption
<1>5. Sound(session) /\ Server(session.transcript) = {}
  BY <1>2, SoundNone
<1>6. View = session
  <2>1. <<Meta(0, 0), FALSE>> \in Event
    BY DEF Event, Item, Meta
  <2>2. FoldBatchIntoSessionState(session, <<>>) = session
    BY <1>1, <1>5, <2>1, FoldGrows
  <2>3. QED
    BY <1>2, <2>2 DEF View, z
<1>7. TypeInv
  <2>1. pinned \in 0..MaxEpoch /\ metas \in 0..2 /\ lastCursor \in [epoch : 0..MaxEpoch, seq : 0..MaxSeq]
    BY <1>2, <1>4
  <2>2. Flags \subseteq BOOLEAN
    BY <1>2 DEF Flags
  <2>3. catchup \in [asked : BOOLEAN, items : Seq(Item)]
    BY <1>2, NoCatchupFacts
  <2>4. missed \in SUBSET (Nat \X Nat)
    BY <1>2
  <2>5. QED
    BY <1>1, <1>2, <1>5, <2>1, <2>2, <2>3, <2>4 DEF TypeInv
<1>8. 1..0 = {}
  OBVIOUS
<1>9. TakenInv
  BY <1>1, <1>2, <1>8 DEF TakenInv, Keys
<1>10. session.transcript \in Seq(Item)
  BY <1>5 DEF Sound, Sessions
<1>11. \A i \in 1..Len(session.transcript) : ~IsServer(session.transcript[i])
  BY <1>5, <1>10, ServerFacts
<1>12. Held(View.transcript, lastCursor, missed) /\ InOrderBut(session.transcript, missed)
  BY <1>2, <1>5, <1>6, <1>8, <1>11 DEF Held, Ordered, Holds, InOrderBut
<1>13. Covered /\ MissedPast /\ Asked /\ lastCursor.epoch <= epoch /\ Server(timeline) = Server(session.transcript)
  BY <1>1, <1>2, <1>5, <1>8 DEF Covered, MissedPast, Asked, NoCatchup
<1>14. QED
  BY <1>3, <1>7, <1>9, <1>12, <1>13 DEF Inv, HookInv

(* So it always holds.                                                     *)
LEMMA InvAlways == Spec => []Inv
<1>1. Init => Inv
  BY InvInit
<1>2. Inv /\ [Next]_vars => Inv'
  BY InvStep
<1>3. QED
  BY <1>1, <1>2, PTL DEF Spec

-----------------------------------------------------------------------------
(* What the invariant gives.                                               *)

(* The types, and of one epoch each.                                       *)
LEMMA TypeFacts == Inv => TypeOK
<1> SUFFICES ASSUME Inv PROVE TypeOK
  OBVIOUS
<1>1. SseTypeOK
  BY DEF Inv, StreamInv
<1>2. /\ pinned \in 0..MaxEpoch /\ metas \in 0..2
      /\ lastCursor \in [epoch : 0..MaxEpoch, seq : 0..MaxSeq]
      /\ {replayMode, subscribed, armTimer, render, reconnecting} \subseteq BOOLEAN
  BY DEF Inv, TypeInv, Flags
<1>3. seenKeys \subseteq {pinned} \X (1..MaxSeq)
  <2>1. cursor.seq <= MaxSeq /\ cursor.seq \in Nat /\ MaxSeq \in Nat
    BY SseTypes DEF Inv
  <2>2. 1..cursor.seq \subseteq 1..MaxSeq
    BY <2>1
  <2>3. QED
    BY <2>2 DEF Inv, TakenInv
<1>4. {TimelineKey(e) : e \in Server(buffer)} = seenKeys
  BY DEF Inv, TakenInv, Keys
<1>5. \A e, f \in Server(timeline) : e.epoch = f.epoch
  <2>1. session.transcript \in Seq(Item) /\ Server(timeline) = Server(session.transcript)
        /\ InOrderBut(session.transcript, missed)
    BY Types0 DEF Inv, HookInv
  <2>2. SUFFICES ASSUME NEW e \in Server(session.transcript), NEW f \in Server(session.transcript)
                 PROVE  e.epoch = f.epoch
    BY <2>1
  <2>3. PICK i \in 1..Len(session.transcript) : session.transcript[i] = e /\ IsServer(e)
    BY <2>1, ServerFacts
  <2>4. PICK j \in 1..Len(session.transcript) : session.transcript[j] = f /\ IsServer(f)
    BY <2>1, ServerFacts
  <2>5. CASE i < j
    <3>1. i \in 1..j - 1
      BY <2>5
    <3>2. QED
      BY <2>1, <2>3, <2>4, <3>1 DEF InOrderBut
  <2>6. CASE j < i
    <3>1. j \in 1..i - 1
      BY <2>6
    <3>2. QED
      BY <2>1, <2>3, <2>4, <3>1 DEF InOrderBut
  <2>7. QED
    BY <2>3, <2>4, <2>5, <2>6
<1>6. QED
  BY <1>1, <1>2, <1>3, <1>4, <1>5 DEF TypeOK

(* An item of the session as it will be is in the timeline or the batch.   *)
LEMMA ViewFacts ==
    ASSUME Inv, NEW e \in Server(View.transcript)
    PROVE  e \in Range(timeline) \cup {p[1] : p \in Range(pending)}
<1>1. /\ Sound(session) /\ timeline \in Seq(Item) /\ Server(timeline) = Server(session.transcript)
      /\ pending \in Seq(Event)
  BY DEF Inv, TypeInv, HookInv
<1>2. e \in Server(session.transcript) \/ \E i \in 1..Len(pending) : pending[i][1] = e
  BY <1>1, FoldsAgree DEF View
<1>3. ASSUME NEW i \in 1..Len(pending), pending[i][1] = e PROVE e \in {p[1] : p \in Range(pending)}
  <2>1. pending[i] \in Range(pending)
    BY <1>1, RangeFacts
  <2>2. QED
    BY <1>3, <2>1
<1>4. e \in Server(timeline) => e \in Range(timeline)
  BY DEF Server
<1>5. QED
  BY <1>1, <1>2, <1>3, <1>4

(* No cursor is ahead of what was taken up to it.                          *)
LEMMA CursorFacts == Inv => CursorIsHeld
<1> SUFFICES ASSUME Inv PROVE CursorIsHeld
  OBVIOUS
<1>1. \A s \in 1..cursor.seq : <<cursor.epoch, s>> \in seenKeys
  BY DEF Inv, TakenInv
<1>2. ASSUME NEW s \in 1..lastCursor.seq
      PROVE  \/ Envelope(lastCursor.epoch, s) \in Range(timeline) \cup {p[1] : p \in Range(pending)}
             \/ <<lastCursor.epoch, s>> \in missed
  <2>1. Envelope(lastCursor.epoch, s) \in Server(View.transcript) \/ <<lastCursor.epoch, s>> \in missed
    BY DEF Inv, HookInv, Held, Holds
  <2>2. QED
    BY <2>1, ViewFacts
<1>3. QED
  BY <1>1, <1>2 DEF CursorIsHeld

(* The transcript and the timeline.                                        *)
LEMMA OrderFacts == Inv => InOrder(session.transcript) /\ Server(timeline) = Server(session.transcript)
BY InOrderFacts DEF Inv, HookInv

(* The reports: one at most, and it is held unless it was missed.          *)
Reports == metas <= 1 /\ (metas = 1 /\ missed = {} => Reported)

(* A report that is held is in the timeline when the batch is folded.      *)
LEMMA ReportsFacts ==
    ASSUME Inv, Reports
    PROVE  ReportsKept
<1>1. metas \in 0..2 /\ metas <= 1 /\ timeline \in Seq(Item)
  BY DEF Inv, TypeInv, Reports
<1> DEFINE L == {e \in Range(timeline) : IsLocal(e)}
<1>2. SUFFICES ASSUME pending = <<>>, missed = {} PROVE metas <= Cardinality(L)
  BY DEF ReportsKept
<1>3. IsFiniteSet(L) /\ Cardinality(L) \in Nat
  <2>1. IsFiniteSet(Range(timeline))
    BY <1>1, RangeFacts
  <2>2. IsFiniteSet(L)
    BY <2>1, FS_Subset
  <2>3. QED
    BY <2>2, FS_CardinalityType
<1>4. CASE metas = 0
  BY <1>3, <1>4
<1>5. CASE metas = 1
  <2>1. Reported
    BY <1>2, <1>5 DEF Reports
  <2>2. 1..Len(pending) = {}
    BY <1>2
  <2>3. HasLocal(timeline)
    BY <2>1, <2>2 DEF Reported
  <2>4. PICK i \in 1..Len(timeline) : IsLocal(timeline[i])
    BY <2>3 DEF HasLocal
  <2>5. timeline[i] \in Range(timeline)
    BY <1>1, RangeFacts
  <2>6. L # {}
    BY <2>4, <2>5
  <2> HIDE DEF L
  <2>7. Cardinality(L) # 0
    BY <1>3, <2>6, FS_EmptySet
  <2>8. QED
    BY <1>3, <1>5, <2>7
<1>6. QED
  BY <1>1, <1>4, <1>5

-----------------------------------------------------------------------------
(* TypeOK: what the runtime and the hook hold is what they are meant to    *)
(* hold, and the items of a timeline are of one epoch each.                *)
THEOREM Types == Spec => []TypeOK
BY InvAlways, TypeFacts, PTL

(* However streams break and overlap, the server restarts, listeners come  *)
(* and go and clients report: a transcript is of one epoch, in order,      *)
(* without gaps but for what came while nobody listened, the timeline      *)
(* holds the same, and no cursor is ahead of what was taken up to it.      *)
THEOREM Delivered ==
    Spec => [](/\ InOrder(session.transcript)
               /\ Server(timeline) = Server(session.transcript)
               /\ CursorIsHeld)
<1>1. Inv => /\ InOrder(session.transcript)
             /\ Server(timeline) = Server(session.transcript)
             /\ CursorIsHeld
  BY OrderFacts, CursorFacts
<1>2. QED
  BY <1>1, InvAlways, PTL

(* NothingLost: besides, where preflight reports once, its report outlives *)
(* the restarts of the server.  A second one takes the place of the first. *)
THEOREM NothingIsLost ==
    ASSUME "remetas" \notin Env
    PROVE  Spec => []NothingLost
<1>1. Init => Inv /\ Reports
  <2>1. Init => Reports
    BY DEF Init, Reports
  <2>2. QED
    BY <2>1, InvInit
<1>2. Inv /\ Reports /\ [Next]_vars => (Inv /\ Reports)'
  <2> SUFFICES ASSUME Inv, Reports, [Next]_vars PROVE Inv' /\ Reports'
    OBVIOUS
  <2>1. Inv' /\ (Kept \/ Preflight)
    BY InvStep
  <2>2. CASE Kept
    <3>1. metas' = metas /\ (missed' = {} => missed = {}) /\ (Reported => Reported')
      BY <2>2 DEF Kept
    <3>2. metas' <= 1
      BY <3>1 DEF Reports
    <3>3. metas' = 1 /\ missed' = {} => Reported'
      BY <3>1 DEF Reports
    <3>4. QED
      BY <2>1, <3>2, <3>3 DEF Reports
  <2>3. CASE Preflight
    <3>1. metas' = metas + 1 /\ (Reported' \/ missed' # {})
      BY <2>3, PreflightStep
    <3>2. metas = 0
      BY <2>3 DEF Preflight, Inv, TypeInv
    <3>3. metas' <= 1
      BY <3>1, <3>2
    <3>4. missed' = {} => Reported'
      BY <3>1
    <3>5. QED
      BY <2>1, <3>3, <3>4 DEF Reports
  <2>4. QED
    BY <2>1, <2>2, <2>3
<1>3. Inv /\ Reports => NothingLost
  BY OrderFacts, CursorFacts, ReportsFacts DEF NothingLost
<1>4. QED
  BY <1>1, <1>2, <1>3, PTL DEF Spec
=============================================================================

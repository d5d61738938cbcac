------------------------- MODULE EventProcessorProofs -------------------------
(***************************************************************************)
(* Proofs about EventProcessor: its types, that a call and a user's        *)
(* message (with its repetitions) have one place each and show what became *)
(* of them, and that no text is mixed with another, lost or left           *)
(* streaming.                                                              *)
(*                                                                         *)
(* A handler finds messages by what they are about and changes them where  *)
(* they are, but Ranked renumbers all of them and an interruption drops    *)
(* some: the lemmas named ...Effect say once, for every handler, which     *)
(* messages of each role are Same, changed or new.  The invariants are     *)
(*   TypeInv   the types; and the ranks order distinct messages (InPlace)  *)
(*   ToolInv   a call's message agrees with the events the call has sent   *)
(*   UserInv   a bubble agrees with what became of the message             *)
(*   StreamInv what streams is open                                        *)
(*   TextInv   a text agrees with the block that the agent began           *)
(* and each is kept by every step given the first; StreamInv and TextInv   *)
(* exclude what TLC shows to break them (StreamStep, Careful).             *)
(***************************************************************************)
EXTENDS EventProcessor, FiniteSetTheorems, TLAPS

Less == {p \in Nat \X Nat : p[1] < p[2]}

(* Every nonempty set of numbers has a least one. *)
LEMMA LeastNat ==
    ASSUME NEW T \in SUBSET Nat, T # {}
    PROVE  \E n \in T : \A k \in T : n <= k
<1>1. PICK n \in T : \A k \in T : ~(<<k, n>> \in Less)
  <2>1. IsWellFoundedOn(Less, Nat)
    BY NatLessThanWellFounded DEF OpToRel, Less
  <2> HIDE DEF Less
  <2>2. QED
    BY <2>1, WFMin
<1>2. ASSUME NEW k \in T PROVE n <= k
  <2>1. <<k, n>> \in Less <=> k < n
    BY DEF Less
  <2>2. n \in Nat /\ k \in Nat
    OBVIOUS
  <2>3. QED
    BY <1>1, <2>1, <2>2
<1>3. QED
  BY <1>2

(* A recursion over the numbers up to n has a solution.                    *)
Iterates(g, v, step, n) == g[0] = v /\ \A i \in 1..n : g[i] = step[i][g[i - 1]]

LEMMA Recursion ==
    ASSUME NEW n \in Nat, NEW V, NEW v \in V, NEW step \in [1..n -> [V -> V]]
    PROVE  \E g \in [0..n -> V] : Iterates(g, v, step, n)
<1> DEFINE Solved(k) == \E g \in [0..k -> V] : Iterates(g, v, step, k)
           Bad == {k \in 0..n : ~Solved(k)}
<1>1. Solved(0)
  <2> DEFINE h == [i \in 0..0 |-> v]
  <2>1. h \in [0..0 -> V] /\ h[0] = v
    OBVIOUS
  <2> HIDE DEF h
  <2>2. QED
    BY <2>1 DEF Iterates
<1>2. ASSUME NEW k \in 1..n, Solved(k - 1) PROVE Solved(k)
  <2>1. PICK g \in [0..k - 1 -> V] : Iterates(g, v, step, k - 1)
    BY <1>2
  <2>2. g[0] = v /\ \A i \in 1..k - 1 : g[i] = step[i][g[i - 1]]
    BY <2>1 DEF Iterates
  <2> DEFINE h == [i \in 0..k |-> IF i = k THEN step[k][g[k - 1]] ELSE g[i]]
  <2>3. step[k][g[k - 1]] \in V
    <3>1. g[k - 1] \in V /\ step[k] \in [V -> V]
      OBVIOUS
    <3>2. QED
      BY <3>1
  <2>4. h \in [0..k -> V]
    BY <2>3
  <2>5. h[0] = v
    BY <2>2
  <2>6. ASSUME NEW i \in 1..k PROVE h[i] = step[i][h[i - 1]]
    <3>1. i - 1 \in 0..k - 1 /\ h[i - 1] = g[i - 1]
      OBVIOUS
    <3>2. CASE i = k
      BY <3>1, <3>2
    <3>3. CASE i # k
      <4>1. i \in 1..k - 1 /\ h[i] = g[i]
        BY <3>3
      <4>2. g[i] = step[i][g[i - 1]]
        BY <2>2, <4>1
      <4>3. QED
        BY <3>1, <4>1, <4>2
    <3>4. QED
      BY <3>2, <3>3
  <2> HIDE DEF h
  <2>7. QED
    BY <2>4, <2>5, <2>6 DEF Iterates
<1> HIDE DEF Solved
<1>3. Bad = {}
  <2>1. SUFFICES ASSUME Bad # {} PROVE FALSE
    OBVIOUS
  <2>2. PICK k \in Bad : \A j \in Bad : k <= j
    <3>1. Bad \in SUBSET Nat
      OBVIOUS
    <3> HIDE DEF Bad
    <3>2. QED
      BY <2>1, <3>1, LeastNat
  <2>3. k \in 1..n
    BY <1>1
  <2>4. k - 1 \in 0..n /\ k - 1 \notin Bad
    BY <2>2, <2>3
  <2>5. QED
    BY <1>2, <2>3, <2>4
<1>4. Solved(n)
  BY <1>3
<1>5. QED
  BY <1>4 DEF Solved

Embeds(r, s, T, n, e) ==
    /\ e \in [1..Len(r) -> 1..n]
    /\ \A p \in 1..Len(r) : r[p] = s[e[p]] /\ s[e[p]] \in T
    /\ \A p, q \in 1..Len(r) : p < q => e[p] < e[q]
    /\ \A j \in 1..n : s[j] \in T => \E p \in 1..Len(r) : e[p] = j

LEMMA FilterFacts ==
    ASSUME NEW S, NEW s \in Seq(S), NEW T
    PROVE  /\ Filter(s, T) \in Seq(S)
           /\ \E e : Embeds(Filter(s, T), s, T, Len(s), e)
<1> DEFINE Body(g) == [i \in 0..Len(s) |->
                      IF i = 0 THEN <<>>
                      ELSE IF s[i] \in T THEN Append(g[i - 1], s[i]) ELSE g[i - 1]]
           f == CHOOSE g : g = Body(g)
           Good(n) == f[n] \in Seq(S) /\ \E e : Embeds(f[n], s, T, n, e)
           Bad == {n \in 0..Len(s) : ~Good(n)}
<1>1. Filter(s, T) = f[Len(s)]
  BY DEF Filter
<1>2. f = Body(f)
  <2> DEFINE step == [i \in 1..Len(s) |->
                        [q \in Seq(S) |-> IF s[i] \in T THEN Append(q, s[i]) ELSE q]]
  <2>1. step \in [1..Len(s) -> [Seq(S) -> Seq(S)]] /\ <<>> \in Seq(S) /\ Len(s) \in Nat
    <3>1. \A i \in 1..Len(s), q \in Seq(S) : Append(q, s[i]) \in Seq(S)
      OBVIOUS
    <3>2. QED
      BY <3>1
  <2>2. \A i \in 1..Len(s), q \in Seq(S) :
           step[i][q] = IF s[i] \in T THEN Append(q, s[i]) ELSE q
    OBVIOUS
  <2> HIDE DEF step
  <2>3. PICK g \in [0..Len(s) -> Seq(S)] : Iterates(g, <<>>, step, Len(s))
    BY <2>1, Recursion
  <2>4. \A i \in 1..Len(s) :
           g[i] = IF s[i] \in T THEN Append(g[i - 1], s[i]) ELSE g[i - 1]
    <3>1. \A i \in 1..Len(s) : g[i - 1] \in Seq(S)
      OBVIOUS
    <3>2. QED
      BY <2>2, <2>3, <3>1 DEF Iterates
  <2>5. g = Body(g)
    <3>1. \A i \in 0..Len(s) : i = 0 \/ i \in 1..Len(s)
      BY <2>1
    <3>2. g[0] = <<>>
      BY <2>3 DEF Iterates
    <3>3. \A i \in 0..Len(s) : g[i] = Body(g)[i]
      BY <2>4, <3>1, <3>2
    <3>4. DOMAIN Body(g) = 0..Len(s) /\ g = [i \in 0..Len(s) |-> g[i]]
      OBVIOUS
    <3>5. QED
      BY <3>3, <3>4
  <2> HIDE DEF Body
  <2>6. QED
    BY <2>5
<1>3. \A i \in 0..Len(s) : f[i] = IF i = 0 THEN <<>>
                     ELSE IF s[i] \in T THEN Append(f[i - 1], s[i]) ELSE f[i - 1]
  <2> HIDE DEF f
  <2>1. QED
    BY <1>2
<1>4. Len(s) \in Nat
  OBVIOUS
<1> HIDE DEF f
<1>5. Good(0)
  <2> DEFINE e == [p \in 1..0 |-> 0]
  <2>1. f[0] = <<>> /\ Len(<<>>) = 0 /\ <<>> \in Seq(S)
    BY <1>3, <1>4
  <2>2. Embeds(<<>>, s, T, 0, e)
    BY <2>1 DEF Embeds
  <2> HIDE DEF e
  <2>3. QED
    BY <2>1, <2>2
<1>6. ASSUME NEW n \in 1..Len(s), Good(n - 1) PROVE Good(n)
  <2>1. f[n - 1] \in Seq(S) /\ n \in Nat /\ n >= 1 /\ s[n] \in S
    BY <1>4, <1>6
  <2>2. PICK d : Embeds(f[n - 1], s, T, n - 1, d)
    BY <1>6
  <2>3. PICK r : r = f[n - 1] /\ r \in Seq(S) /\ Len(r) \in Nat
    BY <2>1
  <2>4. CASE s[n] \in T
    <3> DEFINE e == [p \in 1..Len(r) + 1 |-> IF p = Len(r) + 1 THEN n ELSE d[p]]
               q == Append(r, s[n])
    <3>1. f[n] = q /\ q \in Seq(S) /\ Len(q) = Len(r) + 1
      <4>1. n \in 0..Len(s) /\ n # 0
        BY <1>4, <2>1
      <4>2. f[n] = Append(f[n - 1], s[n])
        BY <1>3, <2>4, <4>1
      <4>3. QED
        BY <2>1, <2>3, <4>2
    <3>2. (\A p \in 1..Len(r) : q[p] = r[p]) /\ q[Len(r) + 1] = s[n]
      BY <2>1, <2>3
    <3> HIDE DEF q
    <3>3. d \in [1..Len(r) -> 1..n - 1]
      BY <2>2, <2>3 DEF Embeds
    <3>4. e \in [1..Len(q) -> 1..n]
      BY <2>1, <2>3, <3>1, <3>3
    <3>5. (\A p \in 1..Len(r) : e[p] = d[p] /\ d[p] < n) /\ e[Len(r) + 1] = n
      <4>1. \A p \in 1..Len(r) : p \in 1..Len(r) + 1 /\ p # Len(r) + 1 /\ d[p] \in 1..n - 1
        BY <2>3, <3>3
      <4>2. \A k \in 1..n - 1 : k < n
        BY <2>1
      <4>3. Len(r) + 1 \in 1..Len(r) + 1
        BY <2>3
      <4>4. QED
        BY <4>1, <4>2, <4>3
    <3> HIDE DEF e
    <3>6. \A p \in 1..Len(q) : p \in 1..Len(r) \/ p = Len(r) + 1
      BY <2>3, <3>1
    <3>7. \A p \in 1..Len(q) : q[p] = s[e[p]] /\ s[e[p]] \in T
      BY <2>2, <2>3, <2>4, <3>2, <3>5, <3>6 DEF Embeds
    <3>8. ASSUME NEW a \in 1..Len(q), NEW b \in 1..Len(q), a < b PROVE e[a] < e[b]
      <4>1. a \in 1..Len(r)
        BY <2>3, <3>1, <3>8
      <4>2. CASE b \in 1..Len(r)
        BY <2>2, <2>3, <3>5, <3>8, <4>1, <4>2 DEF Embeds
      <4>3. CASE b = Len(r) + 1
        BY <3>5, <4>1, <4>3
      <4>4. QED
        BY <3>6, <4>2, <4>3
    <3>9. ASSUME NEW j \in 1..n, s[j] \in T PROVE \E p \in 1..Len(q) : e[p] = j
      <4>1. CASE j = n
        BY <2>3, <3>1, <3>5, <4>1
      <4>2. CASE j # n
        <5>1. j \in 1..n - 1
          BY <2>1, <4>2
        <5>2. PICK p \in 1..Len(r) : d[p] = j
          BY <2>2, <2>3, <3>9, <5>1 DEF Embeds
        <5>3. p \in 1..Len(q) /\ e[p] = j
          BY <2>3, <3>1, <3>5, <5>2
        <5>4. QED
          BY <5>3
      <4>3. QED
        BY <4>1, <4>2
    <3>10. Embeds(q, s, T, n, e)
      BY <3>4, <3>7, <3>8, <3>9 DEF Embeds
    <3>11. QED
      BY <3>1, <3>10
  <2>5. CASE s[n] \notin T
    <3>1. f[n] = f[n - 1]
      BY <1>3, <1>4, <2>1, <2>5
    <3>2. Embeds(f[n], s, T, n, d)
      BY <2>1, <2>2, <2>3, <2>5, <3>1 DEF Embeds
    <3>3. QED
      BY <2>1, <3>1, <3>2
  <2>6. QED
    BY <2>4, <2>5
<1> HIDE DEF Good
<1>7. Bad = {}
  <2>1. SUFFICES ASSUME Bad # {} PROVE FALSE
    OBVIOUS
  <2>2. PICK n \in Bad : \A k \in Bad : n <= k
    <3>1. Bad \in SUBSET Nat
      OBVIOUS
    <3> HIDE DEF Bad
    <3>2. QED
      BY <2>1, <3>1, LeastNat
  <2>3. n \in 1..Len(s)
    BY <1>4, <1>5
  <2>4. n - 1 \in 0..Len(s) /\ n - 1 \notin Bad
    BY <2>2, <2>3, <1>4
  <2>5. QED
    BY <1>6, <2>3, <2>4
<1>8. Good(Len(s))
  BY <1>4, <1>7
<1>9. QED
  BY <1>1, <1>8 DEF Good

LEMMA RangeFacts ==
    ASSUME NEW S, NEW s \in Seq(S)
    PROVE  /\ IsFiniteSet(Range(s))
           /\ \A e : e \in Range(s) <=> \E i \in 1..Len(s) : s[i] = e
<1>1. Len(s) \in Nat /\ DOMAIN s = 1..Len(s)
  OBVIOUS
<1>2. Range(s) = {s[i] : i \in 1..Len(s)}
  BY <1>1 DEF Range
<1>3. [i \in 1..Len(s) |-> s[i]] \in Surjection(1..Len(s), Range(s))
  BY <1>2 DEF Surjection
<1>4. IsFiniteSet(1..Len(s))
  BY <1>1, FS_Interval
<1>5. IsFiniteSet(Range(s))
  BY <1>3, <1>4, FS_Surjection
<1>6. QED
  BY <1>2, <1>5

LEMMA UpTo ==
    ASSUME NEW m \in Nat
    PROVE  IsFiniteSet(1..m) /\ Cardinality(1..m) = m
<1>1. 1 \in Int /\ m \in Int
  OBVIOUS
<1>2. Cardinality(1..m) = IF 1 > m THEN 0 ELSE m - 1 + 1
  BY <1>1, FS_Interval
<1>3. IsFiniteSet(1..m)
  BY <1>1, FS_Interval
<1>4. QED
  BY <1>2, <1>3
-----------------------------------------------------------------------------
(* Messages.  Alike: the same message but for its place in the display.    *)
Alike(m, o) ==
    /\ o \in Message /\ o.role = m.role
    /\ m.role = "assistant" =>
          /\ o.turn = m.turn /\ o.text = m.text /\ o.streaming = m.streaming
          /\ o.pending = m.pending /\ o.intermediate = m.intermediate
    /\ m.role = "tool" =>
          /\ o.use = m.use /\ o.shown = m.shown
          /\ o.status = m.status /\ o.background = m.background
    /\ m.role = "user" => o.id = m.id /\ o.queued = m.queued

LEMMA Roles ==
    ASSUME NEW m \in Message
    PROVE  /\ m.role = "assistant" <=> m \in Assistants
           /\ m.role = "tool" <=> m \in Calls
           /\ m.role = "user" <=> m \in Bubbles
           /\ m.role = "auth-request" <=> m \in Logins
           /\ m.at \in Nat
BY DEF Message, Assistants, Calls, Bubbles, Lines, Logins

LEMMA Reranked ==
    ASSUME NEW m \in Message, NEW r \in Nat
    PROVE  LET o == [m EXCEPT !.at = r]
           IN  Alike(m, o) /\ o.at = r
<1>1. CASE m \in Assistants
  BY <1>1 DEF Alike, Message, Assistants
<1>2. CASE m \in Calls
  BY <1>2 DEF Alike, Message, Calls
<1>3. CASE m \in Bubbles
  BY <1>3 DEF Alike, Message, Bubbles
<1>4. CASE m \in Lines
  BY <1>4 DEF Alike, Message, Lines
<1>5. CASE m \in Logins
  BY <1>5 DEF Alike, Message, Logins
<1>6. QED
  BY <1>1, <1>2, <1>3, <1>4, <1>5 DEF Message

Distinct(ms) == \A i, j \in 1..Len(ms) : ms[i].at = ms[j].at => i = j

(* Ranks of distinct times are the numbers of the messages.                *)
LEMMA RankedFacts ==
    ASSUME NEW ms \in Seq(Message), Distinct(ms)
    PROVE  /\ Ranked(ms) \in Seq(Message)
           /\ Len(Ranked(ms)) = Len(ms)
           /\ Distinct(Ranked(ms))
           /\ \A i \in 1..Len(ms) :
                 Alike(ms[i], Ranked(ms)[i]) /\ Ranked(ms)[i].at \in 1..Len(ms)
           /\ {Ranked(ms)[i].at : i \in 1..Len(ms)} = 1..Len(ms)
<1> DEFINE n == Len(ms)
           Upto(i) == {j \in 1..n : ms[j].at <= ms[i].at}
           rank == [i \in 1..n |-> Cardinality(Upto(i))]
           r == Ranked(ms)
<1>1. n \in Nat /\ \A i \in 1..n : ms[i] \in Message /\ ms[i].at \in Nat
  BY Roles
<1>2. IsFiniteSet(1..n) /\ Cardinality(1..n) = n
  BY <1>1, UpTo
<1>3. \A i \in 1..n : IsFiniteSet(Upto(i)) /\ Cardinality(Upto(i)) \in Nat /\ Cardinality(Upto(i)) <= n
  <2> SUFFICES ASSUME NEW i \in 1..n
               PROVE  IsFiniteSet(Upto(i)) /\ Cardinality(Upto(i)) \in Nat /\ Cardinality(Upto(i)) <= n
    OBVIOUS
  <2>1. Upto(i) \in SUBSET (1..n)
    OBVIOUS
  <2> HIDE DEF Upto
  <2>2. IsFiniteSet(Upto(i)) /\ Cardinality(Upto(i)) <= Cardinality(1..n)
    BY <1>2, <2>1, FS_Subset
  <2>3. QED
    BY <1>2, <2>2, FS_CardinalityType
<1>4. \A i \in 1..n : rank[i] \in 1..n
  <2> SUFFICES ASSUME NEW i \in 1..n PROVE Cardinality(Upto(i)) \in 1..n
    OBVIOUS
  <2>1. i \in Upto(i)
    BY <1>1
  <2> HIDE DEF Upto
  <2>2. Cardinality(Upto(i)) # 0
    BY <1>3, <2>1, FS_EmptySet
  <2>3. QED
    BY <1>1, <1>3, <2>2
<1>5. ASSUME NEW i \in 1..n, NEW j \in 1..n, ms[i].at < ms[j].at PROVE rank[i] # rank[j]
  <2>1. Upto(i) \subseteq Upto(j) /\ j \in Upto(j) /\ j \notin Upto(i)
    BY <1>1, <1>5
  <2>2. Upto(i) \in SUBSET Upto(j) /\ Upto(i) # Upto(j)
    BY <2>1
  <2>3. IsFiniteSet(Upto(j))
    BY <1>3
  <2>4. rank[i] = Cardinality(Upto(i)) /\ rank[j] = Cardinality(Upto(j))
    OBVIOUS
  <2> HIDE DEF Upto, rank
  <2>5. Cardinality(Upto(i)) # Cardinality(Upto(j))
    BY <2>2, <2>3, FS_Subset
  <2>6. QED
    BY <2>4, <2>5
<1>6. \A i, j \in 1..n : rank[i] = rank[j] => i = j
  <2> SUFFICES ASSUME NEW i \in 1..n, NEW j \in 1..n, i # j PROVE rank[i] # rank[j]
    OBVIOUS
  <2>1. ms[i].at # ms[j].at
    BY DEF Distinct
  <2> HIDE DEF rank
  <2>2. QED
    BY <1>1, <1>5, <2>1
<1>7. Ranked(ms) = [i \in 1..n |-> [ms[i] EXCEPT !.at = rank[i]]]
  BY DEF Ranked
<1> HIDE DEF Upto, rank, r
<1>8. \A i \in 1..n : r[i] = [ms[i] EXCEPT !.at = rank[i]]
  BY <1>7 DEF r
<1>9. \A i \in 1..n : Alike(ms[i], r[i]) /\ r[i].at = rank[i] /\ r[i] \in Message
  <2> SUFFICES ASSUME NEW i \in 1..n PROVE Alike(ms[i], r[i]) /\ r[i].at = rank[i] /\ r[i] \in Message
    OBVIOUS
  <2>1. rank[i] \in Nat
    BY <1>1, <1>4
  <2>2. Alike(ms[i], [ms[i] EXCEPT !.at = rank[i]]) /\ [ms[i] EXCEPT !.at = rank[i]].at = rank[i]
    BY <1>1, <2>1, Reranked
  <2>3. Alike(ms[i], r[i]) /\ r[i].at = rank[i]
    BY <1>8, <2>2
  <2>4. QED
    BY <2>3 DEF Alike
<1>10. r \in Seq(Message) /\ Len(r) = n
  <2>1. r \in [1..n -> Message]
    BY <1>7, <1>9 DEF r
  <2>2. QED
    BY <1>1, <2>1
<1>11. {r[i].at : i \in 1..n} = 1..n
  <2>1. {r[i].at : i \in 1..n} = {rank[i] : i \in 1..n}
    BY <1>9
  <2> DEFINE image == {rank[i] : i \in 1..n}
  <2>2. [i \in 1..n |-> rank[i]] \in Bijection(1..n, image)
    BY <1>6 DEF Bijection, Injection, Surjection, IsInjective
  <2>3. image \in SUBSET (1..n)
    BY <1>4
  <2> HIDE DEF image
  <2>4. ExistsBijection(1..n, image)
    BY <2>2 DEF ExistsBijection
  <2>5. Cardinality(image) = Cardinality(1..n)
    BY <1>2, <2>4, FS_Bijection
  <2>6. image = 1..n
    BY <1>2, <2>3, <2>5, FS_Subset
  <2>7. QED
    BY <2>1, <2>6 DEF image
<1>12. Distinct(r)
  BY <1>6, <1>9, <1>10 DEF Distinct
<1>13. QED
  BY <1>4, <1>9, <1>10, <1>11, <1>12 DEF r

(* The messages and their places.                                          *)
Arranged ==
    /\ messages \in Seq(Message)
    /\ Distinct(messages)
    /\ \A i \in Position : messages[i].at \in Position

Becomes(ms) ==
    /\ Len(messages') = Len(ms)
    /\ \A i \in 1..Len(ms) : Alike(ms[i], messages'[i])

InPlace == Arranged /\ {messages[i].at : i \in 1..Len(messages)} = 1..Len(messages)

Settled(ms) == InPlace' /\ Becomes(ms)

LEMMA ShownDistinct ==
    ASSUME NEW ms \in Seq(Message), Distinct(ms), Shown(ms)
    PROVE  Settled(ms)
<1>1. messages' = Ranked(ms)
  BY DEF Shown
<1>2. QED
  BY <1>1, RankedFacts DEF Settled, InPlace, Arranged, Becomes, Position

(* Handlers keep the places of what is there, move one message, or append. *)
Near(ms, c) ==
    \A i \in 1..Len(ms) : \/ i \in Position /\ ms[i].at = messages[i].at
                          \/ i = c /\ ms[i].at = Now

LEMMA ShownFacts ==
    ASSUME Arranged, NEW ms \in Seq(Message), Shown(ms), NEW c, Near(ms, c)
    PROVE  Settled(ms)
<1>1. Len(messages) \in Nat
  BY DEF Arranged
<1>2. \A i \in Position : messages[i].at # Now
  BY <1>1 DEF Arranged, Position, Now
<1>3. Distinct(ms)
  <2> SUFFICES ASSUME NEW i \in 1..Len(ms), NEW j \in 1..Len(ms), ms[i].at = ms[j].at
               PROVE  i = j
    BY DEF Distinct
  <2>1. CASE i \in Position /\ ms[i].at = messages[i].at /\ j \in Position /\ ms[j].at = messages[j].at
    BY <2>1 DEF Arranged, Distinct, Position
  <2>2. QED
    BY <1>2, <2>1 DEF Near
<1>4. QED
  BY <1>3, ShownDistinct

LEMMA Replaced ==
    ASSUME NEW ms \in Seq(Message), NEW i \in 1..Len(ms), NEW m \in Message
    PROVE  LET r == [ms EXCEPT ![i] = m]
           IN  /\ r \in Seq(Message) /\ Len(r) = Len(ms) /\ r[i] = m
               /\ \A j \in 1..Len(ms) : j # i => r[j] = ms[j]
OBVIOUS

LEMMA Extended ==
    ASSUME NEW ms \in Seq(Message), NEW m \in Message
    PROVE  LET r == Append(ms, m)
           IN  /\ r \in Seq(Message) /\ Len(r) = Len(ms) + 1 /\ r[Len(ms) + 1] = m
               /\ Len(ms) \in Nat
               /\ \A j \in 1..Len(ms) : r[j] = ms[j]
OBVIOUS

(* The positions of the messages of one role, which other handlers leave.  *)
At(role) == {i \in Position : messages[i].role = role}

Same(role) ==
    /\ At(role)' = At(role)
    /\ \A i \in At(role) : Alike(messages[i], messages'[i])

LEMMA AlikeItself ==
    ASSUME NEW m \in Message
    PROVE  Alike(m, m)
BY DEF Alike

(* One message changes, within its role.                                   *)
LEMMA Moved ==
    ASSUME Arranged, NEW i \in Position, NEW m \in Message, m.role = messages[i].role,
           m.at \in {messages[i].at, Now}, Shown([messages EXCEPT ![i] = m])
    PROVE  /\ Settled([messages EXCEPT ![i] = m])
           /\ Alike(m, messages'[i])
           /\ \A role : At(role)' = At(role)
           /\ \A j \in Position : j # i => Alike(messages[j], messages'[j])
<1> DEFINE ms == [messages EXCEPT ![i] = m]
<1>1. /\ ms \in Seq(Message) /\ Len(ms) = Len(messages) /\ ms[i] = m
      /\ \A j \in Position : j # i => ms[j] = messages[j]
  BY Replaced DEF Arranged, Position
<1> HIDE DEF ms
<1>2. Settled(ms)
  <2>1. Near(ms, i)
    BY <1>1 DEF Position, Near
  <2>2. Shown(ms)
    BY DEF ms
  <2>3. QED
    BY <1>1, <2>1, <2>2, ShownFacts
<1>3. Len(messages') = Len(messages) /\ \A j \in Position : Alike(ms[j], messages'[j])
  BY <1>1, <1>2 DEF Settled, Becomes, Position
<1>4. \A j \in Position : messages'[j].role = messages[j].role
  BY <1>1, <1>3 DEF Alike
<1>5. QED
  BY <1>1, <1>2, <1>3, <1>4 DEF At, Position, ms

(* One message is appended to what becomes of the others.                  *)
LEMMA Added ==
    ASSUME Arranged, NEW ms \in Seq(Message), Len(ms) = Len(messages),
           \A j \in Position : ms[j].at = messages[j].at /\ ms[j].role = messages[j].role,
           NEW m \in Message, m.at = Now, Shown(Append(ms, m))
    PROVE  /\ Settled(Append(ms, m))
           /\ Len(messages) + 1 \in Nat /\ Len(messages) + 1 \notin Position
           /\ Alike(m, messages'[Len(messages) + 1])
           /\ \A role : At(role)' =
                 IF m.role = role THEN At(role) \cup {Len(messages) + 1} ELSE At(role)
           /\ \A j \in Position : Alike(ms[j], messages'[j])
<1> DEFINE n == Len(messages)
           r == Append(ms, m)
<1>1. /\ r \in Seq(Message) /\ Len(r) = n + 1 /\ r[n + 1] = m /\ n \in Nat
      /\ \A j \in Position : r[j] = ms[j]
  BY Extended DEF Position
<1> HIDE DEF r
<1>2. \A j \in 1..n + 1 : j \in Position \/ j = n + 1
  BY <1>1 DEF Position
<1>3. Settled(r)
  <2>1. Near(r, n + 1)
    BY <1>1, <1>2 DEF Near
  <2>2. Shown(r)
    BY DEF r
  <2>3. QED
    BY <1>1, <2>1, <2>2, ShownFacts
<1>4. Len(messages') = n + 1 /\ Alike(m, messages'[n + 1])
      /\ \A j \in Position : Alike(ms[j], messages'[j])
  <2>1. Len(messages') = n + 1 /\ \A j \in 1..n + 1 : Alike(r[j], messages'[j])
    BY <1>1, <1>3 DEF Settled, Becomes
  <2>2. n + 1 \in 1..n + 1 /\ \A j \in Position : j \in 1..n + 1
    BY <1>1 DEF Position
  <2>3. QED
    BY <1>1, <2>1, <2>2
<1>5. /\ \A j \in Position : messages'[j].role = messages[j].role
      /\ messages'[n + 1].role = m.role
  BY <1>4 DEF Alike
<1>6. n + 1 \notin Position /\ \A j : j \in Position' <=> j \in Position \/ j = n + 1
  BY <1>1, <1>4 DEF Position
<1>7. \A role : At(role)' = IF m.role = role THEN At(role) \cup {n + 1} ELSE At(role)
  BY <1>5, <1>6 DEF At
<1>8. QED
  BY <1>1, <1>3, <1>4, <1>6, <1>7 DEF r

(* Every message changes within its role, or none does.                    *)
LEMMA Changed ==
    ASSUME Arranged, NEW ms \in Seq(Message), Len(ms) = Len(messages), Shown(ms),
           \A j \in Position : ms[j].at = messages[j].at
    PROVE  /\ Settled(ms)
           /\ Position' = Position
           /\ \A j \in Position : Alike(ms[j], messages'[j])
<1>1. Near(ms, 0)
  BY DEF Position, Near
<1>2. Settled(ms)
  BY <1>1, ShownFacts
<1>3. QED
  BY <1>2 DEF Settled, Becomes, Position
-----------------------------------------------------------------------------
(* The lookups.                                                            *)
LEMMA FirstOf ==
    ASSUME NEW n \in Nat, NEW S, S \subseteq 1..n, S # {}
    PROVE  Min(S) \in S /\ \A x \in S : Min(S) <= x
<1>1. S \in SUBSET Nat
  OBVIOUS
<1>2. \E x \in S : \A y \in S : x <= y
  BY <1>1, LeastNat
<1>3. QED
  BY <1>2 DEF Min

LEMMA LastOf ==
    ASSUME NEW n \in Nat, NEW S, S \subseteq 1..n, S # {}
    PROVE  Max(S) \in S
<1> DEFINE R == {n - x : x \in S}
<1>1. R \in SUBSET Nat /\ R # {}
  <2>1. \A x \in S : n - x \in Nat
    OBVIOUS
  <2>2. QED
    BY <2>1
<1>2. PICK y \in R : \A z \in R : y <= z
  <2> HIDE DEF R
  <2>1. QED
    BY <1>1, LeastNat
<1>3. PICK x \in S : y = n - x
  OBVIOUS
<1>4. \A z \in S : x >= z
  <2> SUFFICES ASSUME NEW z \in S PROVE x >= z
    OBVIOUS
  <2>1. n - x <= n - z
    BY <1>2, <1>3
  <2>2. x \in 1..n /\ z \in 1..n
    OBVIOUS
  <2>3. QED
    BY <2>1, <2>2
<1>5. \E m \in S : \A z \in S : m >= z
  BY <1>4
<1>6. QED
  BY <1>5 DEF Max

LEMMA FoundTool ==
    ASSUME NEW ms, Len(ms) \in Nat, NEW t
    PROVE  LET i == FindToolMessage(ms, t)
           IN  \/ i = 0 /\ \A j \in 1..Len(ms) : ~(ms[j].role = "tool" /\ ms[j].use = t)
               \/ i \in 1..Len(ms) /\ ms[i].role = "tool" /\ ms[i].use = t
<1> DEFINE I == {j \in 1..Len(ms) : ms[j].role = "tool" /\ ms[j].use = t}
<1>1. FindToolMessage(ms, t) = IF I # {} THEN Min(I) ELSE 0
  BY DEF FindToolMessage, SelectInSeq
<1>2. I # {} => Min(I) \in I
  BY FirstOf
<1>3. QED
  BY <1>1, <1>2

LEMMA FoundStreaming ==
    ASSUME NEW ms, Len(ms) \in Nat, NEW t
    PROVE  LET i == FindStreamingMessage(ms, t)
           IN  \/ i = 0 /\ \A j \in 1..Len(ms) : ~(ms[j].role = "assistant" /\ ms[j].streaming)
               \/ i \in 1..Len(ms) /\ ms[i].role = "assistant" /\ ms[i].streaming
<1> DEFINE I == {j \in 1..Len(ms) : ms[j].role = "assistant" /\ ms[j].turn = t /\ ms[j].streaming}
           J == {j \in 1..Len(ms) : ms[j].role = "assistant" /\ ms[j].streaming}
           first == IF I # {} THEN Min(I) ELSE 0
<1>1. FindStreamingMessage(ms, t) =
          IF first # 0 THEN first ELSE IF J # {} THEN Max(J) ELSE 0
  BY DEF FindStreamingMessage, SelectInSeq, SelectLastInSeq
<1>2. (I # {} => Min(I) \in I) /\ (J # {} => Max(J) \in J)
  BY FirstOf, LastOf
<1>3. QED
  BY <1>1, <1>2

LEMMA FoundAssistant ==
    ASSUME NEW ms, Len(ms) \in Nat, NEW t
    PROVE  LET i == FindAssistantMessage(ms, t)
               of(j) == ms[j].role = "assistant" /\ ms[j].turn = t
           IN  \/ i \in 1..Len(ms) /\ of(i) /\ \A j \in 1..Len(ms) : of(j) => i <= j
               \/ /\ \A j \in 1..Len(ms) : ~of(j)
                  /\ \/ i = 0 /\ \A j \in 1..Len(ms) : ~(ms[j].role = "assistant" /\ ms[j].streaming)
                     \/ i \in 1..Len(ms) /\ ms[i].role = "assistant" /\ ms[i].streaming
<1> DEFINE I == {j \in 1..Len(ms) : ms[j].role = "assistant" /\ ms[j].turn = t}
           J == {j \in 1..Len(ms) : ms[j].role = "assistant" /\ ms[j].streaming}
           first == IF I # {} THEN Min(I) ELSE 0
<1>1. FindAssistantMessage(ms, t) =
          IF first # 0 THEN first ELSE IF J # {} THEN Max(J) ELSE 0
  BY DEF FindAssistantMessage, SelectInSeq, SelectLastInSeq
<1>2. /\ I # {} => Min(I) \in I /\ \A j \in I : Min(I) <= j
      /\ J # {} => Max(J) \in J
  BY FirstOf, LastOf
<1>3. CASE I # {}
  <2>1. first = Min(I) /\ Min(I) \in I /\ Min(I) # 0
    BY <1>2, <1>3
  <2>2. FindAssistantMessage(ms, t) = Min(I)
    BY <1>1, <2>1
  <2>3. \A j \in I : Min(I) <= j
    BY <1>2, <1>3
  <2> HIDE DEF first
  <2>4. QED
    BY <2>1, <2>2, <2>3
<1>4. CASE I = {}
  BY <1>1, <1>2, <1>4
<1>5. QED
  BY <1>3, <1>4
-----------------------------------------------------------------------------
(* What becomes of the messages of each role.                              *)
OneOf(role, i) ==
    /\ At(role)' = At(role) \cup {i}
    /\ \A j \in At(role) : j # i => Alike(messages[j], messages'[j])

LEMMA Appends ==
    ASSUME Arranged, NEW m \in Message, m.at = Now, Shown(Append(messages, m))
    PROVE  /\ InPlace'
           /\ \A role : Len(messages) + 1 \notin At(role)
           /\ Alike(m, messages'[Len(messages) + 1])
           /\ OneOf(m.role, Len(messages) + 1)
           /\ \A role : role # m.role => Same(role)
<1>1. messages \in Seq(Message) /\ \A j \in Position : messages[j] \in Message
  BY DEF Arranged, Position
<1>2. /\ Settled(Append(messages, m))
      /\ Len(messages) + 1 \notin Position
      /\ Alike(m, messages'[Len(messages) + 1])
      /\ \A role : At(role)' =
            IF m.role = role THEN At(role) \cup {Len(messages) + 1} ELSE At(role)
      /\ \A j \in Position : Alike(messages[j], messages'[j])
  BY <1>1, Added
<1>3. \A role : \A j \in At(role) : j \in Position
  BY DEF At
<1>4. QED
  BY <1>2, <1>3 DEF Settled, OneOf, Same

LEMMA Replaces ==
    ASSUME Arranged, NEW i \in Position, NEW m \in Message, m.role = messages[i].role,
           m.at \in {messages[i].at, Now}, Shown([messages EXCEPT ![i] = m])
    PROVE  /\ InPlace'
           /\ Alike(m, messages'[i])
           /\ i \in At(m.role) /\ OneOf(m.role, i)
           /\ \A role : role # m.role => Same(role)
<1>1. /\ Settled([messages EXCEPT ![i] = m])
      /\ Alike(m, messages'[i])
      /\ \A role : At(role)' = At(role)
      /\ \A j \in Position : j # i => Alike(messages[j], messages'[j])
  BY Moved
<1>2. i \in At(m.role) /\ (\A role : \A j \in At(role) : j \in Position)
      /\ \A role : role # m.role => i \notin At(role)
  BY DEF At
<1>3. QED
  BY <1>1, <1>2 DEF Settled, OneOf, Same

LEMMA Leaves ==
    ASSUME Arranged, Shown(messages)
    PROVE  InPlace' /\ \A role : Same(role)
<1>1. /\ Settled(messages) /\ Position' = Position
      /\ \A j \in Position : Alike(messages[j], messages'[j])
  BY Changed DEF Arranged
<1>2. \A role : At(role)' = At(role)
  BY <1>1 DEF At, Alike
<1>3. QED
  BY <1>1, <1>2 DEF Settled, Same, At

LEMMA Maps ==
    ASSUME Arranged, NEW ms \in Seq(Message), Len(ms) = Len(messages), Shown(ms),
           \A j \in Position : ms[j].at = messages[j].at
    PROVE  /\ InPlace'
           /\ \A j \in Position : Alike(ms[j], messages'[j])
           /\ \A role : (\A j \in Position : ms[j].role = role <=> messages[j].role = role) =>
                 /\ At(role)' = At(role)
                 /\ (\A j \in At(role) : ms[j] = messages[j]) => Same(role)
<1>1. /\ Settled(ms) /\ Position' = Position
      /\ \A j \in Position : Alike(ms[j], messages'[j])
  BY Changed
<1>2. ASSUME NEW role, \A j \in Position : ms[j].role = role <=> messages[j].role = role
      PROVE  At(role)' = At(role)
  BY <1>1, <1>2 DEF At, Alike
<1>3. \A role : \A j \in At(role) : j \in Position
  BY DEF At
<1>4. QED
  BY <1>1, <1>2, <1>3 DEF Settled, Same

LEMMA MapsAndAppends ==
    ASSUME Arranged, NEW ms \in Seq(Message), Len(ms) = Len(messages),
           \A j \in Position : ms[j].at = messages[j].at /\ ms[j].role = messages[j].role,
           NEW m \in Message, m.at = Now, Shown(Append(ms, m))
    PROVE  /\ InPlace'
           /\ \A j \in Position : Alike(ms[j], messages'[j])
           /\ \A role : role # m.role =>
                 /\ At(role)' = At(role)
                 /\ (\A j \in At(role) : ms[j] = messages[j]) => Same(role)
           /\ Alike(m, messages'[Len(messages) + 1])
           /\ Len(messages) + 1 \notin At(m.role)
           /\ At(m.role)' = At(m.role) \cup {Len(messages) + 1}
<1>1. /\ Settled(Append(ms, m))
      /\ Len(messages) + 1 \notin Position
      /\ Alike(m, messages'[Len(messages) + 1])
      /\ \A role : At(role)' =
            IF m.role = role THEN At(role) \cup {Len(messages) + 1} ELSE At(role)
      /\ \A j \in Position : Alike(ms[j], messages'[j])
  BY Added
<1>2. \A role : \A j \in At(role) : j \in Position
  BY DEF At
<1>3. QED
  BY <1>1, <1>2 DEF Settled, Same
-----------------------------------------------------------------------------
(* The handlers.                                                           *)
LEMMA Basics ==
    ASSUME Arranged
    PROVE  /\ messages \in Seq(Message) /\ Len(messages) \in Nat /\ Now \in Nat
           /\ \A i \in Position : messages[i] \in Message
           /\ \A role : At(role) \subseteq Position
BY DEF Arranged, Position, Now, At

LEMMA UserMessageEffect ==
    ASSUME Arranged, NEW id \in User \cup (1..MaxTurn), NEW status, UserMessage(id, status)
    PROVE  /\ InPlace' /\ Same("assistant") /\ Same("tool")
           /\ \E i : /\ OneOf("user", i)
                     /\ IF i \in At("user")
                        THEN messages'[i].id = messages[i].id /\ Stands(messages[i].id, id)
                        ELSE /\ messages'[i].id = id
                             /\ \A j \in At("user") : ~Stands(messages[j].id, id)
                     /\ messages'[i].queued =
                           (status = "queued" /\ (i \in At("user") => messages[i].queued))
<1> DEFINE I == {j \in 1..Len(messages) : messages[j].role = "user" /\ Stands(messages[j].id, id)}
           i == IF I # {} THEN Min(I) ELSE 0
           bubble == [role |-> "user", at |-> Now, id |-> id, queued |-> status = "queued"]
<1>1. Shown(IF i = 0 THEN Append(messages, bubble)
            ELSE IF status = "queued" /\ ~messages[i].queued THEN messages
            ELSE [messages EXCEPT ![i].queued = status = "queued"])
  BY DEF UserMessage, SelectInSeq
<1>2. I # {} => Min(I) \in I
  BY Basics, FirstOf
<1>3. CASE I = {}
  <2>1. bubble \in Message /\ bubble.at = Now /\ bubble.role = "user"
    BY Basics DEF Message, Bubbles
  <2>2. \A j \in At("user") : ~Stands(messages[j].id, id)
    BY <1>3 DEF At, Position
  <2>3. bubble.id = id /\ bubble.queued = (status = "queued")
    OBVIOUS
  <2>4. Shown(Append(messages, bubble))
    BY <1>1, <1>3
  <2> HIDE DEF bubble
  <2>5. /\ InPlace' /\ Len(messages) + 1 \notin At("user")
        /\ Alike(bubble, messages'[Len(messages) + 1])
        /\ OneOf("user", Len(messages) + 1) /\ Same("assistant") /\ Same("tool")
    BY <2>1, <2>4, Appends
  <2>6. QED
    BY <2>1, <2>2, <2>3, <2>5 DEF Alike
<1>4. CASE I # {}
  <2>1. i \in Position /\ messages[i].role = "user" /\ Stands(messages[i].id, id) /\ i # 0
    BY <1>2, <1>4, Basics DEF Position
  <2>2. i \in At("user") /\ messages[i] \in Bubbles
    BY <2>1, Basics, Roles DEF At
  <2> HIDE DEF i, I
  <2>3. CASE status = "queued" /\ ~messages[i].queued
    <3>1. Shown(messages)
      BY <1>1, <2>1, <2>3
    <3>2. InPlace' /\ Same("assistant") /\ Same("tool") /\ Same("user")
      BY <3>1, Leaves
    <3>3. OneOf("user", i) /\ Alike(messages[i], messages'[i])
      BY <2>2, <3>2 DEF Same, OneOf
    <3>4. messages'[i].id = messages[i].id /\ messages'[i].queued = messages[i].queued
      BY <2>1, <3>3 DEF Alike
    <3>5. messages[i].queued = FALSE
      BY <2>2, <2>3 DEF Bubbles
    <3>6. messages'[i].queued = (status = "queued" /\ (i \in At("user") => messages[i].queued))
      BY <2>2, <3>4, <3>5
    <3>7. QED
      BY <2>1, <2>2, <3>2, <3>3, <3>4, <3>6
  <2>4. CASE ~(status = "queued" /\ ~messages[i].queued)
    <3> DEFINE m == [messages[i] EXCEPT !.queued = status = "queued"]
    <3>1. m \in Message /\ m.role = "user" /\ m.at = messages[i].at /\ m.id = messages[i].id
          /\ m.queued = (status = "queued")
      BY <2>1, <2>2 DEF Message, Bubbles
    <3>2. [messages EXCEPT ![i].queued = status = "queued"] = [messages EXCEPT ![i] = m]
      OBVIOUS
    <3>3. Shown([messages EXCEPT ![i] = m])
      BY <1>1, <2>1, <2>4, <3>2
    <3> HIDE DEF m
    <3>4. /\ InPlace' /\ Alike(m, messages'[i]) /\ OneOf("user", i)
          /\ Same("assistant") /\ Same("tool")
      BY <2>1, <3>1, <3>3, Replaces
    <3>5. messages'[i].id = messages[i].id /\ messages'[i].queued = (status = "queued")
      BY <3>1, <3>4 DEF Alike
    <3>6. messages'[i].queued = (status = "queued" /\ (i \in At("user") => messages[i].queued))
      BY <2>2, <2>4, <3>5 DEF Bubbles
    <3>7. QED
      BY <2>1, <2>2, <3>4, <3>5, <3>6
  <2>5. QED
    BY <2>3, <2>4
<1>5. QED
  BY <1>3, <1>4

(* One call changes or comes; the others stay.                             *)
CallOf(t, i) ==
    /\ InPlace' /\ Same("assistant") /\ Same("user")
    /\ OneOf("tool", i)
    /\ messages'[i].use = t
    /\ IF i \in At("tool") THEN messages[i].use = t ELSE \A j \in At("tool") : messages[j].use # t

LEMMA NewCall ==
    ASSUME Arranged, turn \in 1..MaxTurn, NEW t \in Tool,
           NEW status \in {"executing", "backgrounded", "ended"}, NEW shown \in BOOLEAN,
           \A j \in 1..Len(messages) : ~(messages[j].role = "tool" /\ messages[j].use = t),
           Shown(Append(messages, ToolMessage(t, status, shown)))
    PROVE  /\ CallOf(t, Len(messages) + 1)
           /\ Len(messages) + 1 \notin At("tool")
           /\ messages'[Len(messages) + 1].status = status
           /\ messages'[Len(messages) + 1].shown = shown
           /\ messages'[Len(messages) + 1].background = "no"
<1> DEFINE m == ToolMessage(t, status, shown)
<1>1. m \in Message /\ m.at = Now /\ m.role = "tool" /\ m.use = t
      /\ m.status = status /\ m.shown = shown /\ m.background = "no"
  BY Basics DEF ToolMessage, Message, Calls
<1>2. \A j \in At("tool") : messages[j].use # t
  BY DEF At, Position
<1> HIDE DEF m
<1>3. /\ InPlace' /\ Len(messages) + 1 \notin At("tool")
      /\ Alike(m, messages'[Len(messages) + 1])
      /\ OneOf("tool", Len(messages) + 1) /\ Same("assistant") /\ Same("user")
  BY <1>1, Appends DEF m
<1>4. QED
  BY <1>1, <1>2, <1>3 DEF Alike, CallOf

LEMMA ChangedCall ==
    ASSUME Arranged, NEW i \in Position, messages[i].role = "tool",
           NEW m \in Calls, m.use = messages[i].use,
           m.at \in {messages[i].at, Now}, Shown([messages EXCEPT ![i] = m])
    PROVE  /\ CallOf(m.use, i) /\ i \in At("tool")
           /\ messages'[i].status = m.status
           /\ messages'[i].shown = m.shown
           /\ messages'[i].background = m.background
<1>1. m \in Message /\ m.role = "tool"
  BY DEF Message, Calls
<1>2. /\ InPlace' /\ Alike(m, messages'[i]) /\ i \in At("tool") /\ OneOf("tool", i)
      /\ Same("assistant") /\ Same("user")
  BY <1>1, Replaces
<1>3. QED
  BY <1>1, <1>2 DEF Alike, CallOf

LEMMA ToolStartEffect ==
    ASSUME Arranged, turn \in 1..MaxTurn, NEW t \in Tool, ToolStart(t)
    PROVE  \E i : /\ CallOf(t, i)
                  /\ IF i \in At("tool") THEN Alike(messages[i], messages'[i])
                     ELSE messages'[i].background = "no"
<1> DEFINE i == FindToolMessage(messages, t)
<1>1. \/ i = 0 /\ \A j \in 1..Len(messages) : ~(messages[j].role = "tool" /\ messages[j].use = t)
      \/ i \in 1..Len(messages) /\ messages[i].role = "tool" /\ messages[i].use = t
  BY Basics, FoundTool
<1>2. Shown(IF i # 0 THEN messages ELSE Append(messages, ToolMessage(t, "executing", FALSE)))
  BY DEF ToolStart
<1> HIDE DEF i
<1>3. CASE i = 0
  <2>1. \A j \in 1..Len(messages) : ~(messages[j].role = "tool" /\ messages[j].use = t)
    BY <1>1, <1>3
  <2>2. QED
    BY <1>2, <1>3, <2>1, NewCall
<1>4. CASE i # 0
  <2>1. i \in At("tool") /\ messages[i].use = t
    BY <1>1, <1>4 DEF At, Position
  <2>2. InPlace' /\ \A role : Same(role)
    BY <1>2, <1>4, Leaves
  <2>3. Alike(messages[i], messages'[i]) /\ OneOf("tool", i)
    BY <2>1, <2>2 DEF Same, OneOf
  <2>4. messages'[i].use = t
    BY <2>1, <2>3 DEF Alike, At
  <2>5. QED
    BY <2>1, <2>2, <2>3, <2>4 DEF CallOf
<1>5. QED
  BY <1>3, <1>4

LEMMA ToolDeltaEffect ==
    ASSUME Arranged, turn \in 1..MaxTurn, NEW t \in Tool, ToolDelta(t)
    PROVE  \E i : /\ CallOf(t, i)
                  /\ IF i \in At("tool")
                     THEN /\ messages'[i].status = messages[i].status
                          /\ messages'[i].background = messages[i].background
                     ELSE messages'[i].background = "no"
<1> DEFINE i == FindToolMessage(messages, t)
<1>1. \/ i = 0 /\ \A j \in 1..Len(messages) : ~(messages[j].role = "tool" /\ messages[j].use = t)
      \/ i \in 1..Len(messages) /\ messages[i].role = "tool" /\ messages[i].use = t
  BY Basics, FoundTool
<1>2. Shown(IF i # 0 THEN [messages EXCEPT ![i].shown = TRUE, ![i].at = Now]
            ELSE Append(messages, ToolMessage(t, "executing", TRUE)))
  BY DEF ToolDelta
<1> HIDE DEF i
<1>3. CASE i = 0
  <2>1. \A j \in 1..Len(messages) : ~(messages[j].role = "tool" /\ messages[j].use = t)
    BY <1>1, <1>3
  <2>2. QED
    BY <1>2, <1>3, <2>1, NewCall
<1>4. CASE i # 0
  <2>1. i \in Position /\ messages[i].role = "tool" /\ messages[i].use = t
    BY <1>1, <1>4 DEF Position
  <2>2. messages[i] \in Calls /\ Now \in Nat /\ DOMAIN messages = Position
    BY <2>1, Basics, Roles DEF Position
  <2> DEFINE m == [messages[i] EXCEPT !.shown = TRUE, !.at = Now]
  <2>3. m \in Calls /\ m.use = t /\ m.at = Now /\ m.status = messages[i].status
        /\ m.background = messages[i].background
    BY <2>1, <2>2 DEF Calls
  <2>4. [messages EXCEPT ![i].shown = TRUE, ![i].at = Now] = [messages EXCEPT ![i] = m]
    BY <2>1, <2>2
  <2>5. Shown([messages EXCEPT ![i] = m])
    BY <1>2, <1>4, <2>4
  <2> HIDE DEF m
  <2>6. /\ CallOf(m.use, i) /\ i \in At("tool")
        /\ messages'[i].status = m.status /\ messages'[i].background = m.background
    BY <2>1, <2>3, <2>5, ChangedCall
  <2>7. QED
    BY <2>3, <2>6
<1>5. QED
  BY <1>3, <1>4

(* A result changes one call, and ends others if they are orphaned.        *)
LEMMA ToolResultEffect ==
    ASSUME Arranged, turn \in 1..MaxTurn, NEW t \in Tool, ToolResult(t)
    PROVE  /\ InPlace' /\ Same("assistant") /\ Same("user")
           /\ \E i :
                 /\ At("tool")' = At("tool") \cup {i}
                 /\ messages'[i].use = t
                 /\ messages'[i].background # "no" \/ messages'[i].status = "ended"
                 /\ IF i \in At("tool")
                    THEN messages[i].use = t /\ messages'[i].background = messages[i].background
                    ELSE /\ messages'[i].background = "no"
                         /\ \A j \in At("tool") : messages[j].use # t
                 /\ \A j \in At("tool") : j # i =>
                       /\ messages'[j].use = messages[j].use
                       /\ messages'[j].background = messages[j].background
                       /\ messages'[j].status \in {messages[j].status, "ended"}
<1> DEFINE i == FindToolMessage(messages, t)
           status == IF messages[i].background # "no" THEN "backgrounded" ELSE "ended"
           resulted == [messages EXCEPT ![i].shown = TRUE, ![i].status = status]
           ms == [j \in 1..Len(messages) |->
                     IF Orphaned(resulted, t, j)
                     THEN [resulted[j] EXCEPT !.status = "ended", !.shown = TRUE]
                     ELSE resulted[j]]
<1>1. \/ i = 0 /\ \A j \in 1..Len(messages) : ~(messages[j].role = "tool" /\ messages[j].use = t)
      \/ i \in 1..Len(messages) /\ messages[i].role = "tool" /\ messages[i].use = t
  BY Basics, FoundTool
<1>2. /\ i = 0 => Shown(Append(messages, ToolMessage(t, "ended", TRUE)))
      /\ i # 0 => Shown(ms)
  BY DEF ToolResult
<1> HIDE DEF i
<1>3. CASE i = 0
  <2>1. \A j \in 1..Len(messages) : ~(messages[j].role = "tool" /\ messages[j].use = t)
    BY <1>1, <1>3
  <2>2. PICK k : k = Len(messages) + 1
    OBVIOUS
  <2>3. /\ CallOf(t, k) /\ k \notin At("tool")
        /\ messages'[k].status = "ended" /\ messages'[k].background = "no"
    BY <1>2, <1>3, <2>1, <2>2, NewCall
  <2>4. \A j \in At("tool") : j # k =>
            /\ messages'[j].use = messages[j].use
            /\ messages'[j].background = messages[j].background
            /\ messages'[j].status = messages[j].status
    BY <2>3 DEF CallOf, OneOf, Alike, At
  <2>5. QED
    BY <2>3, <2>4 DEF CallOf, OneOf
<1>4. CASE i # 0
  <2>1. i \in Position /\ messages[i].role = "tool" /\ messages[i].use = t
    BY <1>1, <1>4 DEF Position
  <2>2. /\ messages \in Seq(Message) /\ Len(messages) \in Nat /\ DOMAIN messages = Position
        /\ \A j \in Position : messages[j] \in Message
    BY Basics DEF Position
  <2>3. messages[i] \in Calls /\ status \in {"backgrounded", "ended"}
    BY <2>1, <2>2, Roles
  <2> HIDE DEF status
  <2>4. /\ resulted[i] = [messages[i] EXCEPT !.shown = TRUE, !.status = status]
        /\ \A j \in Position : j # i => resulted[j] = messages[j]
    BY <2>1, <2>2
  <2>5. /\ resulted[i] \in Calls /\ resulted[i].use = t /\ resulted[i].status = status
        /\ resulted[i].at = messages[i].at /\ resulted[i].background = messages[i].background
        /\ resulted[i].role = "tool"
    <3> DEFINE m == [messages[i] EXCEPT !.shown = TRUE, !.status = status]
    <3> HIDE DEF resulted
    <3>1. m \in Calls /\ m.use = messages[i].use /\ m.status = status /\ m.at = messages[i].at
          /\ m.background = messages[i].background /\ m.role = "tool"
      BY <2>3 DEF Calls
    <3>2. resulted[i] = m
      BY <2>4
    <3> HIDE DEF m
    <3>3. QED
      BY <2>1, <3>1, <3>2
  <2> HIDE DEF resulted
  <2>6. ms[i] = resulted[i]
    BY <2>1, <2>5 DEF Orphaned, Position
  <2>7. ASSUME NEW j \in Position, j # i
        PROVE  \/ ms[j] = messages[j]
               \/ messages[j] \in Calls
                  /\ ms[j] = [messages[j] EXCEPT !.status = "ended", !.shown = TRUE]
    <3>1. resulted[j] = messages[j] /\ messages[j] \in Message /\ j \in 1..Len(messages)
      BY <2>2, <2>4, <2>7 DEF Position
    <3>2. CASE Orphaned(resulted, t, j)
      <4>1. messages[j] \in Calls
        BY <3>1, <3>2, Roles DEF Orphaned
      <4>2. QED
        BY <3>1, <3>2, <4>1
    <3>3. CASE ~Orphaned(resulted, t, j)
      BY <3>1, <3>3
    <3>4. QED
      BY <3>2, <3>3
  <2>8. ASSUME NEW j \in Position, j # i
        PROVE  /\ ms[j] \in Message /\ ms[j].at = messages[j].at /\ ms[j].role = messages[j].role
               /\ messages[j].role # "tool" => ms[j] = messages[j]
               /\ messages[j].role = "tool" =>
                     /\ ms[j].use = messages[j].use
                     /\ ms[j].background = messages[j].background
                     /\ ms[j].status \in {messages[j].status, "ended"}
    <3>1. CASE ms[j] = messages[j]
      BY <2>2, <3>1
    <3>2. CASE messages[j] \in Calls
               /\ ms[j] = [messages[j] EXCEPT !.status = "ended", !.shown = TRUE]
      <4>1. /\ ms[j] \in Calls /\ ms[j].at = messages[j].at /\ ms[j].use = messages[j].use
            /\ ms[j].background = messages[j].background /\ ms[j].status = "ended"
            /\ ms[j].role = "tool" /\ messages[j].role = "tool"
        <5> HIDE DEF ms
        <5>1. QED
          BY <3>2 DEF Calls
      <4> HIDE DEF ms
      <4>2. QED
        BY <4>1 DEF Message
    <3> HIDE DEF ms
    <3>3. QED
      BY <2>7, <2>8, <3>1, <3>2
  <2>9. \A j \in Position : ms[j] \in Message /\ ms[j].at = messages[j].at /\ ms[j].role = messages[j].role
    <3> HIDE DEF ms
    <3>1. QED
      BY <2>1, <2>5, <2>6, <2>8 DEF Message
  <2>10. ms \in Seq(Message) /\ Len(ms) = Len(messages)
    <3>1. ms = [j \in 1..Len(messages) |-> ms[j]]
      OBVIOUS
    <3> HIDE DEF ms
    <3>2. ms \in [1..Len(messages) -> Message]
      BY <2>9, <3>1 DEF Position
    <3>3. QED
      BY <2>2, <3>2
  <2> HIDE DEF ms
  <2>11. /\ InPlace'
         /\ \A j \in Position : Alike(ms[j], messages'[j])
         /\ \A role : (\A j \in Position : ms[j].role = role <=> messages[j].role = role) =>
               /\ At(role)' = At(role)
               /\ (\A j \in At(role) : ms[j] = messages[j]) => Same(role)
    BY <1>2, <1>4, <2>9, <2>10, Maps
  <2>12. \A role : role # "tool" => \A j \in At(role) : ms[j] = messages[j]
    BY <2>1, <2>8 DEF At
  <2>13. At("tool")' = At("tool") /\ Same("assistant") /\ Same("user")
    BY <2>9, <2>11, <2>12
  <2>14. i \in At("tool") /\ \A j \in At("tool") : j \in Position /\ messages[j].role = "tool"
    BY <2>1 DEF At
  <2>15. /\ messages'[i].use = t /\ messages'[i].background = messages[i].background
         /\ messages'[i].status = status
    BY <2>1, <2>5, <2>6, <2>11 DEF Alike
  <2>16. \A j \in At("tool") : j # i =>
            /\ messages'[j].use = messages[j].use
            /\ messages'[j].background = messages[j].background
            /\ messages'[j].status \in {messages[j].status, "ended"}
    <3> SUFFICES ASSUME NEW j \in At("tool"), j # i
                 PROVE  /\ messages'[j].use = messages[j].use
                        /\ messages'[j].background = messages[j].background
                        /\ messages'[j].status \in {messages[j].status, "ended"}
      OBVIOUS
    <3>1. Alike(ms[j], messages'[j]) /\ ms[j].role = "tool"
      BY <2>9, <2>11, <2>14
    <3>2. QED
      BY <2>8, <2>14, <3>1 DEF Alike
  <2>17. QED
    BY <2>1, <2>11, <2>13, <2>14, <2>15, <2>16 DEF status
<1>5. QED
  BY <1>3, <1>4

LEMMA BackgroundedEffect ==
    ASSUME Arranged, NEW t \in Tool, NEW background \in {"task", "shell"}, Backgrounded(t, background),
           \E j \in At("tool") : messages[j].use = t
    PROVE  \E i \in At("tool") :
               /\ CallOf(t, i)
               /\ messages'[i].status = "backgrounded" /\ messages'[i].background = background
<1> DEFINE i == FindToolMessage(messages, t)
<1>1. i \in 1..Len(messages) /\ messages[i].role = "tool" /\ messages[i].use = t /\ i # 0
  <2>1. \/ i = 0 /\ \A j \in 1..Len(messages) : ~(messages[j].role = "tool" /\ messages[j].use = t)
        \/ i \in 1..Len(messages) /\ messages[i].role = "tool" /\ messages[i].use = t
    BY Basics, FoundTool
  <2> HIDE DEF i
  <2>2. QED
    BY <2>1, Basics DEF At, Position
<1>2. Shown(IF i = 0 THEN messages
            ELSE [messages EXCEPT ![i].status = "backgrounded", ![i].background = background])
  BY DEF Backgrounded
<1> HIDE DEF i
<1>3. i \in Position /\ messages[i] \in Calls /\ DOMAIN messages = Position
  BY <1>1, Basics, Roles DEF Position
<1> DEFINE m == [messages[i] EXCEPT !.status = "backgrounded", !.background = background]
<1>4. m \in Calls /\ m.use = t /\ m.at = messages[i].at /\ m.status = "backgrounded"
      /\ m.background = background
  BY <1>1, <1>3 DEF Calls
<1>5. [messages EXCEPT ![i].status = "backgrounded", ![i].background = background]
        = [messages EXCEPT ![i] = m]
  BY <1>3
<1>6. Shown([messages EXCEPT ![i] = m])
  BY <1>1, <1>2, <1>5
<1> HIDE DEF m
<1>7. /\ CallOf(m.use, i) /\ i \in At("tool")
      /\ messages'[i].status = m.status /\ messages'[i].background = m.background
  <2>1. /\ i \in Position /\ messages[i].role = "tool" /\ m \in Calls
        /\ m.use = messages[i].use /\ m.at \in {messages[i].at, Now}
    BY <1>1, <1>3, <1>4
  <2>2. QED
    BY <1>6, <2>1, ChangedCall
<1>8. QED
  BY <1>4, <1>7

LEMMA TaskCompletedEffect ==
    ASSUME Arranged, NEW t \in Tool, TaskCompleted(t),
           \E j \in At("tool") : messages[j].use = t
    PROVE  \E i \in At("tool") :
               /\ CallOf(t, i)
               /\ messages'[i].background = messages[i].background
               /\ IF messages[i].background = "task" THEN messages'[i].status = "ended"
                  ELSE Alike(messages[i], messages'[i])
<1> DEFINE i == FindToolMessage(messages, t)
<1>1. i \in 1..Len(messages) /\ messages[i].role = "tool" /\ messages[i].use = t /\ i # 0
  <2>1. \/ i = 0 /\ \A j \in 1..Len(messages) : ~(messages[j].role = "tool" /\ messages[j].use = t)
        \/ i \in 1..Len(messages) /\ messages[i].role = "tool" /\ messages[i].use = t
    BY Basics, FoundTool
  <2> HIDE DEF i
  <2>2. QED
    BY <2>1, Basics DEF At, Position
<1>2. Shown(IF i # 0 /\ messages[i].background = "task"
            THEN [messages EXCEPT ![i].status = "ended", ![i].shown = TRUE] ELSE messages)
  BY DEF TaskCompleted
<1> HIDE DEF i
<1>3. i \in Position /\ messages[i] \in Calls /\ DOMAIN messages = Position /\ i \in At("tool")
  BY <1>1, Basics, Roles DEF Position, At
<1>4. CASE messages[i].background = "task"
  <2> DEFINE m == [messages[i] EXCEPT !.status = "ended", !.shown = TRUE]
  <2>1. m \in Calls /\ m.use = t /\ m.at = messages[i].at /\ m.status = "ended"
        /\ m.background = messages[i].background
    BY <1>1, <1>3 DEF Calls
  <2>2. [messages EXCEPT ![i].status = "ended", ![i].shown = TRUE] = [messages EXCEPT ![i] = m]
    BY <1>3
  <2>3. Shown([messages EXCEPT ![i] = m])
    BY <1>1, <1>2, <1>4, <2>2
  <2> HIDE DEF m
  <2>4. /\ CallOf(m.use, i) /\ i \in At("tool")
        /\ messages'[i].status = m.status /\ messages'[i].background = m.background
    <3>1. /\ messages[i].role = "tool" /\ m \in Calls /\ m.use = messages[i].use
          /\ m.at \in {messages[i].at, Now} /\ i \in Position
      BY <1>1, <1>3, <2>1
    <3>2. QED
      BY <2>3, <3>1, ChangedCall
  <2>5. QED
    BY <1>4, <2>1, <2>4
<1>5. CASE messages[i].background # "task"
  <2>1. InPlace' /\ \A role : Same(role)
    BY <1>2, <1>5, Leaves
  <2>2. Alike(messages[i], messages'[i]) /\ OneOf("tool", i)
    BY <1>3, <2>1 DEF Same, OneOf
  <2>3. messages'[i].use = t /\ messages'[i].background = messages[i].background
    BY <1>1, <2>2 DEF Alike
  <2>4. QED
    BY <1>1, <1>3, <1>5, <2>1, <2>2, <2>3 DEF CallOf
<1>6. QED
  BY <1>4, <1>5

(* The places, whether there is a call or not.                             *)
LEMMA BackgroundedPlaces ==
    ASSUME Arranged, NEW t \in Tool, \E background \in {"task", "shell"} : Backgrounded(t, background)
    PROVE  InPlace' /\ Same("assistant") /\ Same("user")
<1>1. PICK background \in {"task", "shell"} : Backgrounded(t, background)
  OBVIOUS
<1>2. CASE \E j \in At("tool") : messages[j].use = t
  BY <1>1, <1>2, BackgroundedEffect DEF CallOf
<1>3. CASE ~\E j \in At("tool") : messages[j].use = t
  <2>1. FindToolMessage(messages, t) = 0
    BY <1>3, Basics, FoundTool DEF At, Position
  <2>2. Shown(messages)
    BY <1>1, <2>1 DEF Backgrounded
  <2>3. QED
    BY <2>2, Leaves
<1>4. QED
  BY <1>2, <1>3

LEMMA TaskCompletedPlaces ==
    ASSUME Arranged, NEW t \in Tool, TaskCompleted(t)
    PROVE  InPlace' /\ Same("assistant") /\ Same("user")
<1>1. CASE \E j \in At("tool") : messages[j].use = t
  BY <1>1, TaskCompletedEffect DEF CallOf
<1>2. CASE ~\E j \in At("tool") : messages[j].use = t
  <2>1. FindToolMessage(messages, t) = 0
    BY <1>2, Basics, FoundTool DEF At, Position
  <2>2. Shown(messages)
    BY <2>1 DEF TaskCompleted
  <2>3. QED
    BY <2>2, Leaves
<1>3. QED
  BY <1>1, <1>2
-----------------------------------------------------------------------------
(* Text.                                                                   *)
Fields(m, t, text, streams, pending, intermediate) ==
    /\ m.turn = t /\ m.text = text
    /\ m.streaming = streams /\ m.pending = pending /\ m.intermediate = intermediate

(* The message at n is the new last one.                                   *)
NewText(n) ==
    /\ At("assistant")' = At("assistant") \cup {n}
    /\ \A j \in At("assistant") : j < n

LEMMA BeforeTheNew ==
    ASSUME Arranged
    PROVE  \A role : \A j \in At(role) : j < Len(messages) + 1 /\ j # Len(messages) + 1
BY Basics DEF Position

LEMMA TextDeltaEffect ==
    ASSUME Arranged, NEW t \in 1..MaxTurn, NEW delta \in SUBSET Block, NEW thinks \in BOOLEAN,
           TextDelta(t, delta, thinks), streaming \in SUBSET Block
    PROVE  LET s == FindStreamingMessage(messages, t)
           IN  /\ InPlace' /\ Same("tool") /\ Same("user") /\ streaming' \in SUBSET Block
               /\ s = 0 \/ (messages[s].intermediate /\ ~thinks) =>
                     /\ streaming' = IF s = 0 THEN streaming \cup delta ELSE delta
                     /\ NewText(Len(messages) + 1)
                     /\ Fields(messages'[Len(messages) + 1], t, delta, TRUE, TRUE, thinks)
                     /\ \A j \in At("assistant") :
                           Fields(messages'[j], messages[j].turn, messages[j].text,
                                  IF j = s THEN FALSE ELSE messages[j].streaming,
                                  messages[j].pending, messages[j].intermediate)
<1> DEFINE s == FindStreamingMessage(messages, t)
           n == Len(messages) + 1
           m == Streamed(t, delta, thinks)
<1>1. \/ s = 0
      \/ s \in Position /\ messages[s].role = "assistant"
  BY Basics, FoundStreaming DEF Position
<1>2. IF s = 0 THEN Shown(Append(messages, m)) /\ streaming' = streaming \cup delta
      ELSE IF messages[s].intermediate /\ ~thinks
      THEN Shown(Append([messages EXCEPT ![s].streaming = FALSE], Streamed(t, delta, FALSE)))
           /\ streaming' = delta
      ELSE Shown([messages EXCEPT ![s].text = @ \cup delta]) /\ streaming' = streaming \cup delta
  BY DEF TextDelta
<1>3. m \in Message /\ m.at = Now /\ m.role = "assistant" /\ Fields(m, t, delta, TRUE, TRUE, thinks)
  BY Basics DEF Streamed, Message, Assistants, Fields
<1>4. \A j \in At("assistant") : j < n /\ j \in Position
  BY BeforeTheNew, Basics
<1>5. \A j \in At("assistant") : messages[j].role = "assistant"
  BY DEF At
<1>6. streaming' \in SUBSET Block
  BY <1>2
<1>7. ~thinks => m = Streamed(t, delta, FALSE)
  OBVIOUS
<1> HIDE DEF s, m
<1>8. CASE s = 0
  <2>1. Shown(Append(messages, m)) /\ streaming' = streaming \cup delta
    BY <1>2, <1>8
  <2>2. /\ InPlace' /\ n \notin At("assistant") /\ Alike(m, messages'[n])
        /\ OneOf("assistant", n) /\ Same("tool") /\ Same("user")
    BY <1>3, <2>1, Appends
  <2>3. Fields(messages'[n], t, delta, TRUE, TRUE, thinks)
    BY <1>3, <2>2 DEF Alike, Fields
  <2>4. \A j \in At("assistant") :
            Fields(messages'[j], messages[j].turn, messages[j].text, messages[j].streaming,
                   messages[j].pending, messages[j].intermediate)
    BY <1>5, <2>2 DEF OneOf, Alike, Fields
  <2>5. s \notin At("assistant")
    BY <1>4, <1>8 DEF Position
  <2>6. QED
    BY <1>4, <1>6, <1>8, <2>1, <2>2, <2>3, <2>4, <2>5 DEF NewText, OneOf, s
<1>9. CASE s # 0 /\ messages[s].intermediate /\ ~thinks
  <2> DEFINE o == [messages[s] EXCEPT !.streaming = FALSE]
             ms == [messages EXCEPT ![s] = o]
  <2>1. s \in Position /\ messages[s] \in Assistants /\ DOMAIN messages = Position
    BY <1>1, <1>9, Basics, Roles DEF Position
  <2>2. /\ o \in Message /\ o.role = "assistant" /\ o.at = messages[s].at
        /\ Fields(o, messages[s].turn, messages[s].text, FALSE, messages[s].pending,
                  messages[s].intermediate)
    BY <2>1 DEF Message, Assistants, Fields
  <2>3. [messages EXCEPT ![s].streaming = FALSE] = ms
    OBVIOUS
  <2>4. Shown(Append(ms, m)) /\ streaming' = delta
    BY <1>2, <1>7, <1>9, <2>3
  <2> HIDE DEF o
  <2>5. /\ ms \in Seq(Message) /\ Len(ms) = Len(messages) /\ ms[s] = o
        /\ \A j \in Position : j # s => ms[j] = messages[j]
    BY <2>1, <2>2, Replaced, Basics DEF Position
  <2> HIDE DEF ms
  <2>6. messages[s].role = "assistant"
    BY <1>1, <1>9
  <2>7. \A j \in Position : ms[j].at = messages[j].at /\ ms[j].role = messages[j].role
    BY <2>2, <2>5, <2>6
  <2>8. /\ InPlace' /\ n \notin At("assistant") /\ Alike(m, messages'[n])
        /\ \A j \in Position : Alike(ms[j], messages'[j])
        /\ At("assistant")' = At("assistant") \cup {n}
        /\ \A role : role # "assistant" =>
              /\ At(role)' = At(role)
              /\ (\A j \in At(role) : ms[j] = messages[j]) => Same(role)
    BY <1>3, <2>4, <2>5, <2>7, MapsAndAppends
  <2>9. Same("tool") /\ Same("user")
    BY <2>5, <2>6, <2>8 DEF At
  <2>10. Fields(messages'[n], t, delta, TRUE, TRUE, thinks)
    BY <1>3, <2>8 DEF Alike, Fields
  <2>11. ASSUME NEW j \in At("assistant")
         PROVE  Fields(messages'[j], messages[j].turn, messages[j].text,
                       IF j = s THEN FALSE ELSE messages[j].streaming,
                       messages[j].pending, messages[j].intermediate)
    <3>1. j \in Position /\ ms[j].role = "assistant" /\ Alike(ms[j], messages'[j])
      BY <1>4, <1>5, <2>7, <2>8
    <3>2. CASE j = s
      BY <2>2, <2>5, <3>1, <3>2 DEF Alike, Fields
    <3>3. CASE j # s
      BY <2>5, <3>1, <3>3 DEF Alike, Fields
    <3>4. QED
      BY <3>2, <3>3
  <2>12. QED
    BY <1>4, <1>6, <1>9, <2>4, <2>8, <2>9, <2>10, <2>11 DEF NewText, s
<1>10. CASE s # 0 /\ ~(messages[s].intermediate /\ ~thinks)
  <2> DEFINE o == [messages[s] EXCEPT !.text = @ \cup delta]
  <2>1. s \in Position /\ messages[s] \in Assistants /\ DOMAIN messages = Position
    BY <1>1, <1>10, Basics, Roles DEF Position
  <2>2. o \in Message /\ o.role = "assistant" /\ o.at = messages[s].at
    BY <2>1 DEF Message, Assistants
  <2>3. [messages EXCEPT ![s].text = @ \cup delta] = [messages EXCEPT ![s] = o]
    OBVIOUS
  <2>4. Shown([messages EXCEPT ![s] = o])
    BY <1>2, <1>10, <2>3
  <2>5. messages[s].role = "assistant"
    BY <1>1, <1>10
  <2> HIDE DEF o
  <2>6. InPlace' /\ Same("tool") /\ Same("user")
    BY <2>1, <2>2, <2>4, <2>5, Replaces
  <2>7. QED
    BY <1>6, <1>10, <2>6 DEF s
<1>11. QED
  BY <1>8, <1>9, <1>10

LEMMA CompletedFound ==
    ASSUME NEW ms, Len(ms) \in Nat, NEW t, NEW thinks
    PROVE  LET i == CompletedMessage(ms, t, thinks)
           IN  i = 0 \/ (i \in 1..Len(ms) /\ ms[i].role = "assistant")
<1> DEFINE s == FindStreamingMessage(ms, t)
           a == FindAssistantMessage(ms, t)
<1>1. s = 0 \/ (s \in 1..Len(ms) /\ ms[s].role = "assistant")
  BY FoundStreaming
<1>2. a = 0 \/ (a \in 1..Len(ms) /\ ms[a].role = "assistant")
  BY FoundAssistant
<1>3. CompletedMessage(ms, t, thinks) \in {0, s, a}
  BY DEF CompletedMessage
<1> HIDE DEF s, a
<1>4. QED
  BY <1>1, <1>2, <1>3

Content(i, text) ==
    IF text # {} THEN text ELSE IF streaming # {} THEN streaming
    ELSE IF i # 0 THEN messages[i].text ELSE {}

LEMMA TextCompleteEffect ==
    ASSUME Arranged, NEW t \in 1..MaxTurn, NEW text \in SUBSET Block, NEW thinks \in BOOLEAN,
           TextComplete(t, text, thinks), streaming \in SUBSET Block
    PROVE  LET i == CompletedMessage(messages, t, thinks)
           IN  /\ InPlace' /\ Same("tool") /\ Same("user") /\ streaming' = {}
               /\ i = 0 =>
                     /\ NewText(Len(messages) + 1)
                     /\ Fields(messages'[Len(messages) + 1], t, Content(0, text), FALSE, FALSE, thinks)
                     /\ \A j \in At("assistant") : Alike(messages[j], messages'[j])
               /\ i # 0 =>
                     /\ i \in At("assistant") /\ At("assistant")' = At("assistant")
                     /\ Fields(messages'[i], t, Content(i, text), FALSE, FALSE, thinks)
                     /\ \A j \in At("assistant") : j # i => Alike(messages[j], messages'[j])
<1> DEFINE i == CompletedMessage(messages, t, thinks)
           n == Len(messages) + 1
           keeps == thinks \/ (text # {} /\ text \in {messages[i].text, streaming})
           at == IF i # 0 /\ keeps THEN messages[i].at ELSE Now
           m == [role |-> "assistant", turn |-> t, text |-> Content(i, text), at |-> at,
                 streaming |-> FALSE, pending |-> FALSE, intermediate |-> thinks]
<1>1. i = 0 \/ (i \in Position /\ messages[i].role = "assistant")
  BY CompletedFound, Basics DEF Position
<1>2. /\ Shown(IF i # 0 THEN [messages EXCEPT ![i] = m] ELSE Append(messages, m))
      /\ streaming' = {}
  BY DEF TextComplete, Content
<1> HIDE DEF i
<1>3. i # 0 => messages[i] \in Assistants
  BY <1>1, Basics, Roles
<1>4. Content(i, text) \in SUBSET Block /\ at \in Nat
  BY <1>3, Basics DEF Content, Assistants
<1> HIDE DEF at
<1>5. /\ m \in Message /\ m.role = "assistant" /\ m.at = at
      /\ Fields(m, t, Content(i, text), FALSE, FALSE, thinks)
  BY <1>4 DEF Message, Assistants, Fields
<1> HIDE DEF m
<1>6. \A j \in At("assistant") : j < n /\ messages[j].role = "assistant"
  BY BeforeTheNew DEF At
<1>7. CASE i = 0
  <2>1. Shown(Append(messages, m)) /\ m.at = Now
    BY <1>2, <1>5, <1>7 DEF at
  <2>2. /\ InPlace' /\ n \notin At("assistant") /\ Alike(m, messages'[n])
        /\ OneOf("assistant", n) /\ Same("tool") /\ Same("user")
    BY <1>5, <2>1, Appends
  <2>3. Fields(messages'[n], t, Content(0, text), FALSE, FALSE, thinks)
    BY <1>5, <1>7, <2>2 DEF Alike, Fields
  <2>4. QED
    BY <1>2, <1>6, <1>7, <2>2, <2>3 DEF NewText, OneOf, i
<1>8. CASE i # 0
  <2>1. /\ i \in Position /\ m.role = messages[i].role /\ m.at \in {messages[i].at, Now}
        /\ Shown([messages EXCEPT ![i] = m])
    BY <1>1, <1>2, <1>5, <1>8 DEF at
  <2>2. PICK role : role = m.role
    OBVIOUS
  <2>3. /\ InPlace' /\ Alike(m, messages'[i]) /\ i \in At(role) /\ OneOf(role, i)
        /\ Same("tool") /\ Same("user")
    BY <1>5, <2>1, <2>2, Replaces
  <2>4. /\ InPlace' /\ Alike(m, messages'[i]) /\ i \in At("assistant") /\ OneOf("assistant", i)
        /\ Same("tool") /\ Same("user")
    <3>1. role = "assistant"
      BY <1>5, <2>2
    <3>2. QED
      BY <2>3, <3>1
  <2>5. Fields(messages'[i], t, Content(i, text), FALSE, FALSE, thinks)
    BY <1>5, <2>4 DEF Alike, Fields
  <2>6. At("assistant")' = At("assistant")
    BY <1>5, <2>4 DEF OneOf
  <2>7. QED
    BY <1>2, <1>5, <1>8, <2>4, <2>5, <2>6 DEF OneOf, i
<1>9. QED
  BY <1>7, <1>8
-----------------------------------------------------------------------------
(* The end of a turn.                                                      *)
Ending(m) == [m EXCEPT !.status = "ended", !.shown = TRUE]

Completing(m) ==
    IF Running(m) /\ m.background # "task" THEN Ending(m)
    ELSE IF m.role = "user" THEN [m EXCEPT !.queued = FALSE]
    ELSE m

Interrupting(m) ==
    IF m.role = "assistant" /\ m.pending THEN [m EXCEPT !.pending = FALSE, !.streaming = FALSE]
    ELSE Failed(m)

(* A call that goes on is what it was.                                     *)
Ends(m, o) ==
    o.use = m.use /\ o.background = m.background /\ o.status \in {m.status, "ended"}

SameKind(m, o) == o \in Message /\ o.role = m.role /\ o.at = m.at

LEMMA EndingCall ==
    ASSUME NEW m \in Message, m.role = "tool"
    PROVE  SameKind(m, Ending(m)) /\ Ends(m, Ending(m)) /\ Ending(m).status = "ended"
<1>1. m \in Calls
  BY Roles
<1>2. Ending(m) \in Calls /\ Ending(m).at = m.at /\ Ends(m, Ending(m)) /\ Ending(m).status = "ended"
      /\ Ending(m).role = "tool"
  BY <1>1 DEF Calls, Ends, Ending
<1>3. QED
  BY <1>2 DEF Message, SameKind

LEMMA FailedMessage ==
    ASSUME NEW m \in Message
    PROVE  /\ SameKind(m, Failed(m))
           /\ m.role # "tool" => Failed(m) = m
           /\ m.role = "tool" => Ends(m, Failed(m)) /\ (Failed(m).status # "ended" => Failed(m).shown)
<1>1. CASE Running(m) /\ ~m.shown
  <2>1. Failed(m) = Ending(m) /\ m.role = "tool"
    BY <1>1 DEF Failed, Ending, Running
  <2>2. QED
    BY <2>1, EndingCall
<1>2. CASE ~(Running(m) /\ ~m.shown)
  <2>1. Failed(m) = m
    BY <1>2 DEF Failed
  <2>2. QED
    BY <1>2, <2>1 DEF SameKind, Ends, Running
<1>3. QED
  BY <1>1, <1>2

LEMMA CompletingMessage ==
    ASSUME NEW m \in Message
    PROVE  /\ SameKind(m, Completing(m))
           /\ m.role \notin {"tool", "user"} => Completing(m) = m
           /\ m.role = "tool" =>
                 /\ Ends(m, Completing(m))
                 /\ Completing(m).status # "ended" => Completing(m).background = "task"
           /\ m.role = "user" => Completing(m).id = m.id /\ Completing(m).queued = FALSE
<1>1. CASE Running(m) /\ m.background # "task"
  <2>1. Completing(m) = Ending(m) /\ m.role = "tool"
    BY <1>1 DEF Completing, Running
  <2>2. QED
    BY <2>1, EndingCall
<1>2. CASE m.role = "user"
  <2>1. Completing(m) = [m EXCEPT !.queued = FALSE] /\ m \in Bubbles
    BY <1>2, Roles DEF Completing, Running
  <2>2. /\ Completing(m) \in Bubbles /\ Completing(m).role = "user" /\ Completing(m).at = m.at
        /\ Completing(m).id = m.id /\ Completing(m).queued = FALSE
    BY <2>1 DEF Bubbles
  <2>3. QED
    BY <1>2, <2>2 DEF SameKind, Message
<1>3. CASE ~(Running(m) /\ m.background # "task") /\ m.role # "user"
  <2>1. Completing(m) = m
    BY <1>3 DEF Completing
  <2>2. QED
    BY <1>3, <2>1 DEF SameKind, Ends, Running
<1>4. QED
  BY <1>1, <1>2, <1>3

LEMMA InterruptingMessage ==
    ASSUME NEW m \in Message
    PROVE  /\ SameKind(m, Interrupting(m))
           /\ m.role \notin {"assistant", "tool"} => Interrupting(m) = m
           /\ m.role = "tool" =>
                 /\ Ends(m, Interrupting(m))
                 /\ Interrupting(m).status # "ended" => Interrupting(m).shown
           /\ m.role = "assistant" =>
                 LET streams == m.streaming /\ ~m.pending
                 IN  Fields(Interrupting(m), m.turn, m.text, streams, FALSE, m.intermediate)
<1>1. CASE m.role = "assistant" /\ m.pending
  <2>1. Interrupting(m) = [m EXCEPT !.pending = FALSE, !.streaming = FALSE] /\ m \in Assistants
    BY <1>1, Roles DEF Interrupting
  <2>2. /\ Interrupting(m) \in Assistants /\ Interrupting(m).role = "assistant"
        /\ Interrupting(m).at = m.at
        /\ Fields(Interrupting(m), m.turn, m.text, FALSE, FALSE, m.intermediate)
    BY <2>1 DEF Assistants, Fields
  <2>3. QED
    BY <1>1, <2>2 DEF SameKind, Message, Fields
<1>2. CASE ~(m.role = "assistant" /\ m.pending)
  <2>1. Interrupting(m) = Failed(m)
    BY <1>2 DEF Interrupting
  <2>2. m.role = "assistant" => m \in Assistants
    BY Roles
  <2>3. m.role = "assistant" =>
            Fields(m, m.turn, m.text, m.streaming /\ ~m.pending, FALSE, m.intermediate)
    BY <1>2, <2>2 DEF Fields, Assistants
  <2>4. QED
    BY <2>1, <2>3, FailedMessage
<1>3. QED
  BY <1>1, <1>2

LEMMA Mapped ==
    ASSUME Arranged, NEW ms, ms = [i \in 1..Len(messages) |-> ms[i]],
           \A j \in Position : SameKind(messages[j], ms[j])
    PROVE  /\ ms \in Seq(Message) /\ Len(ms) = Len(messages)
           /\ \A j \in Position : ms[j].at = messages[j].at /\ ms[j].role = messages[j].role
<1>1. ms \in [1..Len(messages) -> Message]
  BY DEF SameKind, Position
<1>2. QED
  BY <1>1, Basics DEF SameKind

LEMMA CompleteEffect ==
    ASSUME Arranged, Complete
    PROVE  /\ InPlace' /\ Same("assistant") /\ streaming' = {}
           /\ At("tool")' = At("tool") /\ At("user")' = At("user")
           /\ \A j \in At("tool") :
                 /\ Ends(messages[j], messages'[j])
                 /\ messages'[j].status # "ended" => messages'[j].background = "task"
           /\ \A j \in At("user") : messages'[j].id = messages[j].id /\ messages'[j].queued = FALSE
<1> DEFINE ms == CompleteAll
<1>1. ms = [i \in 1..Len(messages) |-> Completing(messages[i])]
  BY DEF CompleteAll, Each, Completing, Ending
<1>2. Shown(ms) /\ streaming' = {}
  BY DEF Complete
<1> HIDE DEF ms
<1>3. \A j \in Position : ms[j] = Completing(messages[j]) /\ messages[j] \in Message
  BY <1>1, Basics DEF Position
<1>4. /\ ms \in Seq(Message) /\ Len(ms) = Len(messages)
      /\ \A j \in Position : ms[j].at = messages[j].at /\ ms[j].role = messages[j].role
  <2>1. \A j \in Position : SameKind(messages[j], ms[j])
    BY <1>3, CompletingMessage
  <2>2. ms = [i \in 1..Len(messages) |-> ms[i]]
    BY <1>1
  <2>3. QED
    BY <2>1, <2>2, Mapped
<1>5. /\ InPlace'
      /\ \A j \in Position : Alike(ms[j], messages'[j])
      /\ \A role : (\A j \in Position : ms[j].role = role <=> messages[j].role = role) =>
            /\ At(role)' = At(role)
            /\ (\A j \in At(role) : ms[j] = messages[j]) => Same(role)
  BY <1>2, <1>4, Maps
<1>6. \A role : \A j \in At(role) : j \in Position /\ messages[j].role = role /\ ms[j].role = role
  BY <1>4 DEF At
<1>7. \A j \in Position :
           /\ messages[j].role \notin {"tool", "user"} => ms[j] = messages[j]
           /\ messages[j].role = "tool" =>
                 /\ Ends(messages[j], ms[j])
                 /\ ms[j].status # "ended" => ms[j].background = "task"
           /\ messages[j].role = "user" => ms[j].id = messages[j].id /\ ms[j].queued = FALSE
  BY <1>3, CompletingMessage
<1>8. \A j \in At("assistant") : ms[j] = messages[j]
  BY <1>6, <1>7
<1>9. Same("assistant") /\ At("tool")' = At("tool") /\ At("user")' = At("user")
  BY <1>4, <1>5, <1>8
<1>10. \A j \in At("tool") :
          /\ Ends(messages[j], messages'[j])
          /\ messages'[j].status # "ended" => messages'[j].background = "task"
  BY <1>5, <1>6, <1>7 DEF Ends, Alike
<1>11. \A j \in At("user") : messages'[j].id = messages[j].id /\ messages'[j].queued = FALSE
  BY <1>5, <1>6, <1>7 DEF Alike
<1>12. QED
  BY <1>2, <1>5, <1>9, <1>10, <1>11

LEMMA LineMessage ==
    ASSUME Arranged,
           NEW role \in {"status", "compacting", "compacted", "info", "error", "plan"}
    PROVE  Line(role) \in Message /\ Line(role).at = Now /\ Line(role).role = role
BY Basics DEF Line, Message, Lines

LEMMA HandleErrorEffect ==
    ASSUME Arranged, HandleError
    PROVE  /\ InPlace' /\ Same("assistant") /\ Same("user") /\ streaming' = {}
           /\ At("tool")' = At("tool")
           /\ \A j \in At("tool") :
                 /\ Ends(messages[j], messages'[j])
                 /\ messages'[j].status # "ended" => messages'[j].shown
<1> DEFINE ms == Each(messages, Failed)
           m == Line("error")
<1>1. ms = [i \in 1..Len(messages) |-> Failed(messages[i])]
  BY DEF Each
<1>2. Shown(Append(ms, m)) /\ streaming' = {}
  BY DEF HandleError
<1> HIDE DEF ms
<1>3. \A j \in Position : ms[j] = Failed(messages[j]) /\ messages[j] \in Message
  BY <1>1, Basics DEF Position
<1>4. /\ ms \in Seq(Message) /\ Len(ms) = Len(messages)
      /\ \A j \in Position : ms[j].at = messages[j].at /\ ms[j].role = messages[j].role
  <2>1. \A j \in Position : SameKind(messages[j], ms[j])
    BY <1>3, FailedMessage
  <2>2. ms = [i \in 1..Len(messages) |-> ms[i]]
    BY <1>1
  <2>3. QED
    BY <2>1, <2>2, Mapped
<1>5. m \in Message /\ m.at = Now /\ m.role = "error"
  BY LineMessage
<1> HIDE DEF m
<1>6. /\ InPlace'
      /\ \A j \in Position : Alike(ms[j], messages'[j])
      /\ \A role : role # m.role =>
            /\ At(role)' = At(role)
            /\ (\A j \in At(role) : ms[j] = messages[j]) => Same(role)
  BY <1>2, <1>4, <1>5, MapsAndAppends
<1>7. \A role : \A j \in At(role) : j \in Position /\ messages[j].role = role /\ ms[j].role = role
  BY <1>4 DEF At
<1>8. \A role : role # "tool" => \A j \in At(role) : ms[j] = messages[j]
  BY <1>3, <1>7, FailedMessage
<1>9. Same("assistant") /\ Same("user") /\ At("tool")' = At("tool")
  BY <1>5, <1>6, <1>8
<1>10. \A j \in At("tool") :
           /\ Ends(messages[j], messages'[j])
           /\ messages'[j].status # "ended" => messages'[j].shown
  BY <1>3, <1>6, <1>7, FailedMessage DEF Ends, Alike
<1>11. QED
  BY <1>2, <1>6, <1>9, <1>10

(* What a stop leaves: each message comes from one, in order.              *)
Comes(e, role) ==
    /\ \A p \in At(role)' :
          e[p] \in At(role) /\ Alike(Interrupting(messages[e[p]]), messages'[p])
    /\ \A p, q \in At(role)' : p < q => e[p] < e[q]

Goes(e, role) == \A j \in At(role) : \E p \in At(role)' : e[p] = j

(* The messages but for one that a stop may append.                        *)
LEMMA Interruption ==
    ASSUME Arranged, NEW left \in Seq(Message), NEW n, n = Len(left),
           NEW e \in [1..n -> Position],
           \A p \in 1..n : left[p] = Interrupting(messages[e[p]]),
           \A p, q \in 1..n : p < q => e[p] < e[q],
           NEW byUser \in BOOLEAN, Shown(IF byUser THEN Append(left, Line("info")) ELSE left)
    PROVE  /\ InPlace'
           /\ \A role \in {"assistant", "tool", "user"} :
                 /\ Comes(e, role)
                 /\ At(role)' = {p \in 1..n : e[p] \in At(role)}
<1> DEFINE m == Line("info")
           r == IF byUser THEN Append(left, m) ELSE left
<1>1. /\ n \in Nat /\ \A p \in 1..n : e[p] \in Position /\ messages[e[p]] \in Message
      /\ \A i \in Position : messages[i].at # Now /\ i \in Nat
  <2>1. n \in Nat /\ \A p \in 1..n : e[p] \in Position /\ messages[e[p]] \in Message
    BY Basics
  <2>2. \A i \in Position : messages[i].at # Now /\ i \in Nat
    BY Basics DEF Arranged, Position, Now
  <2>3. QED
    BY <2>1, <2>2
<1>2. \A p \in 1..n : SameKind(messages[e[p]], left[p])
  BY <1>1, InterruptingMessage
<1>3. m \in Message /\ m.at = Now /\ m.role = "info"
  BY LineMessage
<1> HIDE DEF m
<1>4. /\ r \in Seq(Message) /\ Len(r) \in Nat
      /\ \A p \in 1..n : p \in 1..Len(r) /\ r[p] = left[p]
      /\ \A p \in 1..Len(r) : p \in 1..n \/ (byUser /\ p = n + 1 /\ r[p] = m)
  <2>1. CASE byUser
    BY <1>1, <1>3, <2>1, Extended
  <2>2. CASE ~byUser
    BY <1>1, <2>2
  <2>3. QED
    BY <2>1, <2>2
<1>5. Shown(r)
  BY DEF m
<1> HIDE DEF r
<1>6. \A p, q \in 1..n : e[p] = e[q] => p = q
  <2> SUFFICES ASSUME NEW p \in 1..n, NEW q \in 1..n, p # q PROVE e[p] # e[q]
    OBVIOUS
  <2>1. p < q \/ q < p
    BY <1>1
  <2>2. e[p] < e[q] \/ e[q] < e[p]
    BY <2>1
  <2>3. e[p] \in Nat /\ e[q] \in Nat
    BY <1>1
  <2>4. QED
    BY <2>2, <2>3
<1>7. Distinct(r)
  <2> SUFFICES ASSUME NEW p \in 1..Len(r), NEW q \in 1..Len(r), r[p].at = r[q].at PROVE p = q
    BY DEF Distinct
  <2>1. CASE p \in 1..n /\ q \in 1..n
    <3>1. messages[e[p]].at = messages[e[q]].at
      BY <1>2, <1>4, <2>1 DEF SameKind
    <3>2. e[p] = e[q]
      BY <1>1, <2>1, <3>1 DEF Arranged, Distinct, Position
    <3>3. QED
      BY <1>6, <2>1, <3>2
  <2>2. \A u \in 1..n : r[u].at # Now
    BY <1>1, <1>2, <1>4 DEF SameKind
  <2>3. QED
    BY <1>3, <1>4, <2>1, <2>2
<1>8. InPlace' /\ Len(messages') = Len(r) /\ \A p \in 1..Len(r) : Alike(r[p], messages'[p])
  BY <1>4, <1>5, <1>7, ShownDistinct DEF Settled, Becomes
<1>9. \A p \in 1..n : Alike(left[p], messages'[p]) /\ messages'[p].role = messages[e[p]].role
  BY <1>2, <1>4, <1>8 DEF SameKind, Alike
<1>10. \A p \in Position' : p \in 1..n \/ messages'[p].role = "info"
  BY <1>3, <1>4, <1>8 DEF Position, Alike
<1>11. \A p \in 1..n : p \in Position'
  BY <1>4, <1>8 DEF Position
<1>12. \A role \in {"assistant", "tool", "user"} : At(role)' = {p \in 1..n : e[p] \in At(role)}
  BY <1>1, <1>9, <1>10, <1>11 DEF At
<1>13. \A role \in {"assistant", "tool", "user"} : Comes(e, role)
  BY <1>9, <1>12 DEF Comes
<1>14. QED
  BY <1>8, <1>12, <1>13

LEMMA InterruptedEffect ==
    ASSUME Arranged, NEW byUser \in BOOLEAN, Interrupted(byUser)
    PROVE  /\ InPlace' /\ streaming' = {}
           /\ \E e : /\ \A role \in {"assistant", "tool", "user"} : Comes(e, role)
                     /\ Goes(e, "assistant") /\ Goes(e, "tool")
                     /\ \A j \in At("user") :
                           ~(byUser /\ messages[j].queued) => \E p \in At("user")' : e[p] = j
<1> DEFINE stays(m) ==
               /\ m.role \notin {"status", "compacting"}
               /\ ~(byUser /\ m.role = "user" /\ m.queued)
           T == {m \in Range(messages) : stays(m)}
           f == Filter(messages, T)
           n == Len(f)
           left == [i \in 1..n |-> Interrupting(f[i])]
<1>1. /\ Shown(IF byUser THEN Append(left, Line("info")) ELSE left)
      /\ streaming' = {}
  BY DEF Interrupted, Each, Interrupting
<1>2. messages \in Seq(Message) /\ \A j \in Position : messages[j] \in Message /\ messages[j] \in Range(messages)
  BY Basics, RangeFacts DEF Position
<1>3. \A j \in Position : messages[j] \in T <=> stays(messages[j])
  BY <1>2
<1>4. f \in Seq(Message) /\ \E e : Embeds(f, messages, T, Len(messages), e)
  <2> HIDE DEF T
  <2>1. QED
    BY <1>2, FilterFacts
<1>5. PICK e : Embeds(f, messages, T, Len(messages), e)
  BY <1>4
<1> HIDE DEF T, f
<1>6. n \in Nat /\ \A p \in 1..n : f[p] \in Message
  BY <1>4
<1> HIDE DEF n
<1>7. /\ e \in [1..n -> Position]
      /\ \A p \in 1..n : f[p] = messages[e[p]]
      /\ \A p, q \in 1..n : p < q => e[p] < e[q]
      /\ \A j \in Position : messages[j] \in T => \E p \in 1..n : e[p] = j
  BY <1>5 DEF Embeds, Position, n
<1>8. left \in Seq(Message) /\ Len(left) = n
  <2>1. \A p \in 1..n : Interrupting(f[p]) \in Message
    BY <1>6, InterruptingMessage DEF SameKind
  <2>2. QED
    BY <1>6, <2>1
<1>9. \A p \in 1..n : left[p] = Interrupting(messages[e[p]])
  BY <1>7
<1> HIDE DEF left
<1>10. /\ InPlace'
       /\ \A role \in {"assistant", "tool", "user"} :
             Comes(e, role) /\ At(role)' = {p \in 1..n : e[p] \in At(role)}
  BY <1>1, <1>7, <1>8, <1>9, Interruption
<1>11. \A role \in {"assistant", "tool", "user"} : \A j \in At(role) :
           stays(messages[j]) => \E p \in At(role)' : e[p] = j
  <2> SUFFICES ASSUME NEW role \in {"assistant", "tool", "user"}, NEW j \in At(role), stays(messages[j])
               PROVE  \E p \in At(role)' : e[p] = j
    OBVIOUS
  <2>1. j \in Position
    BY DEF At
  <2>2. PICK p \in 1..n : e[p] = j
    BY <1>3, <1>7, <2>1
  <2>3. QED
    BY <1>10, <2>2
<1>12. \A role : \A j \in At(role) : messages[j].role = role
  BY DEF At
<1>13. Goes(e, "assistant") /\ Goes(e, "tool")
  BY <1>11, <1>12 DEF Goes
<1>14. \A j \in At("user") : ~(byUser /\ messages[j].queued) => \E p \in At("user")' : e[p] = j
  BY <1>11, <1>12
<1>15. QED
  BY <1>1, <1>10, <1>13, <1>14

-----------------------------------------------------------------------------
(* The other lines.                                                        *)
Quiet == InPlace' /\ Same("assistant") /\ Same("tool") /\ Same("user")

LEMMA AsideEffect ==
    ASSUME Arranged, NEW role \in {"status", "compacting", "compacted", "info", "error", "plan"},
           Shown(Append(messages, Line(role)))
    PROVE  Quiet
<1>1. PICK m : m = Line(role)
  OBVIOUS
<1>2. m \in Message /\ m.at = Now /\ m.role = role
  BY <1>1, LineMessage
<1>3. InPlace' /\ \A other : other # m.role => Same(other)
  BY <1>1, <1>2, Appends
<1>4. QED
  BY <1>2, <1>3 DEF Quiet

LEMMA LoginEffect ==
    ASSUME Arranged,
           Shown(Append(messages, [role |-> "auth-request", at |-> Now, status |-> "pending"]))
    PROVE  Quiet
<1>1. PICK m : m = [role |-> "auth-request", at |-> Now, status |-> "pending"]
  OBVIOUS
<1>2. m \in Message /\ m.at = Now /\ m.role = "auth-request"
  BY <1>1, Basics DEF Message, Logins
<1>3. InPlace' /\ \A other : other # m.role => Same(other)
  BY <1>1, <1>2, Appends
<1>4. QED
  BY <1>2, <1>3 DEF Quiet

(* A change of lines that are none of a user, an agent or a call.          *)
LEMMA Relabels ==
    ASSUME Arranged, NEW ms, ms = [i \in 1..Len(messages) |-> ms[i]], Shown(ms),
           \A j \in Position :
               /\ ms[j] \in Message /\ ms[j].at = messages[j].at
               /\ \/ ms[j] = messages[j]
                  \/ /\ messages[j].role \notin {"assistant", "tool", "user"}
                     /\ ms[j].role \notin {"assistant", "tool", "user"}
    PROVE  Quiet
<1>1. ms \in Seq(Message) /\ Len(ms) = Len(messages)
  <2>1. ms \in [1..Len(messages) -> Message]
    BY DEF Position
  <2>2. QED
    BY <2>1, Basics
<1>2. \A role \in {"assistant", "tool", "user"} :
          \A j \in Position : ms[j].role = role <=> messages[j].role = role
  OBVIOUS
<1>3. \A role \in {"assistant", "tool", "user"} : \A j \in At(role) : ms[j] = messages[j]
  BY DEF At
<1>4. /\ InPlace'
      /\ \A role : (\A j \in Position : ms[j].role = role <=> messages[j].role = role) =>
            /\ At(role)' = At(role)
            /\ (\A j \in At(role) : ms[j] = messages[j]) => Same(role)
  BY <1>1, Maps
<1>5. QED
  BY <1>2, <1>3, <1>4 DEF Quiet

LEMMA CompactionEndsEffect ==
    ASSUME Arranged, Shown(Each(messages, Compacted))
    PROVE  Quiet
<1> DEFINE ms == Each(messages, Compacted)
<1>1. ms = [i \in 1..Len(messages) |-> Compacted(messages[i])]
  BY DEF Each
<1>2. ASSUME NEW j \in Position
      PROVE  /\ ms[j] \in Message /\ ms[j].at = messages[j].at
             /\ \/ ms[j] = messages[j]
                \/ /\ messages[j].role \notin {"assistant", "tool", "user"}
                   /\ ms[j].role \notin {"assistant", "tool", "user"}
  <2>1. ms[j] = Compacted(messages[j]) /\ messages[j] \in Message
    BY <1>1, Basics DEF Position
  <2> HIDE DEF ms
  <2>2. CASE messages[j].role = "compacting"
    <3>1. messages[j] \in Lines
      BY <2>1, <2>2 DEF Message, Assistants, Calls, Bubbles, Logins
    <3>2. ms[j] = [messages[j] EXCEPT !.role = "compacted"]
      BY <2>1, <2>2 DEF Compacted
    <3>3. ms[j] \in Lines /\ ms[j].at = messages[j].at /\ ms[j].role = "compacted"
      BY <3>1, <3>2 DEF Lines
    <3>4. QED
      BY <2>2, <3>3 DEF Message
  <2>3. CASE messages[j].role # "compacting"
    BY <2>1, <2>3 DEF Compacted
  <2>4. QED
    BY <2>2, <2>3
<1>3. ms = [i \in 1..Len(messages) |-> ms[i]]
  BY <1>1
<1> HIDE DEF ms
<1>4. QED
  BY <1>2, <1>3, Relabels DEF ms

LEMMA AuthCompletesEffect ==
    ASSUME Arranged, Shown(Each(messages, AuthCompleted))
    PROVE  Quiet
<1> DEFINE ms == Each(messages, AuthCompleted)
<1>1. ms = [i \in 1..Len(messages) |-> AuthCompleted(messages[i])]
  BY DEF Each
<1>2. ASSUME NEW j \in Position
      PROVE  /\ ms[j] \in Message /\ ms[j].at = messages[j].at
             /\ \/ ms[j] = messages[j]
                \/ /\ messages[j].role \notin {"assistant", "tool", "user"}
                   /\ ms[j].role \notin {"assistant", "tool", "user"}
  <2>1. ms[j] = AuthCompleted(messages[j]) /\ messages[j] \in Message
    BY <1>1, Basics DEF Position
  <2> HIDE DEF ms
  <2>2. CASE messages[j].role = "auth-request"
    <3>1. messages[j] \in Logins
      BY <2>1, <2>2, Roles
    <3>2. ms[j] = [messages[j] EXCEPT !.status = "over"]
      BY <2>1, <2>2 DEF AuthCompleted
    <3>3. ms[j] \in Logins /\ ms[j].at = messages[j].at /\ ms[j].role = "auth-request"
      BY <3>1, <3>2 DEF Logins
    <3>4. QED
      BY <2>2, <3>3 DEF Message
  <2>3. CASE messages[j].role # "auth-request"
    BY <2>1, <2>3 DEF AuthCompleted
  <2>4. QED
    BY <2>2, <2>3
<1>3. ms = [i \in 1..Len(messages) |-> ms[i]]
  BY <1>1
<1> HIDE DEF ms
<1>4. QED
  BY <1>2, <1>3, Relabels DEF ms
-----------------------------------------------------------------------------
(* Types.  InPlace says that the ranks are those of a display order.       *)
Kinds == {"think", "say", "answer"}

Rest ==
    /\ streaming \in SUBSET Block /\ done \in SUBSET Block
    /\ turn \in 0..MaxTurn /\ live \in BOOLEAN
    /\ ended \in {"no", "complete", "error", "interrupted", "paused"}
    /\ block \in Seq(Kinds)
    /\ sent \in [Tool -> SUBSET {"start", "result", "background", "over", "closed"}]
    /\ queue \in [User -> {"unsent", "queued", "waiting", "processing", "dropped"}]
    /\ live => turn # 0

TypeInv == InPlace /\ Rest

LEMMA KindFacts ==
    /\ Range(Kind) = Kinds
    /\ \A t \in 1..MaxTurn, k \in Kinds : {<<t, k>>} \in SUBSET Block
    /\ MaxTurn \in Nat \ {0} /\ Parent \in Tool
<1>1. Kind \in Seq(Kinds) /\ Len(Kind) = 3
      /\ Kind[1] = "think" /\ Kind[2] = "say" /\ Kind[3] = "answer"
  BY DEF Kind, Kinds
<1>2. \A k : k \in Range(Kind) <=> \E i \in 1..Len(Kind) : Kind[i] = k
  BY <1>1, RangeFacts
<1>3. \A k : k \in Range(Kind) <=> k \in Kinds
  BY <1>1, <1>2 DEF Kinds
<1>4. QED
  BY <1>3, ProcessorAssumption DEF Kinds, Block

LEMMA Typed ==
    ASSUME TypeInv
    PROVE  TypeOK
<1>1. \A i \in 1..Len(messages) : messages[i] \in Message
  BY Basics DEF TypeInv, InPlace, Position
<1>2. QED
  BY <1>1 DEF TypeInv, InPlace, Rest, TypeOK, Kinds

LEMMA BeginsTyped ==
    ASSUME Rest, NEW k \in Kinds, Begins(k)
    PROVE  /\ turn \in 1..MaxTurn /\ {<<turn, k>>} \in SUBSET Block
           /\ block' \in Seq(Kinds) /\ UNCHANGED <<turn, live, ended, sent, queue>>
<1>1. turn \in 1..MaxTurn
  BY KindFacts DEF Rest, Begins
<1>2. QED
  BY <1>1, KindFacts DEF Rest, Begins

LEMMA EndTurnTyped ==
    ASSUME Rest, NEW how \in {"complete", "error", "interrupted", "paused"}, EndTurn(how)
    PROVE  /\ live /\ live' = FALSE /\ ended' = how /\ UNCHANGED <<turn, block, done>>
           /\ sent' \in [Tool -> SUBSET {"start", "result", "background", "over", "closed"}]
<1> DEFINE S(t) == IF sent[t] = {} THEN {} ELSE sent[t] \cup {"closed"}
<1>1. \A t \in Tool : S(t) \in SUBSET {"start", "result", "background", "over", "closed"}
  BY DEF Rest
<1>2. sent' = [t \in Tool |-> S(t)]
  BY DEF EndTurn
<1> HIDE DEF S
<1>3. QED
  BY <1>1, <1>2 DEF EndTurn

LEMMA SendsTyped ==
    ASSUME Rest, NEW t \in Tool, NEW event \in {"start", "result", "background", "over"},
           Sends(t, event)
    PROVE  Rest' /\ sent' = [sent EXCEPT ![t] = @ \cup {event}] /\ event \notin sent[t]
           /\ UNCHANGED <<streaming, turn, live, ended, block, done, queue>>
<1>1. sent' = [sent EXCEPT ![t] = @ \cup {event}] /\ event \notin sent[t]
      /\ UNCHANGED <<streaming, turn, live, ended, block, done, queue>>
  BY DEF Sends, Turns
<1>2. sent' \in [Tool -> SUBSET {"start", "result", "background", "over", "closed"}]
  BY <1>1 DEF Rest
<1>3. QED
  BY <1>1, <1>2 DEF Rest

(* Every step keeps the types.                                             *)
LEMMA TypeStep ==
    ASSUME TypeInv, [Next]_vars
    PROVE  TypeInv'
<1>1. Arranged /\ Rest
  BY DEF TypeInv, InPlace
<1>2. live => turn \in 1..MaxTurn
  BY <1>1, KindFacts DEF Rest
<1>3. CASE Send
  <2>1. UserMessage(turn + 1, "accepted") /\ StartTurn /\ UNCHANGED <<streaming, done, sent, queue>>
    BY <1>3 DEF Send
  <2>2. turn + 1 \in 1..MaxTurn
    BY <1>1, <2>1, KindFacts DEF StartTurn, Rest
  <2>3. InPlace'
    BY <1>1, <2>1, <2>2, UserMessageEffect
  <2>4. Rest'
    BY <1>1, <2>1, <2>2 DEF StartTurn, Rest
  <2>5. QED
    BY <2>3, <2>4 DEF TypeInv
<1>4. ASSUME NEW u \in User, QueueMessage(u) PROVE TypeInv'
  <2>1. UserMessage(u, "queued") /\ UNCHANGED <<streaming, turn, live, ended, block, done, sent>>
    BY <1>4 DEF QueueMessage, Turns
  <2>2. InPlace'
    BY <1>1, <2>1, UserMessageEffect
  <2>3. queue' \in [User -> {"unsent", "queued", "waiting", "processing", "dropped"}]
    BY <1>1, <1>4 DEF QueueMessage, Rest
  <2>4. Rest'
    BY <1>1, <2>1, <2>3 DEF Rest
  <2>5. QED
    BY <2>2, <2>4 DEF TypeInv
<1>5. ASSUME NEW u \in User, ProcessQueued(u) PROVE TypeInv'
  <2>1. UserMessage(u, "processing") /\ StartTurn /\ UNCHANGED <<streaming, done, sent>>
        /\ queue' = [queue EXCEPT ![u] = "processing"]
    BY <1>5 DEF ProcessQueued
  <2>2. turn + 1 \in 1..MaxTurn
    BY <1>1, <2>1, KindFacts DEF StartTurn, Rest
  <2>3. InPlace'
    BY <1>1, <2>1, UserMessageEffect
  <2>4. Rest'
    BY <1>1, <2>1, <2>2 DEF StartTurn, Rest
  <2>5. QED
    BY <2>3, <2>4 DEF TypeInv
<1>6. ASSUME NEW k \in Kinds, BeginBlock(k) PROVE TypeInv'
  <2>1. Begins(k) /\ TextDelta(turn, {<<turn, k>>}, k = "think") /\ UNCHANGED done
    BY <1>6 DEF BeginBlock
  <2>2. /\ turn \in 1..MaxTurn /\ {<<turn, k>>} \in SUBSET Block
        /\ block' \in Seq(Kinds) /\ UNCHANGED <<turn, live, ended, sent, queue>>
    BY <1>1, <2>1, BeginsTyped
  <2>3. (k = "think") \in BOOLEAN /\ streaming \in SUBSET Block
    BY <1>1 DEF Rest
  <2>4. InPlace' /\ streaming' \in SUBSET Block
    BY <1>1, <2>1, <2>2, <2>3, TextDeltaEffect
  <2>5. Rest'
    BY <1>1, <2>1, <2>2, <2>4 DEF Rest
  <2>6. QED
    BY <2>4, <2>5 DEF TypeInv
<1>7. ASSUME NEW k \in Kinds, WholeBlock(k) PROVE TypeInv'
  <2>1. Begins(k) /\ TextComplete(turn, {<<turn, k>>}, k = "think") /\ done' = done \cup {<<turn, k>>}
    BY <1>7 DEF WholeBlock
  <2>2. /\ turn \in 1..MaxTurn /\ {<<turn, k>>} \in SUBSET Block
        /\ block' \in Seq(Kinds) /\ UNCHANGED <<turn, live, ended, sent, queue>>
    BY <1>1, <2>1, BeginsTyped
  <2>3. (k = "think") \in BOOLEAN /\ streaming \in SUBSET Block
    BY <1>1 DEF Rest
  <2>4. InPlace' /\ streaming' = {}
    BY <1>1, <2>1, <2>2, <2>3, TextCompleteEffect
  <2>5. Rest'
    BY <1>1, <2>1, <2>2, <2>4 DEF Rest
  <2>6. QED
    BY <2>4, <2>5 DEF TypeInv
<1>8. ASSUME NEW k \in Kinds, EndBlock(k) PROVE TypeInv'
  <2>1. PICK text \in {{<<turn, k>>}, {}} : TextComplete(turn, text, k = "think")
    BY <1>8 DEF EndBlock
  <2>2. live /\ done' = done \cup {<<turn, k>>} /\ UNCHANGED <<turn, live, ended, block, sent, queue>>
    BY <1>8 DEF EndBlock, Turns
  <2>3. text \in SUBSET Block /\ {<<turn, k>>} \in SUBSET Block /\ turn \in 1..MaxTurn
    BY <1>2, <2>2, KindFacts
  <2>4. (k = "think") \in BOOLEAN /\ streaming \in SUBSET Block
    BY <1>1 DEF Rest
  <2>5. InPlace' /\ streaming' = {}
    BY <1>1, <2>1, <2>3, <2>4, TextCompleteEffect
  <2>6. Rest'
    BY <1>1, <2>2, <2>3, <2>5 DEF Rest
  <2>7. QED
    BY <2>5, <2>6 DEF TypeInv
<1>9. ASSUME NEW t \in Tool,
             ToolStarts(t) \/ ToolStartsAgain(t) \/ ToolStreams(t) \/ ToolReturns(t)
                \/ GoesBackground(t) \/ TaskEnds(t)
      PROVE  TypeInv'
  <2>1. CASE ToolStarts(t)
    <3>1. ToolStart(t) /\ Sends(t, "start") /\ live
      BY <2>1 DEF ToolStarts, Working
    <3>2. InPlace'
      BY <1>1, <1>2, <3>1, ToolStartEffect DEF CallOf
    <3>3. QED
      BY <1>1, <3>1, <3>2, SendsTyped DEF TypeInv
  <2>2. CASE ToolStartsAgain(t)
    <3>1. ToolStart(t) /\ UNCHANGED <<streaming, agent>> /\ live
      BY <2>2 DEF ToolStartsAgain, Working
    <3>2. InPlace'
      BY <1>1, <1>2, <3>1, ToolStartEffect DEF CallOf
    <3>3. QED
      BY <1>1, <3>1, <3>2 DEF TypeInv, Rest, agent
  <2>3. CASE ToolStreams(t)
    <3>1. ToolDelta(t) /\ UNCHANGED <<streaming, agent>> /\ live
      BY <2>3 DEF ToolStreams, Working
    <3>2. InPlace'
      BY <1>1, <1>2, <3>1, ToolDeltaEffect DEF CallOf
    <3>3. QED
      BY <1>1, <3>1, <3>2 DEF TypeInv, Rest, agent
  <2>4. CASE ToolReturns(t)
    <3>1. ToolResult(t) /\ Sends(t, "result") /\ live
      BY <2>4 DEF ToolReturns, Working
    <3>2. InPlace'
      BY <1>1, <1>2, <3>1, ToolResultEffect
    <3>3. QED
      BY <1>1, <3>1, <3>2, SendsTyped DEF TypeInv
  <2>5. CASE GoesBackground(t)
    <3>1. Sends(t, "background") /\ \E background \in {"task", "shell"} : Backgrounded(t, background)
      BY <2>5 DEF GoesBackground
    <3>2. InPlace'
      BY <1>1, <3>1, BackgroundedPlaces
    <3>3. QED
      BY <1>1, <3>1, <3>2, SendsTyped DEF TypeInv
  <2>6. CASE TaskEnds(t)
    <3>1. Sends(t, "over") /\ TaskCompleted(t)
      BY <2>6 DEF TaskEnds
    <3>2. InPlace'
      BY <1>1, <3>1, TaskCompletedPlaces
    <3>3. QED
      BY <1>1, <3>1, <3>2, SendsTyped DEF TypeInv
  <2>7. QED
    BY <1>9, <2>1, <2>2, <2>3, <2>4, <2>5, <2>6
<1>10. CASE TurnCompletes
  <2>1. EndTurn("complete") /\ Complete
        /\ queue' = [u \in User |-> IF queue[u] = "queued" THEN "waiting" ELSE queue[u]]
    BY <1>10 DEF TurnCompletes
  <2>2. InPlace' /\ streaming' = {}
    BY <1>1, <2>1, CompleteEffect
  <2>3. queue' \in [User -> {"unsent", "queued", "waiting", "processing", "dropped"}]
    BY <1>1, <2>1 DEF Rest
  <2>4. QED
    BY <1>1, <2>1, <2>2, <2>3, EndTurnTyped DEF TypeInv, Rest
<1>11. CASE TurnFails
  <2>1. EndTurn("error") /\ HandleError /\ UNCHANGED queue
    BY <1>11 DEF TurnFails
  <2>2. InPlace' /\ streaming' = {}
    BY <1>1, <2>1, HandleErrorEffect
  <2>3. QED
    BY <1>1, <2>1, <2>2, EndTurnTyped DEF TypeInv, Rest
<1>12. ASSUME NEW byUser \in BOOLEAN, Stop(byUser) PROVE TypeInv'
  <2>1. EndTurn("interrupted") /\ Interrupted(byUser)
        /\ queue' = [u \in User |-> IF byUser /\ Waits(u) THEN "dropped" ELSE queue[u]]
    BY <1>12 DEF Stop
  <2>2. InPlace' /\ streaming' = {}
    BY <1>1, <2>1, InterruptedEffect
  <2>3. queue' \in [User -> {"unsent", "queued", "waiting", "processing", "dropped"}]
    BY <1>1, <2>1 DEF Rest
  <2>4. QED
    BY <1>1, <2>1, <2>2, <2>3, EndTurnTyped DEF TypeInv, Rest
<1>13. ASSUME NEW role \in {"status", "compacting", "info", "plan"}, Aside(role) PROVE TypeInv'
  <2>1. Shown(Append(messages, Line(role))) /\ UNCHANGED <<streaming, agent>>
    BY <1>13 DEF Aside
  <2>2. QED
    BY <1>1, <2>1, AsideEffect DEF TypeInv, Rest, agent, Quiet
<1>14. CASE CompactionEnds
  <2>1. Shown(Each(messages, Compacted)) /\ UNCHANGED <<streaming, agent>>
    BY <1>14 DEF CompactionEnds
  <2>2. QED
    BY <1>1, <2>1, CompactionEndsEffect DEF TypeInv, Rest, agent, Quiet
<1>15. CASE AuthRequest
  <2>1. /\ EndTurn("paused") /\ streaming' = {} /\ UNCHANGED queue
        /\ Shown(Append(messages, [role |-> "auth-request", at |-> Now, status |-> "pending"]))
    BY <1>15 DEF AuthRequest
  <2>2. InPlace'
    BY <1>1, <2>1, LoginEffect DEF Quiet
  <2>3. QED
    BY <1>1, <2>1, <2>2, EndTurnTyped DEF TypeInv, Rest
<1>16. CASE AuthCompletes
  <2>1. Shown(Each(messages, AuthCompleted)) /\ UNCHANGED <<streaming, agent>>
    BY <1>16 DEF AuthCompletes
  <2>2. QED
    BY <1>1, <2>1, AuthCompletesEffect DEF TypeInv, Rest, agent, Quiet
<1>17. CASE UNCHANGED vars
  BY <1>17 DEF TypeInv, InPlace, Arranged, Distinct, Position, Rest, vars, ui, agent
<1>18. Next => TypeInv'
  BY <1>3, <1>4, <1>5, <1>6, <1>7, <1>8, <1>9, <1>10, <1>11, <1>12, <1>13, <1>14, <1>15, <1>16,
     KindFacts DEF Next
<1>19. QED
  BY <1>17, <1>18

LEMMA TypeInit ==
    ASSUME Init
    PROVE  TypeInv
<1>1. messages = <<>> /\ streaming = {} /\ turn = 0 /\ live = FALSE /\ ended = "no" /\ block = <<>>
      /\ done = {} /\ sent = [t \in Tool |-> {}] /\ queue = [u \in User |-> "unsent"]
  BY DEF Init
<1>2. messages \in Seq(Message) /\ Len(messages) = 0 /\ 1..0 = {}
  BY <1>1
<1>3. InPlace
  BY <1>2 DEF InPlace, Arranged, Distinct, Position
<1>4. Rest
  <2>1. block \in Seq(Kinds) /\ turn \in 0..MaxTurn /\ ended \in {"no", "complete", "error", "interrupted", "paused"}
    BY <1>1, KindFacts
  <2>2. sent \in [Tool -> SUBSET {"start", "result", "background", "over", "closed"}]
    BY <1>1
  <2>3. queue \in [User -> {"unsent", "queued", "waiting", "processing", "dropped"}]
    BY <1>1
  <2>4. QED
    BY <1>1, <2>1, <2>2, <2>3 DEF Rest
<1>5. QED
  BY <1>3, <1>4 DEF TypeInv

(* In every state the transcript is one of well-formed messages, and their *)
(* places are the numbers from one on: no handler gives two messages one   *)
(* place, whatever agents and users do.                                    *)
THEOREM Types == Spec => []TypeOK
<1>1. Init => TypeInv
  BY TypeInit
<1>2. TypeInv /\ [Next]_vars => TypeInv'
  BY TypeStep
<1>3. TypeInv => TypeOK
  BY Typed
<1>4. QED
  BY <1>1, <1>2, <1>3, PTL DEF Spec
-----------------------------------------------------------------------------
(* Calls.  A call is shown by one message, and the message of a call tells *)
(* which of the call's events have come.                                   *)
CallOk(m, events, runs, end) ==
    /\ m.background # "no" => "background" \in events
    /\ "over" \in events /\ m.background = "task" => m.status = "ended"
    /\ "result" \in events /\ "background" \notin events => m.status = "ended"
    /\ ~runs /\ end \in {"complete", "error", "interrupted"} /\ m.status # "ended" =>
          m.background = "task" \/ (m.shown /\ end # "complete")

SentOk(events) ==
    "over" \in events => "background" \in events /\ ("result" \in events \/ "closed" \in events)

OneEach == \A i, j \in At("tool") : messages[i].use = messages[j].use => i = j

CallsOk == \A i \in At("tool") : CallOk(messages[i], sent[messages[i].use], live, ended)

EventsOk ==
    \A t \in Tool :
        SentOk(sent[t]) /\ (sent[t] # {} => \E i \in At("tool") : messages[i].use = t)

ToolInv == OneEach /\ CallsOk /\ EventsOk

LEMMA UsesTool ==
    ASSUME Arranged
    PROVE  \A i \in At("tool") : messages[i].use \in Tool
<1>1. \A i \in At("tool") : messages[i] \in Message /\ messages[i].role = "tool"
  BY Basics DEF At
<1>2. \A i \in At("tool") : messages[i] \in Calls
  BY <1>1, Roles
<1>3. QED
  BY <1>2 DEF Calls

(* No call comes or goes.                                                  *)
LEMMA CallsKept ==
    ASSUME ToolInv, At("tool")' = At("tool"),
           \A i \in At("tool") :
               /\ messages'[i].use = messages[i].use
               /\ CallOk(messages'[i], sent'[messages[i].use], live', ended'),
           \A t \in Tool : SentOk(sent'[t]) /\ (sent'[t] # {} => sent[t] # {})
    PROVE  ToolInv'
<1>1. OneEach'
  BY DEF ToolInv, OneEach
<1>2. CallsOk'
  BY DEF CallsOk
<1>3. EventsOk'
  <2> SUFFICES ASSUME NEW t \in Tool
               PROVE  SentOk(sent'[t]) /\ (sent'[t] # {} => \E i \in At("tool")' : messages'[i].use = t)
    BY DEF EventsOk
  <2>1. sent[t] # {} => \E i \in At("tool") : messages[i].use = t
    BY DEF ToolInv, EventsOk
  <2>2. QED
    BY <2>1
<1>4. QED
  BY <1>1, <1>2, <1>3 DEF ToolInv

LEMMA CallsSame ==
    ASSUME Arranged, ToolInv, Same("tool"), sent' = sent,
           live' \/ (live' = live /\ ended' = ended)
    PROVE  ToolInv'
<1>1. At("tool")' = At("tool") /\ \A i \in At("tool") : Alike(messages[i], messages'[i])
  BY DEF Same
<1>2. \A i \in At("tool") : messages[i].role = "tool"
  BY DEF At
<1>3. \A i \in At("tool") :
          /\ messages'[i].use = messages[i].use
          /\ CallOk(messages'[i], sent'[messages[i].use], live', ended')
  BY <1>1, <1>2 DEF Alike, ToolInv, CallsOk, CallOk
<1>4. \A t \in Tool : SentOk(sent'[t]) /\ (sent'[t] # {} => sent[t] # {})
  BY DEF ToolInv, EventsOk
<1>5. QED
  BY <1>1, <1>3, <1>4, CallsKept

(* Of one call the message changes or comes.                               *)
LEMMA CallChanged ==
    ASSUME Arranged, ToolInv, NEW t \in Tool, NEW i, CallOf(t, i),
           \A u \in Tool : u # t => sent'[u] = sent[u],
           live' = live, ended' = ended,
           SentOk(sent'[t]), CallOk(messages'[i], sent'[t], live', ended')
    PROVE  ToolInv'
<1>1. /\ At("tool")' = At("tool") \cup {i}
      /\ \A j \in At("tool") : j # i => Alike(messages[j], messages'[j])
      /\ messages'[i].use = t
  BY DEF CallOf, OneOf
<1>2. \A j \in At("tool") : j # i => messages[j].use # t
  BY DEF CallOf, ToolInv, OneEach
<1>3. \A j \in At("tool") : messages[j].role = "tool" /\ messages[j].use \in Tool
  BY UsesTool DEF At
<1>4. \A j \in At("tool") : j # i => messages'[j].use = messages[j].use
  BY <1>1, <1>3 DEF Alike
<1>5. OneEach'
  BY <1>1, <1>2, <1>4 DEF OneEach, ToolInv
<1>6. CallsOk'
  <2> SUFFICES ASSUME NEW j \in At("tool")'
               PROVE  CallOk(messages'[j], sent'[messages'[j].use], live', ended')
    BY DEF CallsOk
  <2>1. CASE j = i
    BY <1>1, <2>1
  <2>2. CASE j # i
    <3>1. j \in At("tool") /\ Alike(messages[j], messages'[j]) /\ messages'[j].use = messages[j].use
      BY <1>1, <1>4, <2>2
    <3>2. sent'[messages[j].use] = sent[messages[j].use]
      BY <1>2, <1>3, <2>2, <3>1
    <3>3. CallOk(messages[j], sent[messages[j].use], live, ended)
      BY <3>1 DEF ToolInv, CallsOk
    <3>4. CallOk(messages'[j], sent[messages[j].use], live, ended)
      BY <1>3, <3>1, <3>3 DEF Alike, CallOk
    <3>5. QED
      BY <3>1, <3>2, <3>4
  <2>3. QED
    BY <2>1, <2>2
<1>7. EventsOk'
  <2> SUFFICES ASSUME NEW u \in Tool
               PROVE  SentOk(sent'[u]) /\ (sent'[u] # {} => \E j \in At("tool")' : messages'[j].use = u)
    BY DEF EventsOk
  <2>1. CASE u = t
    BY <1>1, <2>1
  <2>2. CASE u # t
    <3>1. SentOk(sent'[u]) /\ (sent'[u] # {} => \E j \in At("tool") : messages[j].use = u)
      BY <2>2 DEF ToolInv, EventsOk
    <3>2. \A j \in At("tool") : messages[j].use = u => j # i /\ j \in At("tool")' /\ messages'[j].use = u
      BY <1>1, <1>4, <2>2 DEF CallOf
    <3>3. QED
      BY <3>1, <3>2
  <2>3. QED
    BY <2>1, <2>2
<1>8. QED
  BY <1>5, <1>6, <1>7 DEF ToolInv

LEMMA SentNow ==
    ASSUME Rest, NEW t \in Tool, NEW event \in {"start", "result", "background", "over"}, Sends(t, event)
    PROVE  /\ sent'[t] = sent[t] \cup {event} /\ event \notin sent[t]
           /\ \A u \in Tool : u # t => sent'[u] = sent[u]
           /\ live' = live /\ ended' = ended
BY SendsTyped DEF Rest

LEMMA ToolActionStep ==
    ASSUME TypeInv, ToolInv, NEW t \in Tool,
           ToolStarts(t) \/ ToolStartsAgain(t) \/ ToolStreams(t) \/ GoesBackground(t) \/ TaskEnds(t)
    PROVE  ToolInv'
<1>1. Arranged /\ Rest /\ (live => turn \in 1..MaxTurn)
  BY KindFacts DEF TypeInv, InPlace, Rest
<1>2. /\ SentOk(sent[t])
      /\ sent[t] # {} => \E j \in At("tool") : messages[j].use = t
  BY DEF ToolInv, EventsOk
<1>3. ASSUME NEW i \in At("tool"), messages[i].use = t
      PROVE  CallOk(messages[i], sent[t], live, ended) /\ messages[i].role = "tool"
  BY <1>3 DEF ToolInv, CallsOk, At
<1>4. ASSUME NEW i, CallOf(t, i), sent[t] # {}
      PROVE  i \in At("tool") /\ messages[i].use = t
  BY <1>2, <1>4 DEF CallOf
<1>5. CASE ToolStarts(t)
  <2>1. ToolStart(t) /\ Sends(t, "start") /\ live
    BY <1>5 DEF ToolStarts, Working
  <2>2. PICK i : /\ CallOf(t, i)
                 /\ IF i \in At("tool") THEN Alike(messages[i], messages'[i])
                    ELSE messages'[i].background = "no"
    BY <1>1, <2>1, ToolStartEffect
  <2>3. /\ sent'[t] = sent[t] \cup {"start"} /\ \A u \in Tool : u # t => sent'[u] = sent[u]
        /\ live' = live /\ ended' = ended
    BY <1>1, <2>1, SentNow
  <2>4. SentOk(sent'[t])
    BY <1>2, <2>3 DEF SentOk
  <2>5. CASE i \in At("tool")
    <3>1. messages[i].use = t /\ Alike(messages[i], messages'[i])
      BY <2>2, <2>5 DEF CallOf
    <3>2. CallOk(messages'[i], sent'[t], live', ended')
      BY <1>3, <2>3, <2>5, <3>1 DEF CallOk, Alike
    <3>3. QED
      BY <1>1, <2>2, <2>3, <2>4, <3>2, CallChanged
  <2>6. CASE i \notin At("tool")
    <3>1. sent[t] = {} /\ messages'[i].background = "no"
      BY <1>4, <2>2, <2>6
    <3>2. CallOk(messages'[i], sent'[t], live', ended')
      BY <2>1, <2>3, <3>1 DEF CallOk
    <3>3. QED
      BY <1>1, <2>2, <2>3, <2>4, <3>2, CallChanged
  <2>7. QED
    BY <2>5, <2>6
<1>6. CASE ToolStartsAgain(t)
  <2>1. ToolStart(t) /\ UNCHANGED <<sent, live, ended>> /\ live /\ sent[t] # {}
    BY <1>6 DEF ToolStartsAgain, Working, Has, agent
  <2>2. PICK i : /\ CallOf(t, i)
                 /\ IF i \in At("tool") THEN Alike(messages[i], messages'[i])
                    ELSE messages'[i].background = "no"
    BY <1>1, <2>1, ToolStartEffect
  <2>3. i \in At("tool") /\ messages[i].use = t
    BY <1>4, <2>1, <2>2
  <2>4. CallOk(messages'[i], sent'[t], live', ended')
    BY <1>3, <2>1, <2>2, <2>3 DEF CallOk, Alike
  <2>5. SentOk(sent'[t]) /\ \A u \in Tool : u # t => sent'[u] = sent[u]
    BY <1>2, <2>1
  <2>6. QED
    BY <1>1, <2>1, <2>2, <2>4, <2>5, CallChanged
<1>7. CASE ToolStreams(t)
  <2>1. ToolDelta(t) /\ UNCHANGED <<sent, live, ended>> /\ live /\ sent[t] # {}
    BY <1>7 DEF ToolStreams, Working, Has, agent
  <2>2. PICK i : /\ CallOf(t, i)
                 /\ IF i \in At("tool")
                    THEN /\ messages'[i].status = messages[i].status
                         /\ messages'[i].background = messages[i].background
                    ELSE messages'[i].background = "no"
    BY <1>1, <2>1, ToolDeltaEffect
  <2>3. i \in At("tool") /\ messages[i].use = t
    BY <1>4, <2>1, <2>2
  <2>4. CallOk(messages'[i], sent'[t], live', ended')
    BY <1>3, <2>1, <2>2, <2>3 DEF CallOk
  <2>5. SentOk(sent'[t]) /\ \A u \in Tool : u # t => sent'[u] = sent[u]
    BY <1>2, <2>1
  <2>6. QED
    BY <1>1, <2>1, <2>2, <2>4, <2>5, CallChanged
<1>8. CASE GoesBackground(t)
  <2>1. Sends(t, "background") /\ live /\ sent[t] # {}
        /\ \E background \in {"task", "shell"} : Backgrounded(t, background)
    BY <1>8 DEF GoesBackground, Working, Has
  <2>2. PICK background \in {"task", "shell"} : Backgrounded(t, background)
    BY <2>1
  <2>3. PICK i \in At("tool") :
            /\ CallOf(t, i)
            /\ messages'[i].status = "backgrounded" /\ messages'[i].background = background
    BY <1>1, <1>2, <2>1, <2>2, BackgroundedEffect
  <2>4. /\ sent'[t] = sent[t] \cup {"background"} /\ "background" \notin sent[t]
        /\ \A u \in Tool : u # t => sent'[u] = sent[u]
        /\ live' = live /\ ended' = ended
    BY <1>1, <2>1, SentNow
  <2>5. "over" \notin sent'[t]
    BY <1>2, <2>4 DEF SentOk
  <2>6. SentOk(sent'[t]) /\ CallOk(messages'[i], sent'[t], live', ended')
    BY <2>1, <2>4, <2>5 DEF SentOk, CallOk
  <2>7. QED
    BY <1>1, <2>3, <2>4, <2>6, CallChanged
<1>9. CASE TaskEnds(t)
  <2>1. /\ Sends(t, "over") /\ TaskCompleted(t) /\ "background" \in sent[t]
        /\ "result" \in sent[t] \/ "closed" \in sent[t]
    BY <1>9 DEF TaskEnds, Has
  <2>2. PICK i \in At("tool") :
            /\ CallOf(t, i)
            /\ messages'[i].background = messages[i].background
            /\ IF messages[i].background = "task" THEN messages'[i].status = "ended"
               ELSE Alike(messages[i], messages'[i])
    BY <1>1, <1>2, <2>1, TaskCompletedEffect
  <2>3. /\ sent'[t] = sent[t] \cup {"over"}
        /\ \A u \in Tool : u # t => sent'[u] = sent[u]
        /\ live' = live /\ ended' = ended
    BY <1>1, <2>1, SentNow
  <2>4. SentOk(sent'[t])
    BY <2>1, <2>3 DEF SentOk
  <2>5. messages[i].use = t
    BY <2>2 DEF CallOf
  <2>6. CallOk(messages'[i], sent'[t], live', ended')
    BY <1>3, <2>1, <2>2, <2>3, <2>5 DEF CallOk, Alike
  <2>7. QED
    BY <1>1, <2>2, <2>3, <2>4, <2>6, CallChanged
<1>10. QED
  BY <1>5, <1>6, <1>7, <1>8, <1>9

LEMMA ToolReturnsStep ==
    ASSUME TypeInv, ToolInv, NEW t \in Tool, ToolReturns(t)
    PROVE  ToolInv'
<1>1. Arranged /\ Rest /\ turn \in 1..MaxTurn /\ live
      /\ ToolResult(t) /\ Sends(t, "result")
  BY KindFacts DEF TypeInv, InPlace, Rest, ToolReturns, Working
<1>2. /\ sent'[t] = sent[t] \cup {"result"} /\ \A u \in Tool : u # t => sent'[u] = sent[u]
      /\ live' = live /\ ended' = ended
  BY <1>1, SentNow
<1>3. PICK i :
          /\ At("tool")' = At("tool") \cup {i}
          /\ messages'[i].use = t
          /\ messages'[i].background # "no" \/ messages'[i].status = "ended"
          /\ IF i \in At("tool")
             THEN messages[i].use = t /\ messages'[i].background = messages[i].background
             ELSE /\ messages'[i].background = "no"
                  /\ \A j \in At("tool") : messages[j].use # t
          /\ \A j \in At("tool") : j # i =>
                /\ messages'[j].use = messages[j].use
                /\ messages'[j].background = messages[j].background
                /\ messages'[j].status \in {messages[j].status, "ended"}
  BY <1>1, ToolResultEffect
<1>4. /\ SentOk(sent[t])
      /\ \A j \in At("tool") : messages[j].use \in Tool
      /\ \A j \in At("tool") : j # i => messages[j].use # t
  BY <1>1, <1>3, UsesTool DEF ToolInv, EventsOk, OneEach
<1>5. SentOk(sent'[t])
  BY <1>2, <1>4 DEF SentOk
<1>6. CallOk(messages'[i], sent'[t], live', ended')
  <2>1. messages'[i].background # "no" => "background" \in sent[t]
    BY <1>3 DEF ToolInv, CallsOk, CallOk
  <2>2. "over" \in sent'[t] /\ messages'[i].background = "task" => messages'[i].status = "ended"
    <3> SUFFICES ASSUME "over" \in sent'[t], messages'[i].background = "task"
                 PROVE  FALSE
      OBVIOUS
    <3>1. "over" \in sent[t] /\ "result" \notin sent[t] /\ "closed" \notin sent[t]
      BY <1>1, <1>2, SentNow DEF ToolReturns, Has
    <3>2. QED
      BY <1>4, <3>1 DEF SentOk
  <2>3. QED
    BY <1>1, <1>2, <1>3, <2>1, <2>2 DEF CallOk
<1>7. OneEach'
  BY <1>3, <1>4 DEF OneEach, ToolInv
<1>8. CallsOk'
  <2> SUFFICES ASSUME NEW j \in At("tool")'
               PROVE  CallOk(messages'[j], sent'[messages'[j].use], live', ended')
    BY DEF CallsOk
  <2>1. CASE j = i
    BY <1>3, <1>6, <2>1
  <2>2. CASE j # i
    <3>1. /\ j \in At("tool") /\ messages'[j].use = messages[j].use
          /\ messages'[j].background = messages[j].background
          /\ messages'[j].status \in {messages[j].status, "ended"}
      BY <1>3, <2>2
    <3>2. sent'[messages[j].use] = sent[messages[j].use]
      BY <1>2, <1>4, <2>2, <3>1
    <3>3. CallOk(messages[j], sent[messages[j].use], live, ended)
      BY <3>1 DEF ToolInv, CallsOk
    <3>4. CallOk(messages'[j], sent[messages[j].use], live, ended)
      BY <1>1, <3>1, <3>3 DEF CallOk
    <3>5. QED
      BY <1>2, <3>1, <3>2, <3>4
  <2>3. QED
    BY <2>1, <2>2
<1>9. EventsOk'
  <2> SUFFICES ASSUME NEW u \in Tool
               PROVE  SentOk(sent'[u]) /\ (sent'[u] # {} => \E j \in At("tool")' : messages'[j].use = u)
    BY DEF EventsOk
  <2>1. CASE u = t
    BY <1>3, <1>5, <2>1
  <2>2. CASE u # t
    <3>1. SentOk(sent'[u]) /\ (sent'[u] # {} => \E j \in At("tool") : messages[j].use = u)
      BY <1>2, <2>2 DEF ToolInv, EventsOk
    <3>2. \A j \in At("tool") : messages[j].use = u => j # i /\ j \in At("tool")' /\ messages'[j].use = u
      BY <1>3, <2>2
    <3>3. QED
      BY <3>1, <3>2
  <2>3. QED
    BY <2>1, <2>2
<1>10. QED
  BY <1>7, <1>8, <1>9 DEF ToolInv

(* The end of a turn closes its calls.                                     *)
LEMMA EndTurnCalls ==
    ASSUME Rest, ToolInv, NEW how \in {"complete", "error", "interrupted", "paused"}, EndTurn(how)
    PROVE  /\ live' = FALSE /\ ended' = how /\ live
           /\ \A t \in Tool :
                 /\ SentOk(sent'[t])
                 /\ sent'[t] # {} => sent[t] # {}
                 /\ \A event \in {"result", "background", "over"} :
                       event \in sent'[t] <=> event \in sent[t]
<1>1. \A t \in Tool : sent'[t] = IF sent[t] = {} THEN {} ELSE sent[t] \cup {"closed"}
  BY DEF EndTurn
<1>2. \A t \in Tool : SentOk(sent[t])
  BY DEF ToolInv, EventsOk
<1>3. live' = FALSE /\ ended' = how /\ live
  BY EndTurnTyped
<1>4. ASSUME NEW t \in Tool
      PROVE  /\ SentOk(sent'[t])
             /\ sent'[t] # {} => sent[t] # {}
             /\ \A event \in {"result", "background", "over"} :
                   event \in sent'[t] <=> event \in sent[t]
  <2>1. CASE sent[t] = {}
    <3>1. sent'[t] = {}
      BY <1>1, <2>1
    <3>2. QED
      BY <2>1, <3>1 DEF SentOk
  <2>2. CASE sent[t] # {}
    <3>1. sent'[t] = sent[t] \cup {"closed"}
      BY <1>1, <2>2
    <3>2. SentOk(sent'[t])
      BY <1>2, <3>1 DEF SentOk
    <3>3. QED
      BY <2>2, <3>1, <3>2
  <2>3. QED
    BY <2>1, <2>2
<1>5. QED
  BY <1>3, <1>4

(* A call that is ended, or goes on, at the end of a turn.                 *)
LEMMA CallAtEnd ==
    ASSUME NEW m, NEW o, NEW events, NEW closed, NEW end,
           Ends(m, o), CallOk(m, events, TRUE, "no"),
           \A event \in {"result", "background", "over"} : event \in closed <=> event \in events,
           end \in {"complete", "error", "interrupted"} /\ o.status # "ended" =>
               o.background = "task" \/ (o.shown /\ end # "complete")
    PROVE  CallOk(o, closed, FALSE, end)
BY DEF Ends, CallOk

LEMMA CallsRun ==
    ASSUME ToolInv
    PROVE  \A i \in At("tool") : CallOk(messages[i], sent[messages[i].use], TRUE, "no")
BY DEF ToolInv, CallsOk, CallOk

LEMMA ToolStep ==
    ASSUME TypeInv, ToolInv, [Next]_vars
    PROVE  ToolInv'
<1>1. Arranged /\ Rest
  BY DEF TypeInv, InPlace
<1>2. live => turn \in 1..MaxTurn
  BY <1>1, KindFacts DEF Rest
<1>3. ASSUME NEW id \in User \cup (1..MaxTurn), NEW status, UserMessage(id, status)
      PROVE  Same("tool")
  BY <1>1, <1>3, UserMessageEffect
<1>4. CASE Send
  <2>1. UserMessage(turn + 1, "accepted") /\ live' /\ sent' = sent
    BY <1>4 DEF Send, StartTurn
  <2>2. turn + 1 \in 1..MaxTurn
    BY <1>1, <1>4, KindFacts DEF Send, StartTurn, Rest
  <2>3. QED
    BY <1>1, <1>3, <2>1, <2>2, CallsSame
<1>5. ASSUME NEW u \in User, QueueMessage(u) PROVE ToolInv'
  <2>1. UserMessage(u, "queued") /\ UNCHANGED <<sent, live, ended>>
    BY <1>5 DEF QueueMessage, Turns
  <2>2. QED
    BY <1>1, <1>3, <2>1, CallsSame
<1>6. ASSUME NEW u \in User, ProcessQueued(u) PROVE ToolInv'
  <2>1. UserMessage(u, "processing") /\ live' /\ sent' = sent
    BY <1>6 DEF ProcessQueued, StartTurn
  <2>2. QED
    BY <1>1, <1>3, <2>1, CallsSame
<1>7. ASSUME NEW k \in Kinds, BeginBlock(k) \/ WholeBlock(k) \/ EndBlock(k) PROVE ToolInv'
  <2>1. UNCHANGED <<turn, live, ended, sent>> /\ live
    BY <1>7 DEF BeginBlock, WholeBlock, EndBlock, Begins, Turns
  <2>2. /\ {<<turn, k>>} \in SUBSET Block /\ {} \in SUBSET Block /\ turn \in 1..MaxTurn
        /\ (k = "think") \in BOOLEAN /\ streaming \in SUBSET Block
    BY <1>1, <1>2, <2>1, KindFacts DEF Rest
  <2>3. \/ TextDelta(turn, {<<turn, k>>}, k = "think")
        \/ \E text \in {{<<turn, k>>}, {}} : TextComplete(turn, text, k = "think")
    BY <1>7 DEF BeginBlock, WholeBlock, EndBlock
  <2>4. Same("tool")
    <3>1. CASE TextDelta(turn, {<<turn, k>>}, k = "think")
      BY <1>1, <2>2, <3>1, TextDeltaEffect
    <3>2. CASE \E text \in {{<<turn, k>>}, {}} : TextComplete(turn, text, k = "think")
      BY <1>1, <2>2, <3>2, TextCompleteEffect
    <3>3. QED
      BY <2>3, <3>1, <3>2
  <2>5. QED
    BY <1>1, <2>1, <2>4, CallsSame
<1>8. ASSUME NEW t \in Tool,
             ToolStarts(t) \/ ToolStartsAgain(t) \/ ToolStreams(t) \/ ToolReturns(t)
                \/ GoesBackground(t) \/ TaskEnds(t)
      PROVE  ToolInv'
  BY <1>8, ToolActionStep, ToolReturnsStep
<1>9. CASE TurnCompletes
  <2>1. EndTurn("complete") /\ Complete
    BY <1>9 DEF TurnCompletes
  <2>2. /\ At("tool")' = At("tool")
        /\ \A j \in At("tool") :
              /\ Ends(messages[j], messages'[j])
              /\ messages'[j].status # "ended" => messages'[j].background = "task"
    BY <1>1, <2>1, CompleteEffect
  <2>3. /\ live' = FALSE /\ ended' = "complete"
        /\ \A t \in Tool :
              /\ SentOk(sent'[t])
              /\ sent'[t] # {} => sent[t] # {}
              /\ \A event \in {"result", "background", "over"} :
                    event \in sent'[t] <=> event \in sent[t]
    BY <1>1, <2>1, EndTurnCalls
  <2>4. ASSUME NEW i \in At("tool")
        PROVE  /\ messages'[i].use = messages[i].use
               /\ CallOk(messages'[i], sent'[messages[i].use], live', ended')
    <3>1. messages[i].use \in Tool /\ CallOk(messages[i], sent[messages[i].use], TRUE, "no")
      BY <1>1, UsesTool, CallsRun
    <3>2. CallOk(messages'[i], sent'[messages[i].use], FALSE, "complete")
      BY <2>2, <2>3, <3>1, CallAtEnd
    <3>3. QED
      BY <2>2, <2>3, <3>2 DEF Ends
  <2>5. QED
    BY <2>2, <2>3, <2>4, CallsKept
<1>10. CASE TurnFails
  <2>1. EndTurn("error") /\ HandleError
    BY <1>10 DEF TurnFails
  <2>2. /\ At("tool")' = At("tool")
        /\ \A j \in At("tool") :
              /\ Ends(messages[j], messages'[j])
              /\ messages'[j].status # "ended" => messages'[j].shown
    BY <1>1, <2>1, HandleErrorEffect
  <2>3. /\ live' = FALSE /\ ended' = "error"
        /\ \A t \in Tool :
              /\ SentOk(sent'[t])
              /\ sent'[t] # {} => sent[t] # {}
              /\ \A event \in {"result", "background", "over"} :
                    event \in sent'[t] <=> event \in sent[t]
    BY <1>1, <2>1, EndTurnCalls
  <2>4. ASSUME NEW i \in At("tool")
        PROVE  /\ messages'[i].use = messages[i].use
               /\ CallOk(messages'[i], sent'[messages[i].use], live', ended')
    <3>1. messages[i].use \in Tool /\ CallOk(messages[i], sent[messages[i].use], TRUE, "no")
      BY <1>1, UsesTool, CallsRun
    <3>2. CallOk(messages'[i], sent'[messages[i].use], FALSE, "error")
      BY <2>2, <2>3, <3>1, CallAtEnd
    <3>3. QED
      BY <2>2, <2>3, <3>2 DEF Ends
  <2>5. QED
    BY <2>2, <2>3, <2>4, CallsKept
<1>11. ASSUME NEW byUser \in BOOLEAN, Stop(byUser) PROVE ToolInv'
  <2>1. EndTurn("interrupted") /\ Interrupted(byUser)
    BY <1>11 DEF Stop
  <2>2. PICK e : Comes(e, "tool") /\ Goes(e, "tool")
    BY <1>1, <2>1, InterruptedEffect
  <2>3. /\ live' = FALSE /\ ended' = "interrupted"
        /\ \A t \in Tool :
              /\ SentOk(sent'[t])
              /\ sent'[t] # {} => sent[t] # {}
              /\ \A event \in {"result", "background", "over"} :
                    event \in sent'[t] <=> event \in sent[t]
    BY <1>1, <2>1, EndTurnCalls
  <2>4. ASSUME NEW p \in At("tool")'
        PROVE  /\ e[p] \in At("tool") /\ p \in Int /\ e[p] \in Int
               /\ messages'[p].use = messages[e[p]].use
               /\ CallOk(messages'[p], sent'[messages[e[p]].use], live', ended')
    <3>1. e[p] \in At("tool") /\ Alike(Interrupting(messages[e[p]]), messages'[p])
      BY <2>2 DEF Comes
    <3>2. e[p] \in Position /\ messages[e[p]] \in Message /\ messages[e[p]].role = "tool"
      BY <1>1, <3>1, Basics DEF At
    <3>3. /\ Interrupting(messages[e[p]]).role = "tool"
          /\ Ends(messages[e[p]], Interrupting(messages[e[p]]))
          /\ Interrupting(messages[e[p]]).status # "ended" => Interrupting(messages[e[p]]).shown
      BY <3>2, InterruptingMessage DEF SameKind
    <3>4. /\ Ends(messages[e[p]], messages'[p])
          /\ messages'[p].status # "ended" => messages'[p].shown
      BY <3>1, <3>3 DEF Alike, Ends
    <3>5. messages[e[p]].use \in Tool /\ CallOk(messages[e[p]], sent[messages[e[p]].use], TRUE, "no")
      BY <1>1, <3>1, UsesTool, CallsRun
    <3>6. CallOk(messages'[p], sent'[messages[e[p]].use], FALSE, "interrupted")
      BY <2>3, <3>4, <3>5, CallAtEnd
    <3>7. p \in Int /\ e[p] \in Int
      <4>1. \A q \in At("tool")' : q \in Int
        BY DEF At, Position
      <4>2. QED
        BY <3>2, <4>1 DEF Position
    <3>8. QED
      BY <2>3, <3>1, <3>4, <3>6, <3>7 DEF Ends
  <2>5. OneEach'
    <3> SUFFICES ASSUME NEW p \in At("tool")', NEW q \in At("tool")',
                        messages'[p].use = messages'[q].use, p # q
                 PROVE  FALSE
      BY DEF OneEach
    <3>1. e[p] = e[q]
      BY <2>4 DEF ToolInv, OneEach
    <3>2. p < q \/ q < p
      BY <2>4
    <3>3. e[p] < e[q] \/ e[q] < e[p]
      BY <2>2, <3>2 DEF Comes
    <3>4. QED
      BY <2>4, <3>1, <3>3
  <2>6. CallsOk'
    BY <2>4 DEF CallsOk
  <2>7. EventsOk'
    <3> SUFFICES ASSUME NEW t \in Tool
                 PROVE  SentOk(sent'[t]) /\ (sent'[t] # {} => \E p \in At("tool")' : messages'[p].use = t)
      BY DEF EventsOk
    <3>1. sent[t] # {} => \E i \in At("tool") : messages[i].use = t
      BY DEF ToolInv, EventsOk
    <3>2. QED
      BY <2>2, <2>3, <2>4, <3>1 DEF Goes
  <2>8. QED
    BY <2>5, <2>6, <2>7 DEF ToolInv
<1>12. ASSUME Quiet, UNCHANGED agent PROVE ToolInv'
  BY <1>1, <1>12, CallsSame DEF Quiet, agent
<1>13. ASSUME NEW role \in {"status", "compacting", "info", "plan"}, Aside(role) PROVE ToolInv'
  BY <1>1, <1>12, <1>13, AsideEffect DEF Aside
<1>14. CASE CompactionEnds
  BY <1>1, <1>12, <1>14, CompactionEndsEffect DEF CompactionEnds
<1>15. CASE AuthCompletes
  BY <1>1, <1>12, <1>15, AuthCompletesEffect DEF AuthCompletes
<1>16. CASE AuthRequest
  <2>1. /\ EndTurn("paused")
        /\ Shown(Append(messages, [role |-> "auth-request", at |-> Now, status |-> "pending"]))
    BY <1>16 DEF AuthRequest
  <2>2. At("tool")' = At("tool") /\ \A i \in At("tool") : Alike(messages[i], messages'[i])
    BY <1>1, <2>1, LoginEffect DEF Quiet, Same
  <2>3. /\ live' = FALSE /\ ended' = "paused"
        /\ \A t \in Tool :
              /\ SentOk(sent'[t])
              /\ sent'[t] # {} => sent[t] # {}
              /\ \A event \in {"result", "background", "over"} :
                    event \in sent'[t] <=> event \in sent[t]
    BY <1>1, <2>1, EndTurnCalls
  <2>4. ASSUME NEW i \in At("tool")
        PROVE  /\ messages'[i].use = messages[i].use
               /\ CallOk(messages'[i], sent'[messages[i].use], live', ended')
    <3>1. messages[i].use \in Tool /\ CallOk(messages[i], sent[messages[i].use], TRUE, "no")
      BY <1>1, UsesTool, CallsRun
    <3>2. messages[i].role = "tool" /\ Alike(messages[i], messages'[i])
      BY <2>2 DEF At
    <3>3. Ends(messages[i], messages'[i])
      BY <3>2 DEF Alike, Ends
    <3>4. CallOk(messages'[i], sent'[messages[i].use], FALSE, "paused")
      BY <2>3, <3>1, <3>3, CallAtEnd
    <3>5. QED
      BY <2>3, <3>3, <3>4 DEF Ends
  <2>5. QED
    BY <2>2, <2>3, <2>4, CallsKept
<1>17. CASE UNCHANGED vars
  BY <1>17 DEF ToolInv, OneEach, CallsOk, EventsOk, At, Position, vars, ui, agent
<1>18. Next => ToolInv'
  BY <1>4, <1>5, <1>6, <1>7, <1>8, <1>9, <1>10, <1>11, <1>13, <1>14, <1>15, <1>16, KindFacts DEF Next
<1>19. QED
  BY <1>17, <1>18
-----------------------------------------------------------------------------
(* The messages of users.  A message has one bubble, which it shares only  *)
(* with its repetitions, and the bubble goes by what became of them.       *)
LEMMA StandsFacts ==
    ASSUME NEW b, NEW c, NEW d
    PROVE  /\ Stands(b, b)
           /\ Stands(b, c) => Stands(c, b)
           /\ Stands(b, c) /\ Stands(c, d) => Stands(b, d)
BY DEF Stands

Fresh(id, q) == \A u \in User : Stands(id, u) => q[u] \in {"unsent", "queued"}

BubbleOk(m, q) ==
    /\ m.id \in User => q[m.id] # "unsent"
    /\ \A u \in User : Stands(m.id, u) /\ q[u] = "processing" => m.queued = FALSE
    /\ \A u \in User : Stands(m.id, u) /\ q[u] = "queued" /\ m.id \in User /\ Fresh(m.id, q)
          => m.queued = TRUE

OneBubble == \A i, j \in At("user") : Stands(messages[i].id, messages[j].id) => i = j

BubblesOk == \A i \in At("user") : BubbleOk(messages[i], queue)

Sent(what) == what \in {"queued", "waiting", "processing"}

SentIsThere == \A u \in User : Sent(queue[u]) => \E i \in At("user") : Stands(messages[i].id, u)

NoneQueuedAtEnd == ~live /\ ended = "complete" => \A i \in At("user") : messages[i].queued = FALSE

UserInv == OneBubble /\ BubblesOk /\ SentIsThere /\ NoneQueuedAtEnd

LEMMA BubblesSame ==
    ASSUME UserInv, Same("user"), queue' = queue,
           live' \/ (live' = live /\ ended' = ended) \/ ended' # "complete"
    PROVE  UserInv'
<1>1. /\ At("user")' = At("user")
      /\ \A i \in At("user") : messages'[i].id = messages[i].id /\ messages'[i].queued = messages[i].queued
  BY DEF Same, Alike, At
<1>2. OneBubble'
  BY <1>1 DEF UserInv, OneBubble
<1>3. BubblesOk'
  BY <1>1 DEF UserInv, BubblesOk, BubbleOk
<1>4. SentIsThere'
  BY <1>1 DEF UserInv, SentIsThere
<1>5. NoneQueuedAtEnd'
  BY <1>1 DEF UserInv, NoneQueuedAtEnd
<1>6. QED
  BY <1>2, <1>3, <1>4, <1>5 DEF UserInv

(* The bubble i of the message id changes or comes.                        *)
BubbleOf(id, i) ==
    /\ OneOf("user", i)
    /\ IF i \in At("user")
       THEN messages'[i].id = messages[i].id /\ Stands(messages[i].id, id)
       ELSE messages'[i].id = id /\ \A j \in At("user") : ~Stands(messages[j].id, id)

LEMMA BubbleChanged ==
    ASSUME UserInv, NEW id, NEW i, BubbleOf(id, i),
           \A u \in User : u # id => queue'[u] = queue[u],
           BubbleOk(messages'[i], queue'),
           live' \/ (live' = live /\ ended' = ended /\ messages'[i].queued = FALSE)
    PROVE  UserInv'
<1>1. /\ At("user")' = At("user") \cup {i}
      /\ \A j \in At("user") : j # i =>
            messages'[j].id = messages[j].id /\ messages'[j].queued = messages[j].queued
  BY DEF BubbleOf, OneOf, Alike, At
<1>2. Stands(messages'[i].id, id)
  BY StandsFacts DEF BubbleOf
<1>3. ASSUME NEW j \in At("user"), j # i PROVE ~Stands(messages[j].id, id)
  <2>1. CASE i \in At("user")
    <3>1. ~Stands(messages[j].id, messages[i].id) /\ Stands(messages[i].id, id)
      BY <1>3, <2>1 DEF UserInv, OneBubble, BubbleOf
    <3>2. QED
      BY <3>1, StandsFacts
  <2>2. CASE i \notin At("user")
    BY <1>3, <2>2 DEF BubbleOf
  <2>3. QED
    BY <2>1, <2>2
<1>4. OneBubble'
  <2> SUFFICES ASSUME NEW j \in At("user")', NEW k \in At("user")',
                      Stands(messages'[j].id, messages'[k].id), j # k
               PROVE  FALSE
    BY DEF OneBubble
  <2>1. CASE j # i /\ k # i
    BY <1>1, <2>1 DEF UserInv, OneBubble
  <2>2. CASE j = i
    <3>1. k \in At("user") /\ k # i /\ messages'[k].id = messages[k].id
      BY <1>1, <2>2
    <3>2. Stands(messages[k].id, id)
      BY <1>2, <2>2, <3>1, StandsFacts
    <3>3. QED
      BY <1>3, <3>1, <3>2
  <2>3. CASE k = i
    <3>1. j \in At("user") /\ j # i /\ messages'[j].id = messages[j].id
      BY <1>1, <2>3
    <3>2. Stands(messages[j].id, id)
      BY <1>2, <2>3, <3>1, StandsFacts
    <3>3. QED
      BY <1>3, <3>1, <3>2
  <2>4. QED
    BY <2>1, <2>2, <2>3
<1>5. BubblesOk'
  <2> SUFFICES ASSUME NEW j \in At("user")', j # i PROVE BubbleOk(messages'[j], queue')
    BY DEF BubblesOk
  <2>1. /\ j \in At("user") /\ ~Stands(messages[j].id, id) /\ BubbleOk(messages[j], queue)
        /\ messages'[j].id = messages[j].id /\ messages'[j].queued = messages[j].queued
    BY <1>1, <1>3 DEF UserInv, BubblesOk
  <2>2. \A u \in User : Stands(messages[j].id, u) => queue'[u] = queue[u]
    BY <2>1
  <2>3. messages[j].id \in User => queue'[messages[j].id] = queue[messages[j].id]
    BY <2>2, StandsFacts
  <2>4. Fresh(messages'[j].id, queue') => Fresh(messages[j].id, queue)
    BY <2>1, <2>2 DEF Fresh
  <2>5. QED
    BY <2>1, <2>2, <2>3, <2>4 DEF BubbleOk
<1>6. SentIsThere'
  <2> SUFFICES ASSUME NEW u \in User, Sent(queue'[u])
               PROVE  \E j \in At("user")' : Stands(messages'[j].id, u)
    BY DEF SentIsThere
  <2>1. CASE u = id
    BY <1>1, <1>2, <2>1
  <2>2. CASE u # id
    <3>1. PICK j \in At("user") : Stands(messages[j].id, u)
      BY <2>2 DEF UserInv, SentIsThere
    <3>2. messages'[j].id = messages[j].id
      BY <1>1 DEF BubbleOf
    <3>3. QED
      BY <1>1, <3>1, <3>2
  <2>3. QED
    BY <2>1, <2>2
<1>7. NoneQueuedAtEnd'
  BY <1>1 DEF UserInv, NoneQueuedAtEnd
<1>8. QED
  BY <1>4, <1>5, <1>6, <1>7 DEF UserInv

LEMMA UserStep ==
    ASSUME TypeInv, UserInv, [Next]_vars
    PROVE  UserInv'
<1>1. Arranged /\ Rest
  BY DEF TypeInv, InPlace
<1>2. live => turn \in 1..MaxTurn
  BY <1>1, KindFacts DEF Rest
<1>3. User \cap (1..MaxTurn) = {}
  BY ProcessorAssumption
<1>4. CASE Send
  <2>1. /\ UserMessage(turn + 1, "accepted") /\ live' /\ queue' = queue
        /\ \A u \in User : queue[u] # "queued"
    BY <1>4 DEF Send, StartTurn, Waits
  <2>2. turn + 1 \in 1..MaxTurn
    BY <1>1, <1>4, KindFacts DEF Send, StartTurn, Rest
  <2>3. turn + 1 \notin User
    BY <1>3, <2>2
  <2>4. PICK i : /\ BubbleOf(turn + 1, i)
                 /\ messages'[i].queued =
                       ("accepted" = "queued" /\ (i \in At("user") => messages[i].queued))
    BY <1>1, <2>1, <2>2, UserMessageEffect DEF BubbleOf
  <2>5. messages'[i].queued = FALSE
    BY <2>4
  <2>6. messages'[i].id \in User => queue'[messages'[i].id] # "unsent"
    BY <2>1, <2>3, <2>4 DEF BubbleOf, UserInv, BubblesOk, BubbleOk
  <2>7. BubbleOk(messages'[i], queue')
    BY <2>1, <2>5, <2>6 DEF BubbleOk
  <2>8. QED
    BY <2>1, <2>4, <2>7, BubbleChanged
<1>5. ASSUME NEW u \in User, QueueMessage(u) PROVE UserInv'
  <2>1. UserMessage(u, "queued") /\ UNCHANGED <<live, ended>>
    BY <1>5 DEF QueueMessage, Turns
  <2>2. PICK i : /\ BubbleOf(u, i)
                 /\ messages'[i].queued =
                       ("queued" = "queued" /\ (i \in At("user") => messages[i].queued))
    BY <1>1, <2>1, UserMessageEffect DEF BubbleOf
  <2>3. CASE live /\ queue[u] = "unsent" /\ queue' = [queue EXCEPT ![u] = "queued"]
    <3>1. queue'[u] = "queued" /\ \A v \in User : v # u => queue'[v] = queue[v]
      BY <1>1, <2>3 DEF Rest
    <3>2. BubbleOk(messages'[i], queue')
      <4>1. CASE i \in At("user")
        <5>1. /\ messages'[i].id = messages[i].id /\ Stands(messages[i].id, u)
              /\ BubbleOk(messages[i], queue) /\ messages'[i].queued = (messages[i].queued = TRUE)
          BY <2>2, <4>1 DEF BubbleOf, UserInv, BubblesOk
        <5>2. messages[i].id \in User => messages[i].id # u
          BY <2>3, <5>1 DEF BubbleOk
        <5>3. messages[i].id \in User => queue'[messages[i].id] # "unsent"
          BY <3>1, <5>1, <5>2 DEF BubbleOk
        <5>4. ASSUME NEW v \in User, Stands(messages[i].id, v), queue'[v] = "processing"
              PROVE  messages'[i].queued = FALSE
          BY <3>1, <5>1, <5>4 DEF BubbleOk
        <5>5. ASSUME messages[i].id \in User, Fresh(messages[i].id, queue')
              PROVE  messages'[i].queued = TRUE
          <6>1. Stands(messages[i].id, messages[i].id) /\ queue[messages[i].id] # "unsent"
            BY <5>1, <5>5, StandsFacts DEF BubbleOk
          <6>2. queue[messages[i].id] = "queued"
            BY <3>1, <5>2, <5>5, <6>1 DEF Fresh
          <6>3. Fresh(messages[i].id, queue)
            BY <2>3, <3>1, <5>5 DEF Fresh
          <6>4. messages[i].queued = TRUE
            BY <5>1, <5>5, <6>1, <6>2, <6>3 DEF BubbleOk
          <6>5. QED
            BY <5>1, <6>4
        <5>6. QED
          BY <5>1, <5>3, <5>4, <5>5 DEF BubbleOk
      <4>2. CASE i \notin At("user")
        <5>1. /\ messages'[i].id = u /\ messages'[i].queued = TRUE
              /\ \A j \in At("user") : ~Stands(messages[j].id, u)
          BY <2>2, <4>2 DEF BubbleOf
        <5>2. ASSUME NEW v \in User, Stands(u, v), queue'[v] = "processing"
              PROVE  FALSE
          <6>1. queue[v] = "processing"
            BY <3>1, <5>2
          <6>2. PICK j \in At("user") : Stands(messages[j].id, v)
            BY <6>1 DEF UserInv, SentIsThere, Sent
          <6>3. Stands(messages[j].id, u)
            BY <5>2, <6>2, StandsFacts
          <6>4. QED
            BY <5>1, <6>3
        <5>3. QED
          BY <3>1, <5>1, <5>2 DEF BubbleOk
      <4>3. QED
        BY <4>1, <4>2
    <3>3. QED
      BY <2>1, <2>2, <2>3, <3>1, <3>2, BubbleChanged
  <2>4. CASE queue[u] = "processing" /\ UNCHANGED queue
    <3>1. PICK j \in At("user") : Stands(messages[j].id, u)
      BY <2>4 DEF UserInv, SentIsThere, Sent
    <3>2. i \in At("user") /\ Stands(messages[i].id, u) /\ messages'[i].id = messages[i].id
      BY <2>2, <3>1 DEF BubbleOf
    <3>3. BubbleOk(messages[i], queue) /\ messages[i].queued = FALSE
      BY <2>4, <3>2 DEF UserInv, BubblesOk, BubbleOk
    <3>4. messages'[i].queued = FALSE
      BY <2>2, <3>2, <3>3
    <3>5. BubbleOk(messages'[i], queue')
      BY <2>4, <3>2, <3>3, <3>4 DEF BubbleOk
    <3>6. QED
      BY <2>1, <2>2, <2>4, <3>4, <3>5, BubbleChanged
  <2>5. QED
    BY <1>5, <2>3, <2>4 DEF QueueMessage
<1>6. ASSUME NEW u \in User, ProcessQueued(u) PROVE UserInv'
  <2>1. UserMessage(u, "processing") /\ live' /\ queue' = [queue EXCEPT ![u] = "processing"]
    BY <1>6 DEF ProcessQueued, StartTurn
  <2>2. PICK i : /\ BubbleOf(u, i)
                 /\ messages'[i].queued =
                       ("processing" = "queued" /\ (i \in At("user") => messages[i].queued))
    BY <1>1, <2>1, UserMessageEffect DEF BubbleOf
  <2>3. messages'[i].queued = FALSE
    BY <2>2
  <2>4. queue'[u] = "processing" /\ \A v \in User : v # u => queue'[v] = queue[v]
    BY <1>1, <2>1 DEF Rest
  <2>5. Stands(messages'[i].id, u)
    BY <2>2, StandsFacts DEF BubbleOf
  <2>6. messages'[i].id \in User => queue'[messages'[i].id] # "unsent"
    BY <2>2, <2>4 DEF BubbleOf, UserInv, BubblesOk, BubbleOk
  <2>7. ~Fresh(messages'[i].id, queue')
    BY <2>4, <2>5 DEF Fresh
  <2>8. BubbleOk(messages'[i], queue')
    BY <2>3, <2>6, <2>7 DEF BubbleOk
  <2>9. QED
    BY <2>1, <2>2, <2>4, <2>8, BubbleChanged
<1>7. ASSUME NEW k \in Kinds, BeginBlock(k) \/ WholeBlock(k) \/ EndBlock(k) PROVE UserInv'
  <2>1. UNCHANGED <<turn, live, ended, queue>> /\ live
    BY <1>7 DEF BeginBlock, WholeBlock, EndBlock, Begins, Turns
  <2>2. /\ {<<turn, k>>} \in SUBSET Block /\ {} \in SUBSET Block /\ turn \in 1..MaxTurn
        /\ (k = "think") \in BOOLEAN /\ streaming \in SUBSET Block
    BY <1>1, <1>2, <2>1, KindFacts DEF Rest
  <2>3. \/ TextDelta(turn, {<<turn, k>>}, k = "think")
        \/ \E text \in {{<<turn, k>>}, {}} : TextComplete(turn, text, k = "think")
    BY <1>7 DEF BeginBlock, WholeBlock, EndBlock
  <2>4. Same("user")
    <3>1. CASE TextDelta(turn, {<<turn, k>>}, k = "think")
      BY <1>1, <2>2, <3>1, TextDeltaEffect
    <3>2. CASE \E text \in {{<<turn, k>>}, {}} : TextComplete(turn, text, k = "think")
      BY <1>1, <2>2, <3>2, TextCompleteEffect
    <3>3. QED
      BY <2>3, <3>1, <3>2
  <2>5. QED
    BY <2>1, <2>4, BubblesSame
<1>8. ASSUME NEW t \in Tool,
             ToolStarts(t) \/ ToolStartsAgain(t) \/ ToolStreams(t) \/ ToolReturns(t)
                \/ GoesBackground(t) \/ TaskEnds(t)
      PROVE  UserInv'
  <2>1. UNCHANGED <<live, ended, queue>>
    BY <1>8 DEF ToolStarts, ToolStartsAgain, ToolStreams, ToolReturns, GoesBackground, TaskEnds,
                Sends, Turns, agent
  <2>2. Same("user")
    <3>1. CASE ToolStarts(t) \/ ToolStartsAgain(t)
      <4>1. ToolStart(t) /\ live
        BY <3>1 DEF ToolStarts, ToolStartsAgain, Working
      <4>2. QED
        BY <1>1, <1>2, <4>1, ToolStartEffect DEF CallOf
    <3>2. CASE ToolStreams(t)
      <4>1. ToolDelta(t) /\ live
        BY <3>2 DEF ToolStreams, Working
      <4>2. QED
        BY <1>1, <1>2, <4>1, ToolDeltaEffect DEF CallOf
    <3>3. CASE ToolReturns(t)
      <4>1. ToolResult(t) /\ live
        BY <3>3 DEF ToolReturns, Working
      <4>2. QED
        BY <1>1, <1>2, <4>1, ToolResultEffect
    <3>4. CASE GoesBackground(t)
      <4>1. \E background \in {"task", "shell"} : Backgrounded(t, background)
        BY <3>4 DEF GoesBackground
      <4>2. QED
        BY <1>1, <4>1, BackgroundedPlaces
    <3>5. CASE TaskEnds(t)
      <4>1. TaskCompleted(t)
        BY <3>5 DEF TaskEnds
      <4>2. QED
        BY <1>1, <4>1, TaskCompletedPlaces
    <3>6. QED
      BY <1>8, <3>1, <3>2, <3>3, <3>4, <3>5
  <2>3. QED
    BY <2>1, <2>2, BubblesSame
<1>9. CASE TurnCompletes
  <2>1. /\ Complete
        /\ queue' = [u \in User |-> IF queue[u] = "queued" THEN "waiting" ELSE queue[u]]
    BY <1>9 DEF TurnCompletes
  <2>2. /\ At("user")' = At("user")
        /\ \A j \in At("user") : messages'[j].id = messages[j].id /\ messages'[j].queued = FALSE
    BY <1>1, <2>1, CompleteEffect
  <2>3. \A u \in User : /\ queue'[u] # "queued"
                        /\ queue'[u] = "unsent" => queue[u] = "unsent"
                        /\ Sent(queue'[u]) => Sent(queue[u])
    BY <2>1 DEF Sent
  <2>4. OneBubble'
    BY <2>2 DEF UserInv, OneBubble
  <2>5. BubblesOk'
    BY <2>2, <2>3 DEF UserInv, BubblesOk, BubbleOk
  <2>6. SentIsThere'
    BY <2>2, <2>3 DEF UserInv, SentIsThere
  <2>7. NoneQueuedAtEnd'
    BY <2>2 DEF NoneQueuedAtEnd
  <2>8. QED
    BY <2>4, <2>5, <2>6, <2>7 DEF UserInv
<1>10. CASE TurnFails
  <2>1. EndTurn("error") /\ HandleError /\ queue' = queue
    BY <1>10 DEF TurnFails
  <2>2. Same("user")
    BY <1>1, <2>1, HandleErrorEffect
  <2>3. ended' = "error"
    BY <2>1 DEF EndTurn
  <2>4. QED
    BY <2>1, <2>2, <2>3, BubblesSame
<1>11. ASSUME NEW byUser \in BOOLEAN, Stop(byUser) PROVE UserInv'
  <2>1. /\ Interrupted(byUser) /\ ended' = "interrupted"
        /\ queue' = [u \in User |-> IF byUser /\ Waits(u) THEN "dropped" ELSE queue[u]]
    BY <1>11 DEF Stop, EndTurn
  <2>2. PICK e : /\ Comes(e, "user")
                 /\ \A j \in At("user") :
                       ~(byUser /\ messages[j].queued) => \E p \in At("user")' : e[p] = j
    BY <1>1, <2>1, InterruptedEffect
  <2>3. ASSUME NEW p \in At("user")'
        PROVE  /\ e[p] \in At("user") /\ p \in Int /\ e[p] \in Int
               /\ messages'[p].id = messages[e[p]].id
               /\ messages'[p].queued = messages[e[p]].queued
    <3>1. e[p] \in At("user") /\ Alike(Interrupting(messages[e[p]]), messages'[p])
      BY <2>2 DEF Comes
    <3>2. e[p] \in Position /\ messages[e[p]] \in Message /\ messages[e[p]].role = "user"
      BY <1>1, <3>1, Basics DEF At
    <3>3. Interrupting(messages[e[p]]) = messages[e[p]]
      BY <3>2, InterruptingMessage
    <3>4. p \in Int /\ e[p] \in Int
      <4>1. \A q \in At("user")' : q \in Int
        BY DEF At, Position
      <4>2. QED
        BY <3>2, <4>1 DEF Position
    <3>5. QED
      BY <3>1, <3>2, <3>3, <3>4 DEF Alike
  <2>4. OneBubble'
    <3> SUFFICES ASSUME NEW p \in At("user")', NEW q \in At("user")',
                        Stands(messages'[p].id, messages'[q].id), p # q
                 PROVE  FALSE
      BY DEF OneBubble
    <3>1. e[p] = e[q]
      BY <2>3 DEF UserInv, OneBubble
    <3>2. p < q \/ q < p
      BY <2>3
    <3>3. e[p] < e[q] \/ e[q] < e[p]
      BY <2>2, <3>2 DEF Comes
    <3>4. QED
      BY <2>3, <3>1, <3>3
  <2>5. \A u \in User : /\ queue'[u] = "unsent" => queue[u] = "unsent"
                        /\ queue'[u] = "queued" \/ queue'[u] = "processing" => queue'[u] = queue[u]
                        /\ Sent(queue'[u]) =>
                              Sent(queue[u]) /\ (byUser => queue[u] = "processing")
                        /\ byUser => queue'[u] # "queued"
                        /\ ~byUser => queue'[u] = queue[u]
    BY <2>1 DEF Sent, Waits
  <2>6. BubblesOk'
    <3> SUFFICES ASSUME NEW p \in At("user")' PROVE BubbleOk(messages'[p], queue')
      BY DEF BubblesOk
    <3>1. BubbleOk(messages[e[p]], queue)
      BY <2>3 DEF UserInv, BubblesOk
    <3>2. ~byUser => (Fresh(messages'[p].id, queue') => Fresh(messages[e[p]].id, queue))
      BY <2>3, <2>5 DEF Fresh
    <3>3. QED
      BY <2>3, <2>5, <3>1, <3>2 DEF BubbleOk
  <2>7. SentIsThere'
    <3> SUFFICES ASSUME NEW u \in User, Sent(queue'[u])
                 PROVE  \E p \in At("user")' : Stands(messages'[p].id, u)
      BY DEF SentIsThere
    <3>1. PICK j \in At("user") : Stands(messages[j].id, u)
      BY <2>5 DEF UserInv, SentIsThere
    <3>2. byUser => messages[j].queued = FALSE
      BY <2>5, <3>1 DEF UserInv, BubblesOk, BubbleOk
    <3>3. PICK p \in At("user")' : e[p] = j
      BY <2>2, <3>2
    <3>4. QED
      BY <2>3, <3>1, <3>3
  <2>8. NoneQueuedAtEnd'
    BY <2>1 DEF NoneQueuedAtEnd
  <2>9. QED
    BY <2>4, <2>6, <2>7, <2>8 DEF UserInv
<1>12. ASSUME Quiet, UNCHANGED agent PROVE UserInv'
  BY <1>12, BubblesSame DEF Quiet, agent
<1>13. ASSUME NEW role \in {"status", "compacting", "info", "plan"}, Aside(role) PROVE UserInv'
  BY <1>1, <1>12, <1>13, AsideEffect DEF Aside
<1>14. CASE CompactionEnds
  BY <1>1, <1>12, <1>14, CompactionEndsEffect DEF CompactionEnds
<1>15. CASE AuthCompletes
  BY <1>1, <1>12, <1>15, AuthCompletesEffect DEF AuthCompletes
<1>16. CASE AuthRequest
  <2>1. /\ EndTurn("paused") /\ queue' = queue
        /\ Shown(Append(messages, [role |-> "auth-request", at |-> Now, status |-> "pending"]))
    BY <1>16 DEF AuthRequest
  <2>2. Same("user")
    BY <1>1, <2>1, LoginEffect DEF Quiet
  <2>3. ended' = "paused"
    BY <2>1 DEF EndTurn
  <2>4. QED
    BY <2>1, <2>2, <2>3, BubblesSame
<1>17. CASE UNCHANGED vars
  BY <1>17 DEF UserInv, OneBubble, BubblesOk, SentIsThere, NoneQueuedAtEnd, At, Position,
               vars, ui, agent
<1>18. Next => UserInv'
  BY <1>4, <1>5, <1>6, <1>7, <1>8, <1>9, <1>10, <1>11, <1>13, <1>14, <1>15, <1>16, KindFacts DEF Next
<1>19. QED
  BY <1>17, <1>18
-----------------------------------------------------------------------------
(* What a step does to the texts.                                          *)
KeepsTexts == Same("assistant") /\ UNCHANGED <<turn, live, block, done, streaming>>

StartsTurn == Same("assistant") /\ StartTurn /\ UNCHANGED <<streaming, done>>

EndsTurn ==
    /\ Same("assistant") /\ (Open = {} \/ "cuts" \in Env)
    /\ live' = FALSE /\ UNCHANGED <<turn, block, done>> /\ streaming' = {}

TextCase ==
    \/ KeepsTexts \/ StartsTurn \/ EndsTurn
    \/ \E k \in Kinds : BeginBlock(k) \/ WholeBlock(k) \/ EndBlock(k)
    \/ \E byUser \in BOOLEAN : Stop(byUser)

LEMMA TextCases ==
    ASSUME TypeInv, TypeInv', [Next]_vars
    PROVE  TextCase
<1>1. Arranged /\ Rest /\ Rest'
  BY DEF TypeInv, InPlace
<1>2. live => turn \in 1..MaxTurn
  BY <1>1, KindFacts DEF Rest
<1>3. CASE Send
  <2>1. UserMessage(turn + 1, "accepted") /\ StartTurn /\ UNCHANGED <<streaming, done>>
    BY <1>3 DEF Send
  <2>2. turn + 1 \in 1..MaxTurn
    BY <1>1, <2>1, KindFacts DEF StartTurn, Rest
  <2>3. Same("assistant")
    BY <1>1, <2>1, <2>2, UserMessageEffect
  <2>4. QED
    BY <2>1, <2>3 DEF TextCase, StartsTurn
<1>4. ASSUME NEW u \in User, QueueMessage(u) PROVE TextCase
  <2>1. UserMessage(u, "queued") /\ UNCHANGED <<turn, live, block, done, streaming>>
    BY <1>4 DEF QueueMessage, Turns
  <2>2. Same("assistant")
    BY <1>1, <2>1, UserMessageEffect
  <2>3. QED
    BY <2>1, <2>2 DEF TextCase, KeepsTexts
<1>5. ASSUME NEW u \in User, ProcessQueued(u) PROVE TextCase
  <2>1. UserMessage(u, "processing") /\ StartTurn /\ UNCHANGED <<streaming, done>>
    BY <1>5 DEF ProcessQueued
  <2>2. Same("assistant")
    BY <1>1, <2>1, UserMessageEffect
  <2>3. QED
    BY <2>1, <2>2 DEF TextCase, StartsTurn
<1>6. ASSUME NEW k \in Kinds, BeginBlock(k) \/ WholeBlock(k) \/ EndBlock(k) PROVE TextCase
  BY <1>6 DEF TextCase
<1>7. ASSUME NEW t \in Tool,
             ToolStarts(t) \/ ToolStartsAgain(t) \/ ToolStreams(t) \/ ToolReturns(t)
                \/ GoesBackground(t) \/ TaskEnds(t)
      PROVE  TextCase
  <2>1. UNCHANGED <<turn, live, block, done, streaming>>
    BY <1>7 DEF ToolStarts, ToolStartsAgain, ToolStreams, ToolReturns, GoesBackground, TaskEnds,
                Sends, Turns, agent
  <2>2. Same("assistant")
    <3>1. CASE ToolStarts(t) \/ ToolStartsAgain(t)
      <4>1. ToolStart(t) /\ live
        BY <3>1 DEF ToolStarts, ToolStartsAgain, Working
      <4>2. QED
        BY <1>1, <1>2, <4>1, ToolStartEffect DEF CallOf
    <3>2. CASE ToolStreams(t)
      <4>1. ToolDelta(t) /\ live
        BY <3>2 DEF ToolStreams, Working
      <4>2. QED
        BY <1>1, <1>2, <4>1, ToolDeltaEffect DEF CallOf
    <3>3. CASE ToolReturns(t)
      <4>1. ToolResult(t) /\ live
        BY <3>3 DEF ToolReturns, Working
      <4>2. QED
        BY <1>1, <1>2, <4>1, ToolResultEffect
    <3>4. CASE GoesBackground(t)
      <4>1. \E background \in {"task", "shell"} : Backgrounded(t, background)
        BY <3>4 DEF GoesBackground
      <4>2. QED
        BY <1>1, <4>1, BackgroundedPlaces
    <3>5. CASE TaskEnds(t)
      <4>1. TaskCompleted(t)
        BY <3>5 DEF TaskEnds
      <4>2. QED
        BY <1>1, <4>1, TaskCompletedPlaces
    <3>6. QED
      BY <1>7, <3>1, <3>2, <3>3, <3>4, <3>5
  <2>3. QED
    BY <2>1, <2>2 DEF TextCase, KeepsTexts
<1>8. CASE TurnCompletes
  <2>1. EndTurn("complete") /\ Complete /\ Open = {}
    BY <1>8 DEF TurnCompletes
  <2>2. Same("assistant") /\ streaming' = {}
    BY <1>1, <2>1, CompleteEffect
  <2>3. live' = FALSE /\ UNCHANGED <<turn, block, done>>
    BY <2>1 DEF EndTurn
  <2>4. QED
    BY <2>1, <2>2, <2>3 DEF TextCase, EndsTurn
<1>9. CASE TurnFails
  <2>1. EndTurn("error") /\ HandleError /\ (Open = {} \/ "cuts" \in Env)
    BY <1>9 DEF TurnFails
  <2>2. Same("assistant") /\ streaming' = {}
    BY <1>1, <2>1, HandleErrorEffect
  <2>3. live' = FALSE /\ UNCHANGED <<turn, block, done>>
    BY <2>1 DEF EndTurn
  <2>4. QED
    BY <2>1, <2>2, <2>3 DEF TextCase, EndsTurn
<1>10. ASSUME NEW byUser \in BOOLEAN, Stop(byUser) PROVE TextCase
  BY <1>10 DEF TextCase
<1>11. ASSUME Quiet, UNCHANGED <<streaming, agent>> PROVE TextCase
  BY <1>1, <1>11 DEF Quiet, agent, TextCase, KeepsTexts
<1>12. ASSUME NEW role \in {"status", "compacting", "info", "plan"}, Aside(role) PROVE TextCase
  BY <1>1, <1>11, <1>12, AsideEffect DEF Aside
<1>13. CASE CompactionEnds
  BY <1>1, <1>11, <1>13, CompactionEndsEffect DEF CompactionEnds
<1>14. CASE AuthCompletes
  BY <1>1, <1>11, <1>14, AuthCompletesEffect DEF AuthCompletes
<1>15. CASE AuthRequest
  <2>1. /\ EndTurn("paused") /\ Open = {} /\ streaming' = {}
        /\ Shown(Append(messages, [role |-> "auth-request", at |-> Now, status |-> "pending"]))
    BY <1>15 DEF AuthRequest, Working
  <2>2. Same("assistant")
    BY <1>1, <2>1, LoginEffect DEF Quiet
  <2>3. live' = FALSE /\ UNCHANGED <<turn, block, done>>
    BY <2>1 DEF EndTurn
  <2>4. QED
    BY <2>1, <2>2, <2>3 DEF TextCase, EndsTurn
<1>16. CASE UNCHANGED vars
  <2>1. UNCHANGED <<messages, turn, live, block, done, streaming>>
    BY <1>16 DEF vars, ui, agent
  <2>2. Same("assistant")
    <3>1. \A i \in At("assistant") : Alike(messages[i], messages'[i])
      BY <1>1, <2>1, Basics, AlikeItself DEF At
    <3>2. QED
      BY <2>1, <3>1 DEF Same, At, Position
  <2>3. QED
    BY <2>1, <2>2 DEF TextCase, KeepsTexts
<1>17. Next => TextCase
  BY <1>3, <1>4, <1>5, <1>6, <1>7, <1>8, <1>9, <1>10, <1>12, <1>13, <1>14, <1>15, KindFacts DEF Next
<1>18. QED
  BY <1>16, <1>17

-----------------------------------------------------------------------------
(* The texts.  Each text of a message is that of one block, a block has    *)
(* one message, and what is pending is what the agent has open: this needs *)
(* that a turn does not fail within a block ("cuts") and that a block that *)
(* is not the first comes with deltas ("whole").                           *)
Of(m, k) == m.text = {<<m.turn, k>>}

Sound(m, t, runs, begun, open) ==
    /\ m.turn <= t
    /\ \E k \in Kinds : Of(m, k) /\ (m.intermediate <=> k = "think")
    /\ m.streaming => m.pending
    /\ m.turn = t => \A k \in Kinds : Of(m, k) => k \in begun
    /\ m.pending => runs /\ m.turn = t /\ \A k \in Kinds : Of(m, k) => k \in open
    /\ m.streaming /\ Of(m, "think") => begun = {"think"}
    /\ \A k \in open : runs /\ m.turn = t /\ Of(m, k) =>
          m.pending /\ (m.streaming \/ (k = "think" /\ begun # {"think"}))

TextsSound == \A i \in At("assistant") : Sound(messages[i], turn, live, Begun, Open)

Unlike == \A i, j \in At("assistant") : messages[i].text = messages[j].text => i = j

ThinkFirst ==
    \A i, j \in At("assistant") :
        messages[i].turn = messages[j].turn /\ Of(messages[i], "think") => i <= j

BegunShown == \A k \in Begun : \E i \in At("assistant") : messages[i].text = {<<turn, k>>}

DoneShown ==
    \A b \in done : /\ b[1] <= turn /\ (b[1] = turn => b[2] \in Begun)
                    /\ \E i \in At("assistant") : messages[i].text = {b}

StreamingShown ==
    streaming # {} =>
        \E i \in At("assistant") : messages[i].streaming /\ streaming = messages[i].text

OneOpen == "say" \notin Open \/ "answer" \notin Open

TextInv ==
    TextsSound /\ Unlike /\ ThinkFirst /\ BegunShown /\ DoneShown /\ StreamingShown /\ OneOpen

LEMMA OfOne ==
    ASSUME NEW m, NEW t, NEW k, m.text = {<<t, k>>}
    PROVE  \A l : Of(m, l) => m.turn = t /\ l = k
<1> SUFFICES ASSUME NEW l, Of(m, l) PROVE m.turn = t /\ l = k
  OBVIOUS
<1>1. <<m.turn, l>> \in {<<t, k>>}
  BY DEF Of
<1>2. <<m.turn, l>> = <<t, k>>
  BY <1>1
<1>3. QED
  BY <1>2

LEMMA BlockFacts ==
    ASSUME Rest
    PROVE  /\ Begun \subseteq Kinds /\ Open \subseteq Begun
           /\ \A k : k \in Open <=> k \in Begun /\ <<turn, k>> \notin done
           /\ turn \in Nat /\ (block = <<>> => Begun = {})
           /\ \A b \in done : b[1] \in Nat /\ b = <<b[1], b[2]>> /\ b[2] \in Kinds
<1>1. block \in Seq(Kinds) /\ done \in SUBSET Block /\ turn \in Nat
  BY KindFacts DEF Rest
<1>2. \A k : k \in Begun <=> \E i \in 1..Len(block) : block[i] = k
  BY <1>1, RangeFacts DEF Begun
<1>3. Begun \subseteq Kinds /\ (block = <<>> => Begun = {})
  BY <1>1, <1>2
<1>4. \A b \in Block : b[1] \in Nat /\ b = <<b[1], b[2]>> /\ b[2] \in Kinds
  BY KindFacts DEF Block, Kinds
<1>5. QED
  BY <1>1, <1>3, <1>4 DEF Open

LEMMA BegunMore ==
    ASSUME Rest, NEW k \in Kinds, block' = Append(block, k)
    PROVE  Begun' = Begun \cup {k}
<1>1. block \in Seq(Kinds) /\ block' \in Seq(Kinds) /\ Len(block') = Len(block) + 1 /\ Len(block) \in Nat
      /\ block'[Len(block) + 1] = k /\ \A i \in 1..Len(block) : block'[i] = block[i]
  BY DEF Rest
<1>2. \A l : l \in Begun <=> \E i \in 1..Len(block) : block[i] = l
  BY <1>1, RangeFacts DEF Begun
<1>3. \A l : l \in Begun' <=> \E i \in 1..Len(block') : block'[i] = l
  <2>1. Begun' = Range(block') /\ block' \in Seq(Kinds)
    BY <1>1 DEF Begun
  <2>2. QED
    BY <2>1, RangeFacts
<1>4. \A i \in 1..Len(block') : i \in 1..Len(block) \/ i = Len(block) + 1
  BY <1>1
<1>5. ASSUME NEW l PROVE l \in Begun' <=> l \in Begun \cup {k}
  <2>1. ASSUME l \in Begun' PROVE l \in Begun \cup {k}
    BY <1>1, <1>2, <1>3, <1>4, <2>1
  <2>2. ASSUME l \in Begun PROVE l \in Begun'
    <3>1. PICK i \in 1..Len(block) : block[i] = l
      BY <1>2, <2>2
    <3>2. i \in 1..Len(block')
      BY <1>1
    <3>3. QED
      BY <1>1, <1>3, <3>1, <3>2
  <2>3. k \in Begun'
    <3>1. Len(block) + 1 \in 1..Len(block')
      BY <1>1
    <3>2. QED
      BY <1>1, <1>3, <3>1
  <2>4. QED
    BY <2>1, <2>2, <2>3
<1>6. QED
  BY <1>5

LEMMA Texts ==
    ASSUME Arranged
    PROVE  \A i \in At("assistant") :
               /\ messages[i] \in Assistants /\ messages[i].role = "assistant" /\ i \in Nat
               /\ messages[i].turn \in Nat
<1>1. \A i \in At("assistant") : messages[i] \in Message /\ messages[i].role = "assistant" /\ i \in Nat
  <2>1. \A i \in Position : i \in Nat
    BY DEF Position
  <2>2. QED
    BY <2>1, Basics DEF At
<1>2. \A i \in At("assistant") : messages[i] \in Assistants
  BY <1>1, Roles
<1>3. QED
  BY <1>1, <1>2 DEF Assistants

LEMMA SoundAlike ==
    ASSUME NEW m, NEW o, NEW t, NEW runs, NEW begun, NEW open,
           m.role = "assistant", Alike(m, o), Sound(m, t, runs, begun, open)
    PROVE  Sound(o, t, runs, begun, open)
BY DEF Alike, Sound, Of

(* What the messages show stays when none of the texts change.             *)
LEMMA TextsSame ==
    ASSUME Arranged, Unlike, ThinkFirst, Same("assistant")
    PROVE  /\ Unlike' /\ ThinkFirst' /\ At("assistant")' = At("assistant")
           /\ \A i \in At("assistant") :
                 /\ messages'[i].text = messages[i].text /\ messages'[i].turn = messages[i].turn
                 /\ messages'[i].streaming = messages[i].streaming
           /\ \A t, runs, begun, open : \A i \in At("assistant") :
                 Sound(messages[i], t, runs, begun, open) => Sound(messages'[i], t, runs, begun, open)
<1>1. /\ At("assistant")' = At("assistant")
      /\ \A i \in At("assistant") : Alike(messages[i], messages'[i]) /\ messages[i].role = "assistant"
  BY Texts DEF Same
<1>2. \A i \in At("assistant") :
          /\ messages'[i].text = messages[i].text /\ messages'[i].turn = messages[i].turn
          /\ messages'[i].streaming = messages[i].streaming
  BY <1>1 DEF Alike
<1>3. Unlike' /\ ThinkFirst'
  BY <1>1, <1>2 DEF Unlike, ThinkFirst, Of
<1>4. QED
  BY <1>1, <1>2, <1>3, SoundAlike

LEMMA TextQuiet ==
    ASSUME Arranged, TextInv, Same("assistant"), UNCHANGED <<turn, live, block, done, streaming>>
    PROVE  TextInv'
<1>1. Begun' = Begun /\ Open' = Open
  BY DEF Begun, Open
<1>2. Unlike /\ ThinkFirst /\ TextsSound
  BY DEF TextInv
<1>3. /\ Unlike' /\ ThinkFirst' /\ At("assistant")' = At("assistant")
      /\ \A i \in At("assistant") :
            messages'[i].text = messages[i].text /\ messages'[i].streaming = messages[i].streaming
  BY <1>2, TextsSame
<1>4. TextsSound'
  <2> SUFFICES ASSUME NEW i \in At("assistant")' PROVE Sound(messages'[i], turn', live', Begun', Open')
    BY DEF TextsSound
  <2>1. Sound(messages[i], turn, live, Begun, Open) /\ i \in At("assistant")
    BY <1>2, <1>3 DEF TextsSound
  <2>2. Sound(messages'[i], turn, live, Begun, Open)
    BY <1>2, <2>1, TextsSame
  <2>3. QED
    BY <1>1, <2>2
<1>5. BegunShown' /\ DoneShown' /\ StreamingShown' /\ OneOpen'
  BY <1>1, <1>3 DEF TextInv, BegunShown, DoneShown, StreamingShown, OneOpen
<1>6. QED
  BY <1>3, <1>4, <1>5 DEF TextInv

LEMMA TextAtStart ==
    ASSUME TypeInv, TextInv, Same("assistant"), StartTurn, UNCHANGED <<streaming, done>>, Rest'
    PROVE  TextInv'
<1>1. Arranged /\ Rest /\ Unlike /\ ThinkFirst /\ TextsSound /\ turn \in Nat
      /\ turn' = turn + 1 /\ ~live /\ live' /\ block' = <<>>
  BY BlockFacts DEF TypeInv, InPlace, TextInv, StartTurn
<1>2. Begun' = {} /\ Open' = {}
  <2>1. <<>> \in Seq(Kinds) /\ Len(<<>>) = 0 /\ 1..0 = {}
    OBVIOUS
  <2>2. Range(<<>>) = {}
    BY <2>1, RangeFacts
  <2>3. Begun' = {}
    BY <1>1, <2>2 DEF Begun
  <2>4. QED
    BY <2>3 DEF Open
<1>3. /\ Unlike' /\ ThinkFirst' /\ At("assistant")' = At("assistant")
      /\ \A i \in At("assistant") :
            messages'[i].text = messages[i].text /\ messages'[i].streaming = messages[i].streaming
  BY <1>1, TextsSame
<1>4. \A i \in At("assistant") :
          Sound(messages[i], turn + 1, TRUE, {}, {}) /\ ~messages[i].streaming
  <2> SUFFICES ASSUME NEW i \in At("assistant")
               PROVE  Sound(messages[i], turn + 1, TRUE, {}, {}) /\ ~messages[i].streaming
    OBVIOUS
  <2>1. Sound(messages[i], turn, live, Begun, Open) /\ messages[i].turn \in Nat
    BY <1>1, Texts DEF TextsSound
  <2>2. messages[i].turn <= turn /\ messages[i].turn # turn + 1 /\ ~messages[i].pending
    BY <1>1, <2>1 DEF Sound
  <2>3. QED
    BY <1>1, <2>1, <2>2 DEF Sound
<1>5. TextsSound'
  <2> SUFFICES ASSUME NEW i \in At("assistant")' PROVE Sound(messages'[i], turn', live', Begun', Open')
    BY DEF TextsSound
  <2>1. Sound(messages[i], turn + 1, TRUE, {}, {}) /\ i \in At("assistant")
    BY <1>3, <1>4
  <2>2. Sound(messages'[i], turn + 1, TRUE, {}, {})
    BY <1>1, <2>1, TextsSame
  <2>3. live' = TRUE
    BY <1>1 DEF StartTurn
  <2>4. QED
    BY <1>1, <1>2, <2>2, <2>3
<1>6. BegunShown' /\ OneOpen'
  BY <1>2 DEF BegunShown, OneOpen
<1>7. StreamingShown'
  BY <1>4 DEF TextInv, StreamingShown
<1>8. DoneShown'
  <2>1. \A b \in done : b[1] <= turn /\ b[1] \in Nat
    BY <1>1, BlockFacts DEF TextInv, DoneShown
  <2>2. \A b \in done : b[1] <= turn' /\ b[1] # turn'
    BY <1>1, <2>1
  <2>3. QED
    BY <1>3, <2>2 DEF TextInv, DoneShown
<1>9. QED
  BY <1>3, <1>5, <1>6, <1>7, <1>8 DEF TextInv

(* A turn that ends with nothing open leaves nothing pending.              *)
LEMMA TextAtEnd ==
    ASSUME TypeInv, TextInv, Same("assistant"), Open = {},
           live' = FALSE, UNCHANGED <<turn, block, done>>, streaming' = {}
    PROVE  TextInv'
<1>1. Arranged /\ Rest /\ Unlike /\ ThinkFirst /\ TextsSound
      /\ Begun' = Begun /\ Open' = {}
  BY DEF TypeInv, InPlace, TextInv, Begun, Open
<1>2. /\ Unlike' /\ ThinkFirst' /\ At("assistant")' = At("assistant")
      /\ \A i \in At("assistant") : messages'[i].text = messages[i].text
  BY <1>1, TextsSame
<1>3. \A i \in At("assistant") : Sound(messages[i], turn, FALSE, Begun, {})
  <2> SUFFICES ASSUME NEW i \in At("assistant") PROVE Sound(messages[i], turn, FALSE, Begun, {})
    OBVIOUS
  <2>1. Sound(messages[i], turn, live, Begun, {})
    BY <1>1 DEF TextsSound
  <2>2. ~messages[i].pending
    BY <2>1 DEF Sound
  <2>3. QED
    BY <2>1, <2>2 DEF Sound
<1>4. TextsSound'
  <2> SUFFICES ASSUME NEW i \in At("assistant")' PROVE Sound(messages'[i], turn', live', Begun', Open')
    BY DEF TextsSound
  <2>1. Sound(messages[i], turn, FALSE, Begun, {}) /\ i \in At("assistant")
    BY <1>2, <1>3
  <2>2. Sound(messages'[i], turn, FALSE, Begun, {})
    BY <1>1, <2>1, TextsSame
  <2>3. QED
    BY <1>1, <2>2
<1>5. BegunShown' /\ DoneShown'
  BY <1>1, <1>2 DEF TextInv, BegunShown, DoneShown
<1>6. StreamingShown' /\ OneOpen'
  BY <1>1 DEF StreamingShown, OneOpen
<1>7. QED
  BY <1>2, <1>4, <1>5, <1>6 DEF TextInv

(* A new text, of a block that had not begun.                              *)
LEMMA TextIsNew ==
    ASSUME TypeInv, TextInv, NEW k \in Kinds, k \notin Begun
    PROVE  /\ \A j \in At("assistant") : messages[j].text # {<<turn, k>>}
           /\ <<turn, k>> \notin done
<1>1. ASSUME NEW j \in At("assistant"), messages[j].text = {<<turn, k>>} PROVE FALSE
  <2>1. PICK l \in Kinds : Of(messages[j], l)
    BY DEF TextInv, TextsSound, Sound
  <2>2. messages[j].turn = turn /\ l = k
    BY <1>1, <2>1, OfOne
  <2>3. k \in Begun
    BY <2>1, <2>2 DEF TextInv, TextsSound, Sound
  <2>4. QED
    BY <2>3
<1>2. <<turn, k>> \notin done
  BY DEF TextInv, DoneShown
<1>3. QED
  BY <1>1, <1>2

(* What begins goes to a message at the end, the others are not streaming. *)
LEMMA TextBegun ==
    ASSUME TypeInv, TextInv, NEW k \in Kinds, k \notin Begun, live,
           k = "think" => Begun = {},
           block' = Append(block, k), UNCHANGED <<turn, live>>,
           NEW n, n = Len(messages) + 1, NewText(n), NEW runs \in BOOLEAN,
           Fields(messages'[n], turn, {<<turn, k>>}, runs, runs, k = "think"),
           \A j \in At("assistant") :
               Fields(messages'[j], messages[j].turn, messages[j].text, FALSE,
                      messages[j].pending, messages[j].intermediate),
           done' = IF runs THEN done ELSE done \cup {<<turn, k>>},
           streaming' = IF runs THEN {<<turn, k>>} ELSE {},
           Open \subseteq {"think"}
    PROVE  TextInv'
<1>1. Arranged /\ Rest
  BY DEF TypeInv, InPlace
<1>2. /\ Begun \subseteq Kinds /\ turn \in Nat
      /\ \A l : l \in Open <=> l \in Begun /\ <<turn, l>> \notin done
  BY <1>1, BlockFacts
<1>3. /\ \A j \in At("assistant") : messages[j].text # {<<turn, k>>}
      /\ <<turn, k>> \notin done
  BY TextIsNew
<1>4. Begun' = Begun \cup {k}
  BY <1>1, BegunMore
<1>5. Open' = IF runs THEN Open \cup {k} ELSE Open
  <2>1. \A l : <<turn, l>> = <<turn, k>> <=> l = k
    OBVIOUS
  <2>2. \A l : l \in Open' <=> l \in Begun' /\ <<turn, l>> \notin done'
    BY DEF Open
  <2>3. \A l : l \in Open' <=> IF runs THEN l \in Open \cup {k} ELSE l \in Open
    BY <1>2, <1>3, <1>4, <2>1, <2>2
  <2>4. QED
    BY <2>3
<1>6. /\ At("assistant")' = At("assistant") \cup {n} /\ n \notin At("assistant")
      /\ \A j \in At("assistant") : j < n /\ n \in Nat /\ j \in Nat
  BY <1>1, BeforeTheNew, Texts, Basics DEF NewText
<1>7. \A j \in At("assistant") : Sound(messages[j], turn, live, Begun, Open)
  BY DEF TextInv, TextsSound
<1>8. \A j \in At("assistant") : Sound(messages'[j], turn, live, Begun', Open')
  <2> SUFFICES ASSUME NEW j \in At("assistant")
               PROVE  Sound(messages'[j], turn, live, Begun', Open')
    OBVIOUS
  <2>1. Sound(messages[j], turn, live, Begun, Open)
    BY <1>7
  <2>2. Fields(messages'[j], messages[j].turn, messages[j].text, FALSE,
               messages[j].pending, messages[j].intermediate)
    OBVIOUS
  <2>3. ASSUME messages[j].turn = turn, Of(messages[j], k) PROVE FALSE
    BY <1>3, <2>3 DEF Of
  <2>4. \A l \in Open : messages[j].turn = turn /\ Of(messages[j], l) =>
            messages[j].pending /\ l = "think" /\ Begun' # {"think"}
    <3> SUFFICES ASSUME NEW l \in Open, messages[j].turn = turn, Of(messages[j], l)
                 PROVE  messages[j].pending /\ l = "think" /\ Begun' # {"think"}
      OBVIOUS
    <3>1. l = "think" /\ l \in Begun
      BY <1>2
    <3>2. k # "think"
      BY <3>1
    <3>3. Begun' # {"think"}
      BY <1>4, <3>2
    <3>4. messages[j].pending
      BY <2>1 DEF Sound
    <3>5. QED
      BY <3>1, <3>3, <3>4
  <2>5. \A l : Of(messages'[j], l) <=> Of(messages[j], l)
    BY <2>2 DEF Of, Fields
  <2>6. messages'[j].streaming = FALSE /\ messages'[j].pending = messages[j].pending
        /\ messages'[j].intermediate = messages[j].intermediate /\ messages'[j].turn = messages[j].turn
    BY <2>2 DEF Fields
  <2>7. messages[j].turn <= turn /\ \E l \in Kinds : Of(messages[j], l) /\ (messages[j].intermediate <=> l = "think")
    BY <2>1 DEF Sound
  <2>8. messages[j].turn = turn => \A l \in Kinds : Of(messages[j], l) => l \in Begun'
    BY <1>4, <2>1 DEF Sound
  <2>9. messages[j].pending => live /\ messages[j].turn = turn /\ \A l \in Kinds : Of(messages[j], l) => l \in Open'
    <3>1. messages[j].pending => live /\ messages[j].turn = turn /\ \A l \in Kinds : Of(messages[j], l) => l \in Open
      BY <2>1 DEF Sound
    <3>2. \A l \in Open : l \in Open'
      BY <1>5
    <3>3. QED
      BY <3>1, <3>2
  <2>10. \A l \in Open' : messages[j].turn = turn /\ Of(messages[j], l) =>
             messages[j].pending /\ l = "think" /\ Begun' # {"think"}
    BY <1>5, <2>3, <2>4
  <2> HIDE DEF Of, Open, Begun
  <2>11. QED
    BY <2>5, <2>6, <2>7, <2>8, <2>9, <2>10 DEF Sound
<1>9. Sound(messages'[n], turn, live, Begun', Open')
  <2>1. /\ messages'[n].turn = turn /\ messages'[n].text = {<<turn, k>>}
        /\ messages'[n].streaming = runs /\ messages'[n].pending = runs
        /\ messages'[n].intermediate = (k = "think")
    BY DEF Fields
  <2>2. \A l : Of(messages'[n], l) <=> l = k
    <3>1. messages'[n].text = {<<turn, k>>}
      BY <2>1
    <3>2. \A l : Of(messages'[n], l) => l = k
      BY <3>1, OfOne
    <3>3. Of(messages'[n], k)
      BY <2>1 DEF Of
    <3>4. QED
      BY <3>2, <3>3
  <2>3. k = "think" => Begun' = {"think"}
    BY <1>4
  <2>4. runs => k \in Open'
    BY <1>5
  <2>5. ~runs => k \notin Open'
    <3>1. k \notin Open
      BY <1>2
    <3>2. QED
      BY <1>5, <3>1
  <2>6. k \in Begun'
    BY <1>4
  <2>7. turn <= turn /\ k \in Kinds
    BY <1>2
  <2> HIDE DEF Of, Open, Begun
  <2>8. \E l \in Kinds : Of(messages'[n], l) /\ (messages'[n].intermediate <=> l = "think")
    BY <2>1, <2>2, <2>7
  <2>9. \A l \in Kinds : Of(messages'[n], l) => l \in Begun' /\ (runs => l \in Open')
    BY <2>2, <2>4, <2>6
  <2>10. Of(messages'[n], "think") => Begun' = {"think"}
    BY <2>2, <2>3
  <2>11. \A l \in Open' : Of(messages'[n], l) => runs
    BY <2>2, <2>5
  <2>12. QED
    BY <2>1, <2>7, <2>8, <2>9, <2>10, <2>11 DEF Sound
<1>10. TextsSound'
  BY <1>6, <1>8, <1>9 DEF TextsSound
<1>11. /\ messages'[n].turn = turn /\ messages'[n].text = {<<turn, k>>} /\ messages'[n].streaming = runs
       /\ \A j \in At("assistant") :
             messages'[j].turn = messages[j].turn /\ messages'[j].text = messages[j].text
  BY DEF Fields
<1>12. Unlike'
  BY <1>3, <1>6, <1>11 DEF TextInv, Unlike
<1>13. ThinkFirst'
  <2> SUFFICES ASSUME NEW i \in At("assistant")', NEW j \in At("assistant")',
                      messages'[i].turn = messages'[j].turn, Of(messages'[i], "think")
               PROVE  i <= j
    BY DEF ThinkFirst
  <2>1. CASE i = n /\ j # n
    <3>1. j \in At("assistant") /\ messages[j].turn = turn
      BY <1>6, <1>11, <2>1
    <3>2. messages'[n].text = {<<turn, k>>}
      BY <1>11
    <3>3. \A l : Of(messages'[n], l) => l = k
      BY <3>2, OfOne
    <3>4. k = "think"
      BY <2>1, <3>3
    <3>5. \E l \in Kinds : l \in Begun
      BY <1>7, <3>1 DEF Sound
    <3>6. QED
      BY <3>4, <3>5
  <2>2. CASE i # n /\ j = n
    BY <1>6, <2>2
  <2>3. CASE i # n /\ j # n
    <3>1. i \in At("assistant") /\ j \in At("assistant")
      BY <1>6, <2>3
    <3>2. messages[i].turn = messages[j].turn /\ Of(messages[i], "think")
      BY <1>11, <3>1 DEF Of
    <3>3. QED
      BY <3>1, <3>2 DEF TextInv, ThinkFirst
  <2>4. CASE i = n /\ j = n
    BY <1>1, <2>4, Basics
  <2>5. QED
    BY <2>1, <2>2, <2>3, <2>4
<1>14. BegunShown'
  BY <1>4, <1>6, <1>11 DEF TextInv, BegunShown
<1>15. DoneShown'
  <2> SUFFICES ASSUME NEW b \in done'
               PROVE  /\ b[1] <= turn /\ (b[1] = turn => b[2] \in Begun')
                      /\ \E i \in At("assistant")' : messages'[i].text = {b}
    BY DEF DoneShown
  <2>1. CASE b \in done
    <3>1. /\ b[1] <= turn /\ (b[1] = turn => b[2] \in Begun)
          /\ \E i \in At("assistant") : messages[i].text = {b}
      BY <2>1 DEF TextInv, DoneShown
    <3>2. PICK i \in At("assistant") : messages[i].text = {b}
      BY <3>1
    <3>3. i \in At("assistant")' /\ messages'[i].text = {b}
      BY <1>6, <1>11, <3>2
    <3>4. QED
      BY <1>4, <3>1, <3>3
  <2>2. CASE b = <<turn, k>>
    BY <1>2, <1>4, <1>6, <1>11, <2>2
  <2>3. QED
    BY <2>1, <2>2
<1>16. StreamingShown'
  BY <1>6, <1>11 DEF StreamingShown
<1>17. OneOpen'
  BY <1>5 DEF OneOpen
<1>18. QED
  BY <1>10, <1>12, <1>13, <1>14, <1>15, <1>16, <1>17 DEF TextInv

(* Only reasoning that is open can be streaming when a block begins.       *)
LEMMA StreamsOpen ==
    ASSUME TypeInv, TextInv, NEW j \in At("assistant"), messages[j].streaming
    PROVE  \E l \in Open : Of(messages[j], l) /\ messages[j].turn = turn
                           /\ (messages[j].intermediate <=> l = "think")
<1>1. Sound(messages[j], turn, live, Begun, Open)
  BY DEF TextInv, TextsSound
<1>2. QED
  BY <1>1 DEF Sound

LEMMA BeginBlockStep ==
    ASSUME TypeInv, TextInv, NEW k \in Kinds, BeginBlock(k)
    PROVE  TextInv'
<1> DEFINE s == FindStreamingMessage(messages, turn)
           n == Len(messages) + 1
<1>1. /\ Begins(k) /\ TextDelta(turn, {<<turn, k>>}, k = "think") /\ done' = done
      /\ Arranged /\ Rest
  BY DEF BeginBlock, TypeInv, InPlace
<1>2. /\ turn \in 1..MaxTurn /\ {<<turn, k>>} \in SUBSET Block
      /\ block' = Append(block, k) /\ UNCHANGED <<turn, live>> /\ live
      /\ k \notin Begun /\ (k = "think" => Begun = {}) /\ Open \subseteq {"think"}
  BY <1>1, BeginsTyped, BlockFacts DEF Begins
<1>3. (k = "think") \in BOOLEAN /\ streaming \in SUBSET Block
  BY <1>1 DEF Rest
<1>4. \/ s = 0 /\ \A j \in At("assistant") : ~messages[j].streaming
      \/ s \in At("assistant") /\ messages[s].streaming
  <2>1. \/ s = 0 /\ \A j \in 1..Len(messages) : ~(messages[j].role = "assistant" /\ messages[j].streaming)
        \/ s \in 1..Len(messages) /\ messages[s].role = "assistant" /\ messages[s].streaming
    BY <1>1, Basics, FoundStreaming
  <2> HIDE DEF s
  <2>2. QED
    BY <2>1 DEF At, Position
<1> HIDE DEF s
<1>5. \A j \in At("assistant") : messages[j].streaming =>
          /\ messages[j].text = {<<turn, "think">>} /\ messages[j].intermediate /\ "think" \in Begun
  <2> SUFFICES ASSUME NEW j \in At("assistant"), messages[j].streaming
               PROVE  /\ messages[j].text = {<<turn, "think">>} /\ messages[j].intermediate
                      /\ "think" \in Begun
    OBVIOUS
  <2>1. PICK l \in Open : Of(messages[j], l) /\ messages[j].turn = turn
                          /\ (messages[j].intermediate <=> l = "think")
    BY StreamsOpen
  <2>2. l = "think" /\ l \in Begun
    BY <1>1, <1>2, BlockFacts
  <2>3. QED
    BY <2>1, <2>2 DEF Of
<1>6. \A j \in At("assistant") : messages[j].streaming => j = s
  BY <1>4, <1>5 DEF TextInv, Unlike
<1>7. s = 0 \/ (messages[s].intermediate /\ ~(k = "think"))
  BY <1>2, <1>4, <1>5
<1>8. s = 0 => streaming = {}
  <2>1. 0 \notin At("assistant")
    BY DEF At, Position
  <2>2. QED
    BY <1>4, <2>1 DEF TextInv, StreamingShown
<1>9. /\ streaming' = IF s = 0 THEN streaming \cup {<<turn, k>>} ELSE {<<turn, k>>}
      /\ NewText(n)
      /\ Fields(messages'[n], turn, {<<turn, k>>}, TRUE, TRUE, k = "think")
      /\ \A j \in At("assistant") :
            Fields(messages'[j], messages[j].turn, messages[j].text,
                   IF j = s THEN FALSE ELSE messages[j].streaming,
                   messages[j].pending, messages[j].intermediate)
  BY <1>1, <1>2, <1>3, <1>7, TextDeltaEffect DEF s
<1>10. streaming' = {<<turn, k>>}
  BY <1>8, <1>9
<1>11. \A j \in At("assistant") :
           Fields(messages'[j], messages[j].turn, messages[j].text, FALSE,
                  messages[j].pending, messages[j].intermediate)
  <2> SUFFICES ASSUME NEW j \in At("assistant")
               PROVE  Fields(messages'[j], messages[j].turn, messages[j].text, FALSE,
                             messages[j].pending, messages[j].intermediate)
    OBVIOUS
  <2>1. messages[j].streaming \in BOOLEAN
    BY <1>1, Texts DEF Assistants
  <2>2. (IF j = s THEN FALSE ELSE messages[j].streaming) = FALSE
    BY <1>6, <2>1
  <2>3. QED
    BY <1>9, <2>2
<1>12. PICK runs \in BOOLEAN : runs = TRUE
  OBVIOUS
<1>13. /\ n = Len(messages) + 1
       /\ done' = IF runs THEN done ELSE done \cup {<<turn, k>>}
       /\ streaming' = IF runs THEN {<<turn, k>>} ELSE {}
       /\ Fields(messages'[n], turn, {<<turn, k>>}, runs, runs, k = "think")
  BY <1>1, <1>9, <1>10, <1>12
<1> HIDE DEF n
<1>14. QED
  BY <1>2, <1>9, <1>11, <1>13, TextBegun

(* A block that comes whole is the first of its turn.                      *)
LEMMA WholeBlockStep ==
    ASSUME TypeInv, TextInv, NEW k \in Kinds, WholeBlock(k), "whole" \notin Env
    PROVE  TextInv'
<1> DEFINE i == CompletedMessage(messages, turn, k = "think")
           n == Len(messages) + 1
<1>1. /\ Begins(k) /\ TextComplete(turn, {<<turn, k>>}, k = "think") /\ done' = done \cup {<<turn, k>>}
      /\ Arranged /\ Rest /\ block = <<>>
  BY DEF WholeBlock, TypeInv, InPlace
<1>2. /\ turn \in 1..MaxTurn /\ {<<turn, k>>} \in SUBSET Block
      /\ block' = Append(block, k) /\ UNCHANGED <<turn, live>> /\ live
      /\ k \notin Begun /\ Begun = {} /\ Open = {}
  BY <1>1, BeginsTyped, BlockFacts DEF Begins
<1>3. (k = "think") \in BOOLEAN /\ streaming \in SUBSET Block
  BY <1>1 DEF Rest
<1>4. \A j \in At("assistant") : ~messages[j].streaming /\ messages[j].turn # turn
  <2> SUFFICES ASSUME NEW j \in At("assistant")
               PROVE  ~messages[j].streaming /\ messages[j].turn # turn
    OBVIOUS
  <2>1. ~messages[j].streaming
    BY <1>2, StreamsOpen
  <2>2. messages[j].turn # turn
    BY <1>2 DEF TextInv, TextsSound, Sound
  <2>3. QED
    BY <2>1, <2>2
<1>5. \A j \in 1..Len(messages) : messages[j].role = "assistant" => j \in At("assistant")
  BY DEF At, Position
<1>6. FindStreamingMessage(messages, turn) = 0 /\ FindAssistantMessage(messages, turn) = 0
  BY <1>1, <1>4, <1>5, Basics, FoundStreaming, FoundAssistant
<1>7. i = 0
  BY <1>6 DEF CompletedMessage
<1>8. /\ streaming' = {} /\ NewText(n)
      /\ Fields(messages'[n], turn, Content(0, {<<turn, k>>}), FALSE, FALSE, k = "think")
      /\ \A j \in At("assistant") : Alike(messages[j], messages'[j])
  BY <1>1, <1>2, <1>3, <1>7, TextCompleteEffect
<1>9. Content(0, {<<turn, k>>}) = {<<turn, k>>}
  BY DEF Content
<1>10. \A j \in At("assistant") :
           Fields(messages'[j], messages[j].turn, messages[j].text, FALSE,
                  messages[j].pending, messages[j].intermediate)
  <2> SUFFICES ASSUME NEW j \in At("assistant")
               PROVE  Fields(messages'[j], messages[j].turn, messages[j].text, FALSE,
                             messages[j].pending, messages[j].intermediate)
    OBVIOUS
  <2>1. messages[j].streaming = FALSE /\ messages[j].role = "assistant"
    BY <1>1, <1>4, Texts DEF Assistants
  <2>2. QED
    BY <1>8, <2>1 DEF Alike, Fields
<1>11. PICK runs \in BOOLEAN : runs = FALSE
  OBVIOUS
<1>12. /\ n = Len(messages) + 1 /\ Open \subseteq {"think"}
       /\ done' = IF runs THEN done ELSE done \cup {<<turn, k>>}
       /\ streaming' = IF runs THEN {<<turn, k>>} ELSE {}
       /\ Fields(messages'[n], turn, {<<turn, k>>}, runs, runs, k = "think")
  BY <1>1, <1>2, <1>8, <1>9, <1>11
<1> HIDE DEF n
<1>13. QED
  BY <1>2, <1>8, <1>10, <1>12, TextBegun

LEMMA TextWhose ==
    ASSUME TextInv, NEW j \in At("assistant"), NEW t, NEW k, messages[j].text = {<<t, k>>}
    PROVE  /\ messages[j].turn = t /\ Of(messages[j], k)
           /\ messages[j].intermediate <=> k = "think"
<1>1. PICK l \in Kinds : Of(messages[j], l) /\ (messages[j].intermediate <=> l = "think")
  BY DEF TextInv, TextsSound, Sound
<1>2. messages[j].turn = t /\ l = k
  BY <1>1, OfOne
<1>3. QED
  BY <1>1, <1>2

(* A completion finds the message of its block, reasoning that completes   *)
(* after the answer has begun as well.                                     *)
LEMMA FindsItsOwn ==
    ASSUME Arranged, Rest, TextInv, live, NEW k \in Open, "think" \in Open => k = "think"
    PROVE  LET p == CompletedMessage(messages, turn, k = "think")
           IN  p # 0 /\ p \in At("assistant") /\ messages[p].text = {<<turn, k>>}
<1> DEFINE s == FindStreamingMessage(messages, turn)
           a == FindAssistantMessage(messages, turn)
           fits == s # 0 /\ ~((k = "think") /\ ~messages[s].intermediate)
           i == IF fits THEN s ELSE a
<1>1. k \in Kinds /\ k \in Begun /\ Open \subseteq Kinds
  BY BlockFacts
<1>2. PICK p \in At("assistant") : messages[p].text = {<<turn, k>>}
  BY <1>1 DEF TextInv, BegunShown
<1>3. /\ messages[p].turn = turn /\ Of(messages[p], k)
      /\ messages[p].intermediate <=> k = "think"
  BY <1>2, TextWhose
<1>4. /\ messages[p].pending
      /\ messages[p].streaming \/ (k = "think" /\ Begun # {"think"})
  BY <1>3 DEF TextInv, TextsSound, Sound
<1>5. 0 \notin At("assistant") /\ \A j \in At("assistant") : j \in Nat
  BY Texts DEF At, Position
<1>6. \A j : j \in At("assistant") <=> j \in 1..Len(messages) /\ messages[j].role = "assistant"
  BY DEF At, Position
<1>7. a \in At("assistant") /\ messages[a].turn = turn
      /\ \A j \in At("assistant") : messages[j].turn = turn => a <= j
  <2>1. LET of(j) == messages[j].role = "assistant" /\ messages[j].turn = turn
        IN  \/ a \in 1..Len(messages) /\ of(a) /\ \A j \in 1..Len(messages) : of(j) => a <= j
            \/ \A j \in 1..Len(messages) : ~of(j)
    BY Basics, FoundAssistant
  <2> HIDE DEF a
  <2>2. QED
    BY <1>2, <1>3, <1>6, <2>1
<1>8. \/ s = 0 /\ \A j \in At("assistant") : ~messages[j].streaming
      \/ s \in At("assistant") /\ messages[s].streaming
  <2>1. \/ s = 0 /\ \A j \in 1..Len(messages) : ~(messages[j].role = "assistant" /\ messages[j].streaming)
        \/ s \in 1..Len(messages) /\ messages[s].role = "assistant" /\ messages[s].streaming
    BY Basics, FoundStreaming
  <2> HIDE DEF s
  <2>2. QED
    BY <1>6, <2>1
<1>9. CompletedMessage(messages, turn, k = "think") =
          IF i # 0 /\ messages[i].intermediate /\ ~messages[i].streaming /\ ~messages[i].pending
          THEN 0 ELSE i
  BY DEF CompletedMessage
<1> HIDE DEF s, a
<1>10. k = "think" => a = p
  <2> SUFFICES ASSUME k = "think" PROVE a = p
    OBVIOUS
  <2>1. a <= p
    BY <1>3, <1>7
  <2>2. p <= a
    BY <1>3, <1>7 DEF TextInv, ThinkFirst
  <2>3. QED
    BY <1>5, <1>7, <2>1, <2>2
<1>11. i = p
  <2>1. CASE s = 0
    BY <1>2, <1>4, <1>5, <1>8, <1>10, <2>1
  <2>2. CASE s # 0
    <3>1. s \in At("assistant") /\ messages[s].streaming
      BY <1>8, <2>2
    <3>2. PICK l \in Open : /\ Of(messages[s], l) /\ messages[s].turn = turn
                            /\ messages[s].intermediate <=> l = "think"
      BY <3>1 DEF TextInv, TextsSound, Sound
    <3>3. l = k => s = p
      BY <1>2, <3>1, <3>2 DEF Of, TextInv, Unlike
    <3>4. CASE k = "think"
      BY <1>10, <2>2, <3>2, <3>3, <3>4
    <3>5. CASE k # "think"
      <4>1. l # "think" /\ l \in Kinds
        BY <1>1, <3>5
      <4>2. l = k
        BY <1>1, <3>5, <4>1 DEF Kinds, TextInv, OneOpen
      <4>3. QED
        BY <2>2, <3>3, <3>5, <4>2
    <3>6. QED
      BY <3>4, <3>5
  <2>3. QED
    BY <2>1, <2>2
<1> HIDE DEF i, fits
<1>12. CompletedMessage(messages, turn, k = "think") = p
  BY <1>4, <1>9, <1>11
<1>13. QED
  BY <1>2, <1>5, <1>12

LEMMA EndBlockStep ==
    ASSUME TypeInv, TextInv, NEW k \in Kinds, EndBlock(k)
    PROVE  TextInv'
<1> DEFINE p == CompletedMessage(messages, turn, k = "think")
<1>1. /\ Arranged /\ Rest /\ live /\ k \in Open /\ ("think" \in Open => k = "think")
      /\ done' = done \cup {<<turn, k>>} /\ UNCHANGED <<turn, live, block>>
  BY DEF EndBlock, TypeInv, InPlace, Turns
<1>2. PICK text : /\ text = {<<turn, k>>} \/ (text = {} /\ Open = {k})
                  /\ TextComplete(turn, text, k = "think")
  BY DEF EndBlock
<1>3. /\ turn \in 1..MaxTurn /\ text \in SUBSET Block /\ (k = "think") \in BOOLEAN
      /\ streaming \in SUBSET Block
  BY <1>1, <1>2, KindFacts DEF Rest
<1>4. p # 0 /\ p \in At("assistant") /\ messages[p].text = {<<turn, k>>}
  BY <1>1, FindsItsOwn
<1>5. /\ streaming' = {} /\ At("assistant")' = At("assistant")
      /\ Fields(messages'[p], turn, Content(p, text), FALSE, FALSE, k = "think")
      /\ \A j \in At("assistant") : j # p => Alike(messages[j], messages'[j])
  BY <1>1, <1>2, <1>3, <1>4, TextCompleteEffect
<1> HIDE DEF p
<1>6. Content(p, text) = {<<turn, k>>}
  <2>1. CASE text = {<<turn, k>>}
    BY <2>1 DEF Content
  <2>2. CASE text = {} /\ Open = {k}
    <3>1. CASE streaming = {}
      BY <1>4, <2>2, <3>1 DEF Content
    <3>2. CASE streaming # {}
      <4>1. PICK j \in At("assistant") : messages[j].streaming /\ streaming = messages[j].text
        BY <3>2 DEF TextInv, StreamingShown
      <4>2. \E l \in Open : Of(messages[j], l) /\ messages[j].turn = turn
        BY <4>1, StreamsOpen
      <4>3. messages[j].text = {<<turn, k>>}
        BY <2>2, <4>2 DEF Of
      <4>4. QED
        BY <2>2, <3>2, <4>1, <4>3 DEF Content
    <3>3. QED
      BY <3>1, <3>2
  <2>3. QED
    BY <1>2, <2>1, <2>2
<1>7. /\ messages'[p].turn = turn /\ messages'[p].text = {<<turn, k>>}
      /\ messages'[p].streaming = FALSE /\ messages'[p].pending = FALSE
      /\ messages'[p].intermediate = (k = "think")
  BY <1>5, <1>6 DEF Fields
<1>8. messages[p].turn = turn
  BY <1>4, TextWhose
<1>9. \A j \in At("assistant") :
          messages'[j].text = messages[j].text /\ messages'[j].turn = messages[j].turn
  <2> SUFFICES ASSUME NEW j \in At("assistant")
               PROVE  messages'[j].text = messages[j].text /\ messages'[j].turn = messages[j].turn
    OBVIOUS
  <2>1. CASE j = p
    BY <1>4, <1>7, <1>8, <2>1
  <2>2. CASE j # p
    BY <1>1, <1>5, <2>2, Texts DEF Alike
  <2>3. QED
    BY <2>1, <2>2
<1>10. Begun' = Begun /\ Begun \subseteq Kinds /\ Open \subseteq Begun /\ turn \in Nat
       /\ \A l : l \in Open' <=> l \in Open /\ l # k
  <2>1. Begun' = Begun
    BY <1>1 DEF Begun
  <2>2. \A l : <<turn, l>> = <<turn, k>> <=> l = k
    OBVIOUS
  <2>3. \A l : l \in Open' <=> l \in Begun /\ <<turn, l>> \notin done'
    BY <1>1, <2>1 DEF Open
  <2>4. QED
    BY <1>1, <2>1, <2>2, <2>3, BlockFacts
<1>11. ASSUME NEW j \in At("assistant"), j # p
       PROVE  Sound(messages'[j], turn, live, Begun, Open')
  <2>1. Sound(messages[j], turn, live, Begun, Open) /\ messages[j].role = "assistant"
    BY <1>1, Texts DEF TextInv, TextsSound
  <2>2. ~(messages[j].turn = turn /\ Of(messages[j], k))
    BY <1>4, <1>11 DEF Of, TextInv, Unlike
  <2>3. \A l \in Kinds : messages[j].pending /\ Of(messages[j], l) => l \in Open'
    BY <1>10, <2>1, <2>2 DEF Sound
  <2>4. \A l \in Open' : l \in Open
    BY <1>10
  <2> HIDE DEF Of, Open, Begun
  <2>5. Sound(messages[j], turn, live, Begun, Open')
    BY <2>1, <2>3, <2>4 DEF Sound
  <2>6. QED
    BY <1>5, <1>11, <2>1, <2>5, SoundAlike
<1>12. Sound(messages'[p], turn, live, Begun, Open')
  <2>1. \A l : Of(messages'[p], l) => l = k
    <3>1. messages'[p].text = {<<turn, k>>}
      BY <1>7
    <3>2. QED
      BY <3>1, OfOne
  <2>2. Of(messages'[p], k) /\ k \in Begun /\ k \notin Open' /\ turn <= turn
    BY <1>1, <1>7, <1>10 DEF Of
  <2> HIDE DEF Of, Open, Begun
  <2>3. \E l \in Kinds : Of(messages'[p], l) /\ (messages'[p].intermediate <=> l = "think")
    BY <1>7, <2>2
  <2>4. \A l \in Kinds : Of(messages'[p], l) => l \in Begun
    BY <2>1, <2>2
  <2>5. \A l \in Open' : ~Of(messages'[p], l)
    BY <2>1, <2>2
  <2>6. QED
    BY <1>7, <2>2, <2>3, <2>4, <2>5 DEF Sound
<1>13. TextsSound'
  <2> SUFFICES ASSUME NEW j \in At("assistant")' PROVE Sound(messages'[j], turn', live', Begun', Open')
    BY DEF TextsSound
  <2>1. j \in At("assistant")
    BY <1>5
  <2>2. Sound(messages'[j], turn, live, Begun, Open')
    BY <1>11, <1>12, <2>1
  <2>3. QED
    BY <1>1, <1>10, <2>2
<1>14. Unlike' /\ ThinkFirst'
  BY <1>5, <1>9 DEF TextInv, Unlike, ThinkFirst, Of
<1>15. BegunShown'
  BY <1>1, <1>5, <1>9, <1>10 DEF TextInv, BegunShown
<1>16. DoneShown'
  <2> SUFFICES ASSUME NEW b \in done'
               PROVE  /\ b[1] <= turn /\ (b[1] = turn => b[2] \in Begun)
                      /\ \E i \in At("assistant") : messages'[i].text = {b}
    BY <1>1, <1>5, <1>10 DEF DoneShown
  <2>1. CASE b \in done
    BY <1>9, <2>1 DEF TextInv, DoneShown
  <2>2. CASE b = <<turn, k>>
    BY <1>1, <1>4, <1>7, <1>10, <2>2
  <2>3. QED
    BY <1>1, <2>1, <2>2
<1>17. StreamingShown' /\ OneOpen'
  BY <1>5, <1>10 DEF TextInv, StreamingShown, OneOpen
<1>18. QED
  BY <1>13, <1>14, <1>15, <1>16, <1>17 DEF TextInv

(* A stop leaves nothing pending and drops no text.                        *)
LEMMA StopTextStep ==
    ASSUME TypeInv, TextInv, NEW byUser \in BOOLEAN, Stop(byUser)
    PROVE  TextInv'
<1>1. /\ Arranged /\ Rest /\ Interrupted(byUser) /\ live' = FALSE
      /\ UNCHANGED <<turn, block, done>>
  BY DEF Stop, EndTurn, TypeInv, InPlace
<1>2. streaming' = {} /\ \E e : Comes(e, "assistant") /\ Goes(e, "assistant")
  BY <1>1, InterruptedEffect
<1>3. PICK e : Comes(e, "assistant") /\ Goes(e, "assistant")
  BY <1>2
<1>4. Begun' = Begun /\ Open' = Open
  BY <1>1 DEF Begun, Open
<1>5. ASSUME NEW p \in At("assistant")'
      PROVE  /\ e[p] \in At("assistant") /\ p \in Nat /\ e[p] \in Nat
             /\ messages'[p].turn = messages[e[p]].turn /\ messages'[p].text = messages[e[p]].text
             /\ messages'[p].intermediate = messages[e[p]].intermediate
             /\ ~messages'[p].streaming /\ ~messages'[p].pending
  <2>1. e[p] \in At("assistant") /\ Alike(Interrupting(messages[e[p]]), messages'[p])
    BY <1>3 DEF Comes
  <2>2. /\ messages[e[p]] \in Message /\ messages[e[p]].role = "assistant" /\ e[p] \in Nat
        /\ Sound(messages[e[p]], turn, live, Begun, Open)
    <3>1. messages[e[p]] \in Message
      BY <1>1, <2>1, Basics DEF At
    <3>2. QED
      BY <1>1, <2>1, <3>1, Texts DEF TextInv, TextsSound
  <2>3. LET streams == messages[e[p]].streaming /\ ~messages[e[p]].pending
        IN  /\ Interrupting(messages[e[p]]).role = "assistant"
            /\ Fields(Interrupting(messages[e[p]]), messages[e[p]].turn, messages[e[p]].text,
                      streams, FALSE, messages[e[p]].intermediate)
    BY <2>2, InterruptingMessage DEF SameKind
  <2>4. ~(messages[e[p]].streaming /\ ~messages[e[p]].pending)
    BY <2>2 DEF Sound
  <2>5. p \in Nat
    <3>1. \A q \in At("assistant")' : q \in Nat
      BY DEF At, Position
    <3>2. QED
      BY <3>1
  <2>6. QED
    BY <2>1, <2>2, <2>3, <2>4, <2>5 DEF Alike, Fields
<1>6. TextsSound'
  <2> SUFFICES ASSUME NEW p \in At("assistant")' PROVE Sound(messages'[p], turn', live', Begun', Open')
    BY DEF TextsSound
  <2>1. Sound(messages[e[p]], turn, live, Begun, Open)
    BY <1>5 DEF TextInv, TextsSound
  <2>2. \A l : Of(messages'[p], l) <=> Of(messages[e[p]], l)
    BY <1>5 DEF Of
  <2> HIDE DEF Of, Open, Begun
  <2>3. Sound(messages'[p], turn, FALSE, Begun, Open)
    BY <1>5, <2>1, <2>2 DEF Sound
  <2>4. QED
    BY <1>1, <1>4, <2>3
<1>7. ASSUME NEW p \in At("assistant")', NEW q \in At("assistant")', e[p] <= e[q] PROVE p <= q
  BY <1>3, <1>5, <1>7 DEF Comes
<1>8. Unlike'
  <2> SUFFICES ASSUME NEW p \in At("assistant")', NEW q \in At("assistant")',
                      messages'[p].text = messages'[q].text
               PROVE  p = q
    BY DEF Unlike
  <2>1. e[p] = e[q] /\ e[p] \in Nat
    BY <1>5 DEF TextInv, Unlike
  <2>2. e[p] <= e[q] /\ e[q] <= e[p]
    BY <2>1
  <2>3. p <= q /\ q <= p
    BY <1>7, <2>2
  <2>4. QED
    BY <1>5, <2>3
<1>9. ThinkFirst'
  <2> SUFFICES ASSUME NEW p \in At("assistant")', NEW q \in At("assistant")',
                      messages'[p].turn = messages'[q].turn, Of(messages'[p], "think")
               PROVE  p <= q
    BY DEF ThinkFirst
  <2>1. messages[e[p]].turn = messages[e[q]].turn /\ Of(messages[e[p]], "think")
    BY <1>5 DEF Of
  <2>2. e[p] <= e[q]
    BY <1>5, <2>1 DEF TextInv, ThinkFirst
  <2>3. QED
    BY <1>7, <2>2
<1>10. \A t : (\E i \in At("assistant") : messages[i].text = t) =>
              \E p \in At("assistant")' : messages'[p].text = t
  BY <1>3, <1>5 DEF Goes
<1>11. BegunShown' /\ DoneShown'
  BY <1>1, <1>4, <1>10 DEF TextInv, BegunShown, DoneShown
<1>12. StreamingShown' /\ OneOpen'
  BY <1>2, <1>4 DEF TextInv, StreamingShown, OneOpen
<1>13. QED
  BY <1>6, <1>8, <1>9, <1>11, <1>12 DEF TextInv

(* A block is completed before its turn fails, and only the first of a     *)
(* turn may come without deltas.                                           *)
Careful == Env \cap {"cuts", "whole"} = {}

LEMMA TextStep ==
    ASSUME Careful, TypeInv, TypeInv', TextInv, [Next]_vars
    PROVE  TextInv'
<1>1. Rest' /\ TextCase
  BY TextCases DEF TypeInv
<1>2. KeepsTexts => TextInv'
  BY TextQuiet DEF KeepsTexts, TypeInv, InPlace
<1>3. StartsTurn => TextInv'
  BY <1>1, TextAtStart DEF StartsTurn
<1>4. EndsTurn => TextInv'
  BY TextAtEnd DEF EndsTurn, Careful
<1>5. ASSUME NEW k \in Kinds, BeginBlock(k) \/ WholeBlock(k) \/ EndBlock(k) PROVE TextInv'
  BY <1>5, BeginBlockStep, WholeBlockStep, EndBlockStep DEF Careful
<1>6. ASSUME NEW byUser \in BOOLEAN, Stop(byUser) PROVE TextInv'
  BY <1>6, StopTextStep
<1>7. QED
  BY <1>1, <1>2, <1>3, <1>4, <1>5, <1>6 DEF TextCase

-----------------------------------------------------------------------------
(* What streams.  For this, blocks may come whole: such a block may take   *)
(* the place of a text, but leaves none streaming that the agent has not   *)
(* open.                                                                   *)
Streams(m, open) == m.streaming => m.pending /\ \E k \in open : m.intermediate <=> k = "think"

DoneBegun == \A b \in done : b[1] <= turn /\ (b[1] = turn => b[2] \in Begun)

StreamInv ==
    /\ \A i \in At("assistant") : Streams(messages[i], Open)
    /\ \A i, j \in At("assistant") : messages[i].streaming /\ messages[j].streaming => i = j
    /\ ~live => \A i \in At("assistant") : ~messages[i].streaming
    /\ DoneBegun

(* A step after which fewer texts stream.                                  *)
LEMMA StreamsFewer ==
    ASSUME StreamInv, DoneBegun', NEW e,
           \A p \in At("assistant")' : messages'[p].streaming =>
               /\ e[p] \in At("assistant") /\ messages[e[p]].streaming /\ live'
               /\ messages'[p].pending = messages[e[p]].pending
               /\ messages'[p].intermediate = messages[e[p]].intermediate,
           \A p, q \in At("assistant")' : e[p] = e[q] => p = q,
           \A k \in Open : k \notin Open' =>
               /\ k \in Kinds
               /\ \A p \in At("assistant")' :
                     messages'[p].streaming => ~(messages'[p].intermediate <=> k = "think")
    PROVE  StreamInv'
<1>1. ASSUME NEW p \in At("assistant")', messages'[p].streaming
      PROVE  messages'[p].pending /\ \E k \in Open' : messages'[p].intermediate <=> k = "think"
  <2>1. Streams(messages[e[p]], Open) /\ messages[e[p]].streaming
    BY <1>1 DEF StreamInv
  <2>2. messages[e[p]].pending
    BY <2>1 DEF Streams
  <2>3. PICK k \in Open : messages[e[p]].intermediate <=> k = "think"
    BY <2>1 DEF Streams
  <2>4. k \in Open'
    BY <1>1, <2>3
  <2>5. QED
    BY <1>1, <2>2, <2>3, <2>4
<1>2. \A p \in At("assistant")' : Streams(messages'[p], Open')
  BY <1>1 DEF Streams
<1>3. \A p, q \in At("assistant")' : messages'[p].streaming /\ messages'[q].streaming => p = q
  BY DEF StreamInv
<1>4. ~live' => \A p \in At("assistant")' : ~messages'[p].streaming
  OBVIOUS
<1>5. QED
  BY <1>2, <1>3, <1>4 DEF StreamInv

LEMMA SameStreams ==
    ASSUME Arranged, Same("assistant")
    PROVE  /\ At("assistant")' = At("assistant")
           /\ \A i \in At("assistant") :
                 /\ messages'[i].streaming = messages[i].streaming
                 /\ messages'[i].pending = messages[i].pending
                 /\ messages'[i].intermediate = messages[i].intermediate
BY Texts DEF Same, Alike

LEMMA StreamQuiet ==
    ASSUME TypeInv, StreamInv, KeepsTexts
    PROVE  StreamInv'
<1>1. Arranged /\ Same("assistant") /\ UNCHANGED <<turn, live, block, done>>
  BY DEF TypeInv, InPlace, KeepsTexts
<1>2. Begun' = Begun /\ Open' = Open
  BY <1>1 DEF Begun, Open
<1>3. DoneBegun'
  BY <1>1, <1>2 DEF StreamInv, DoneBegun
<1>4. \A i \in At("assistant") : messages[i].streaming => live
  BY DEF StreamInv
<1> DEFINE e == [i \in At("assistant") |-> i]
<1>5. \A i \in At("assistant") : e[i] = i
  OBVIOUS
<1> HIDE DEF e
<1>6. QED
  BY <1>1, <1>2, <1>3, <1>4, <1>5, SameStreams, StreamsFewer

(* Between turns nothing streams.                                          *)
LEMMA StreamNone ==
    ASSUME DoneBegun', \A p \in At("assistant")' : ~messages'[p].streaming
    PROVE  StreamInv'
BY DEF StreamInv, Streams

LEMMA StreamAtStart ==
    ASSUME TypeInv, StreamInv, StartsTurn
    PROVE  StreamInv'
<1>1. Arranged /\ Rest /\ Same("assistant") /\ ~live /\ turn' = turn + 1 /\ done' = done
      /\ turn \in Nat
  BY BlockFacts DEF TypeInv, InPlace, StartsTurn, StartTurn
<1>2. \A p \in At("assistant")' : ~messages'[p].streaming
  BY <1>1, SameStreams DEF StreamInv
<1>3. \A b \in done : b[1] <= turn /\ b[1] \in Nat
  BY <1>1, BlockFacts DEF StreamInv, DoneBegun
<1>4. DoneBegun'
  BY <1>1, <1>3 DEF DoneBegun
<1>5. QED
  BY <1>2, <1>4, StreamNone

LEMMA StreamAtEnd ==
    ASSUME TypeInv, StreamInv, EndsTurn, "cuts" \notin Env
    PROVE  StreamInv'
<1>1. Arranged /\ Same("assistant") /\ Open = {} /\ UNCHANGED <<turn, block, done>>
  BY DEF TypeInv, InPlace, EndsTurn
<1>2. \A p \in At("assistant")' : ~messages'[p].streaming
  BY <1>1, SameStreams DEF StreamInv, Streams
<1>3. DoneBegun'
  BY <1>1 DEF StreamInv, DoneBegun, Begun
<1>4. QED
  BY <1>2, <1>3, StreamNone

LEMMA StreamAtStop ==
    ASSUME TypeInv, StreamInv, NEW byUser \in BOOLEAN, Stop(byUser)
    PROVE  StreamInv'
<1>1. Arranged /\ Interrupted(byUser) /\ UNCHANGED <<turn, block, done>>
  BY DEF Stop, EndTurn, TypeInv, InPlace
<1>2. PICK e : Comes(e, "assistant")
  BY <1>1, InterruptedEffect
<1>3. ASSUME NEW p \in At("assistant")' PROVE ~messages'[p].streaming
  <2>1. e[p] \in At("assistant") /\ Alike(Interrupting(messages[e[p]]), messages'[p])
    BY <1>2 DEF Comes
  <2>2. /\ messages[e[p]] \in Message /\ messages[e[p]].role = "assistant"
        /\ Streams(messages[e[p]], Open)
    <3>1. messages[e[p]] \in Message
      BY <1>1, <2>1, Basics DEF At
    <3>2. QED
      BY <1>1, <2>1, <3>1, Texts DEF StreamInv
  <2>3. LET streams == messages[e[p]].streaming /\ ~messages[e[p]].pending
        IN  /\ Interrupting(messages[e[p]]).role = "assistant"
            /\ Fields(Interrupting(messages[e[p]]), messages[e[p]].turn, messages[e[p]].text,
                      streams, FALSE, messages[e[p]].intermediate)
    BY <2>2, InterruptingMessage DEF SameKind
  <2>4. ~(messages[e[p]].streaming /\ ~messages[e[p]].pending)
    BY <2>2 DEF Streams
  <2>5. QED
    BY <2>1, <2>3, <2>4 DEF Alike, Fields
<1>4. DoneBegun'
  BY <1>1 DEF StreamInv, DoneBegun, Begun
<1>5. QED
  BY <1>3, <1>4, StreamNone

(* The message that streams is the one a lookup finds.                     *)
LEMMA StreamFound ==
    ASSUME Arranged, StreamInv
    PROVE  LET s == FindStreamingMessage(messages, turn)
           IN  /\ \A j \in At("assistant") : messages[j].streaming => j = s
               /\ \/ s = 0
                  \/ s \in At("assistant") /\ messages[s].streaming
<1> DEFINE s == FindStreamingMessage(messages, turn)
<1>1. \/ s = 0 /\ \A j \in 1..Len(messages) : ~(messages[j].role = "assistant" /\ messages[j].streaming)
      \/ s \in 1..Len(messages) /\ messages[s].role = "assistant" /\ messages[s].streaming
  BY Basics, FoundStreaming
<1> HIDE DEF s
<1>2. \/ s = 0 /\ \A j \in At("assistant") : ~messages[j].streaming
      \/ s \in At("assistant") /\ messages[s].streaming
  BY <1>1 DEF At, Position
<1>3. \A j \in At("assistant") : messages[j].streaming => j = s
  BY <1>2 DEF StreamInv
<1>4. QED
  BY <1>2, <1>3 DEF s

(* What a new block leaves open.                                           *)
LEMMA OpensMore ==
    ASSUME Rest, DoneBegun, NEW k \in Kinds, Begins(k),
           done' \in {done, done \cup {<<turn, k>>}}
    PROVE  /\ DoneBegun' /\ Open \subseteq Open' /\ live /\ live'
           /\ Open \subseteq {"think"} /\ ("think" \in Open => k # "think")
           /\ done' = done => k \in Open'
<1>1. /\ turn' = turn /\ live /\ live' = live /\ turn \in Nat
      /\ Begun' = Begun \cup {k} /\ k \notin Begun /\ Open \subseteq {"think"}
      /\ k = "think" => block = <<>>
  BY BegunMore, BeginsTyped, BlockFacts DEF Begins
<1>2. \A l : <<turn, l>> = <<turn, k>> => l = k
  OBVIOUS
<1>3. \A l : l \in Open' <=> l \in Begun' /\ <<turn, l>> \notin done'
  BY <1>1 DEF Open
<1>4. \A l : l \in Open <=> l \in Begun /\ <<turn, l>> \notin done
  BY BlockFacts
<1>5. \A b \in done' : b[1] <= turn /\ (b[1] = turn => b[2] \in Begun')
  <2>1. CASE done' = done
    BY <1>1, <2>1 DEF DoneBegun
  <2>2. CASE done' = done \cup {<<turn, k>>}
    BY <1>1, <2>2 DEF DoneBegun
  <2>3. QED
    BY <2>1, <2>2
<1>6. Open \subseteq Open'
  BY <1>1, <1>2, <1>3, <1>4
<1>7. <<turn, k>> \notin done
  BY <1>1 DEF DoneBegun
<1>8. QED
  BY <1>1, <1>3, <1>4, <1>5, <1>6, <1>7 DEF DoneBegun

LEMMA StreamBegins ==
    ASSUME TypeInv, StreamInv, NEW k \in Kinds, BeginBlock(k)
    PROVE  StreamInv'
<1> DEFINE s == FindStreamingMessage(messages, turn)
           n == Len(messages) + 1
<1>1. /\ Begins(k) /\ TextDelta(turn, {<<turn, k>>}, k = "think") /\ done' = done
      /\ Arranged /\ Rest /\ DoneBegun
  BY DEF BeginBlock, TypeInv, InPlace, StreamInv
<1>2. /\ DoneBegun' /\ Open \subseteq Open' /\ live' /\ k \in Open'
      /\ Open \subseteq {"think"} /\ ("think" \in Open => k # "think")
  BY <1>1, OpensMore
<1>3. turn \in 1..MaxTurn /\ {<<turn, k>>} \in SUBSET Block /\ (k = "think") \in BOOLEAN
      /\ streaming \in SUBSET Block
  BY <1>1, BeginsTyped DEF Rest
<1>4. /\ \A j \in At("assistant") : messages[j].streaming => j = s
      /\ s = 0 \/ (s \in At("assistant") /\ messages[s].streaming)
  BY <1>1, StreamFound
<1>5. s = 0 \/ (messages[s].intermediate /\ ~(k = "think"))
  <2> HIDE DEF s
  <2>1. QED
    BY <1>2, <1>4 DEF StreamInv, Streams
<1>6. /\ NewText(n)
      /\ Fields(messages'[n], turn, {<<turn, k>>}, TRUE, TRUE, k = "think")
      /\ \A j \in At("assistant") :
            Fields(messages'[j], messages[j].turn, messages[j].text,
                   IF j = s THEN FALSE ELSE messages[j].streaming,
                   messages[j].pending, messages[j].intermediate)
  BY <1>1, <1>3, <1>5, TextDeltaEffect
<1> HIDE DEF s, n
<1>7. \A j \in At("assistant") : ~messages'[j].streaming
  BY <1>4, <1>6 DEF Fields
<1>8. \A j \in At("assistant")' : messages'[j].streaming => j = n
  BY <1>6, <1>7 DEF NewText
<1>9. Streams(messages'[n], Open')
  BY <1>2, <1>6 DEF Streams, Fields
<1>10. QED
  BY <1>2, <1>8, <1>9 DEF StreamInv, Streams

LEMMA StreamCompletes ==
    ASSUME TypeInv, StreamInv, NEW k \in Kinds, NEW text \in {{<<turn, k>>}, {}},
           TextComplete(turn, text, k = "think"), turn \in 1..MaxTurn, DoneBegun', live',
           Open \subseteq Open' \cup {k},
           k \in Open /\ "think" \in Open => k = "think"
    PROVE  StreamInv'
<1> DEFINE s == FindStreamingMessage(messages, turn)
           i == CompletedMessage(messages, turn, k = "think")
           n == Len(messages) + 1
<1>1. Arranged /\ Rest /\ text \in SUBSET Block /\ (k = "think") \in BOOLEAN
      /\ streaming \in SUBSET Block
  BY KindFacts DEF TypeInv, InPlace, Rest
<1>2. /\ \A j \in At("assistant") : messages[j].streaming => j = s
      /\ s = 0 \/ (s \in At("assistant") /\ messages[s].streaming)
  BY <1>1, StreamFound
<1>3. /\ i = 0 =>
            /\ NewText(n)
            /\ Fields(messages'[n], turn, Content(0, text), FALSE, FALSE, k = "think")
            /\ \A j \in At("assistant") : Alike(messages[j], messages'[j])
      /\ i # 0 =>
            /\ i \in At("assistant") /\ At("assistant")' = At("assistant")
            /\ Fields(messages'[i], turn, Content(i, text), FALSE, FALSE, k = "think")
            /\ \A j \in At("assistant") : j # i => Alike(messages[j], messages'[j])
  BY <1>1, TextCompleteEffect
<1>4. s # 0 /\ ~((k = "think") /\ ~messages[s].intermediate) => i = s
  BY <1>2 DEF CompletedMessage
<1>5. 0 \notin At("assistant")
  BY DEF At, Position
<1> HIDE DEF s, i, n
<1>6. ASSUME NEW j \in At("assistant")', messages'[j].streaming
      PROVE  /\ j \in At("assistant") /\ messages[j].streaming /\ j = s /\ j # i
             /\ messages'[j].pending = messages[j].pending
             /\ messages'[j].intermediate = messages[j].intermediate
  <2>1. j \in At("assistant") /\ j # i /\ Alike(messages[j], messages'[j])
    <3>1. CASE i = 0
      BY <1>3, <1>5, <1>6, <3>1 DEF NewText, Fields
    <3>2. CASE i # 0
      BY <1>3, <1>6, <3>2 DEF Fields
    <3>3. QED
      BY <3>1, <3>2
  <2>2. messages[j].role = "assistant"
    BY <1>1, <2>1, Texts
  <2>3. QED
    BY <1>2, <1>6, <2>1, <2>2 DEF Alike
<1>7. ASSUME NEW j \in At("assistant")', messages'[j].streaming
      PROVE  k = "think" /\ ~messages'[j].intermediate
  BY <1>4, <1>5, <1>6, <1>7
<1> DEFINE e == [j \in At("assistant")' |-> j]
<1>8. \A j \in At("assistant")' : e[j] = j
  OBVIOUS
<1> HIDE DEF e
<1>9. \A l \in Open : l \notin Open' => l = k
  OBVIOUS
<1>10. QED
  BY <1>6, <1>7, <1>8, <1>9, StreamsFewer

LEMMA StreamEnds ==
    ASSUME TypeInv, StreamInv, NEW k \in Kinds, EndBlock(k)
    PROVE  StreamInv'
<1>1. /\ Rest /\ live /\ k \in Open /\ ("think" \in Open => k = "think")
      /\ done' = done \cup {<<turn, k>>} /\ UNCHANGED <<turn, live, block>>
  BY DEF EndBlock, TypeInv, Turns
<1>2. \E text \in {{<<turn, k>>}, {}} : TextComplete(turn, text, k = "think")
  BY DEF EndBlock
<1>3. Begun' = Begun /\ k \in Begun /\ turn \in Nat /\ turn \in 1..MaxTurn
  BY <1>1, BlockFacts, KindFacts DEF Begun, Rest
<1>4. DoneBegun'
  <2>1. \A b \in done' : b[1] <= turn /\ (b[1] = turn => b[2] \in Begun)
    BY <1>1, <1>3 DEF StreamInv, DoneBegun
  <2>2. QED
    BY <1>1, <1>3, <2>1 DEF DoneBegun
<1>5. Open \subseteq Open' \cup {k}
  <2>1. \A l : <<turn, l>> = <<turn, k>> => l = k
    OBVIOUS
  <2>2. \A l : l \in Open' <=> l \in Begun /\ <<turn, l>> \notin done'
    BY <1>1, <1>3 DEF Open
  <2>3. QED
    BY <1>1, <2>1, <2>2, BlockFacts
<1>6. PICK text \in {{<<turn, k>>}, {}} : TextComplete(turn, text, k = "think")
  BY <1>2
<1>7. live' /\ (k \in Open /\ "think" \in Open => k = "think")
  BY <1>1
<1>8. QED
  BY <1>3, <1>4, <1>5, <1>6, <1>7, StreamCompletes, ZenonT(30)

LEMMA StreamWhole ==
    ASSUME TypeInv, StreamInv, NEW k \in Kinds, WholeBlock(k)
    PROVE  StreamInv'
<1>1. /\ Begins(k) /\ TextComplete(turn, {<<turn, k>>}, k = "think")
      /\ done' = done \cup {<<turn, k>>} /\ Rest /\ DoneBegun
  BY DEF WholeBlock, TypeInv, StreamInv
<1>2. /\ DoneBegun' /\ Open \subseteq Open' /\ live'
      /\ Open \subseteq {"think"}
  BY <1>1, OpensMore
<1>3. turn \in 1..MaxTurn
  BY <1>1, BeginsTyped
<1>4. k \in Open /\ "think" \in Open => k = "think"
  BY <1>2
<1>5. QED
  BY <1>1, <1>2, <1>3, <1>4, StreamCompletes

LEMMA StreamStep ==
    ASSUME "cuts" \notin Env, TypeInv, TypeInv', StreamInv, [Next]_vars
    PROVE  StreamInv'
<1>1. TextCase
  BY TextCases
<1>2. ASSUME NEW k \in Kinds, BeginBlock(k) \/ WholeBlock(k) \/ EndBlock(k) PROVE StreamInv'
  BY <1>2, StreamBegins, StreamWhole, StreamEnds
<1>3. ASSUME NEW byUser \in BOOLEAN, Stop(byUser) PROVE StreamInv'
  BY <1>3, StreamAtStop
<1>4. QED
  BY <1>1, <1>2, <1>3, StreamQuiet, StreamAtStart, StreamAtEnd DEF TextCase

-----------------------------------------------------------------------------
(* What the invariants say.                                                *)
LEMMA NothingAtInit ==
    ASSUME Init
    PROVE  ToolInv /\ UserInv /\ StreamInv /\ TextInv
<1>1. messages = <<>> /\ streaming = {} /\ live = FALSE /\ ended = "no" /\ block = <<>>
      /\ done = {} /\ sent = [t \in Tool |-> {}] /\ queue = [u \in User |-> "unsent"]
  BY DEF Init
<1>2. \A role : At(role) = {}
  <2>1. Len(messages) = 0 /\ 1..0 = {}
    BY <1>1
  <2>2. QED
    BY <2>1 DEF At, Position
<1>3. ToolInv
  BY <1>1, <1>2 DEF ToolInv, OneEach, CallsOk, EventsOk, SentOk
<1>4. UserInv
  BY <1>1, <1>2 DEF UserInv, OneBubble, BubblesOk, SentIsThere, Sent, NoneQueuedAtEnd
<1>5. Begun = {} /\ Open = {}
  <2>1. Rest
    BY TypeInit DEF TypeInv
  <2>2. QED
    BY <1>1, <2>1, BlockFacts
<1>6. TextInv
  BY <1>1, <1>2, <1>5 DEF TextInv, TextsSound, Unlike, ThinkFirst, BegunShown, DoneShown,
                          StreamingShown, OneOpen
<1>7. StreamInv
  BY <1>1, <1>2 DEF StreamInv, DoneBegun
<1>8. QED
  BY <1>3, <1>4, <1>6, <1>7

LEMMA CallsAndBubbles ==
    ASSUME TypeInv, ToolInv, UserInv
    PROVE  OnePerCall /\ EndedIsShown /\ QueuedIsShown
<1>1. \A i \in Position : i \in At(messages[i].role)
  BY DEF At
<1>2. OnePerCall
  BY <1>1 DEF OnePerCall, ToolInv, OneEach, UserInv, OneBubble, SentIsThere, Sent, At
<1>3. EndedIsShown
  BY <1>1 DEF EndedIsShown, ToolInv, CallsOk, CallOk, Has
<1>4. QueuedIsShown
  <2> SUFFICES ASSUME NEW i \in Position, messages[i].role = "user"
               PROVE  LET what == {queue[u] : u \in {v \in User : Stands(messages[i].id, v)}}
                      IN  /\ "processing" \in what => ~messages[i].queued
                          /\ messages[i].id \in User /\ "queued" \in what
                                /\ what \subseteq {"unsent", "queued"} => messages[i].queued
    BY DEF QueuedIsShown
  <2>1. BubbleOk(messages[i], queue)
    BY <1>1 DEF UserInv, BubblesOk
  <2> DEFINE what == {queue[u] : u \in {v \in User : Stands(messages[i].id, v)}}
  <2>2. \A u \in User : Stands(messages[i].id, u) => queue[u] \in what
    OBVIOUS
  <2>3. \A x \in what : \E u \in User : Stands(messages[i].id, u) /\ queue[u] = x
    OBVIOUS
  <2> HIDE DEF what
  <2>4. what \subseteq {"unsent", "queued"} => Fresh(messages[i].id, queue)
    BY <2>2 DEF Fresh
  <2>5. "processing" \in what => ~messages[i].queued
    BY <2>1, <2>3 DEF BubbleOk
  <2>6. messages[i].id \in User /\ "queued" \in what /\ what \subseteq {"unsent", "queued"}
        => messages[i].queued
    BY <2>1, <2>3, <2>4 DEF BubbleOk
  <2>7. QED
    BY <2>5, <2>6 DEF what
<1>5. QED
  BY <1>2, <1>3, <1>4

LEMMA SettledThen ==
    ASSUME TypeInv, ToolInv, UserInv, StreamInv
    PROVE  SettledAtEnd
<1>1. \A i \in Position : i \in At(messages[i].role)
  BY DEF At
<1>2. ASSUME ~live, ended \in {"complete", "error", "interrupted"}, NEW i \in Position
      PROVE  LET m == messages[i]
             IN  /\ m.role = "tool" /\ m.status # "ended" =>
                       m.background = "task" \/ (m.shown /\ ended # "complete")
                 /\ m.role = "assistant" => ~m.streaming
                 /\ m.role = "user" /\ ended = "complete" => ~m.queued
  <2>1. messages[i].role = "tool" /\ messages[i].status # "ended" =>
            messages[i].background = "task" \/ (messages[i].shown /\ ended # "complete")
    BY <1>1, <1>2 DEF ToolInv, CallsOk, CallOk
  <2>2. messages[i].role = "assistant" => ~messages[i].streaming
    BY <1>1, <1>2 DEF StreamInv
  <2>3. messages[i].role = "user" /\ ended = "complete" => ~messages[i].queued
    BY <1>1, <1>2 DEF UserInv, NoneQueuedAtEnd
  <2>4. QED
    BY <2>1, <2>2, <2>3
<1>3. QED
  BY <1>2 DEF SettledAtEnd

LEMMA TextsOwn ==
    ASSUME TypeInv, TextInv
    PROVE  OwnText /\ TextKept
<1>1. Arranged /\ Rest
  BY DEF TypeInv, InPlace
<1>2. \A i \in Position : messages[i].role = "assistant" => i \in At("assistant")
  BY DEF At
<1>3. OwnText
  <2> SUFFICES ASSUME NEW i \in Position, messages[i].role = "assistant"
               PROVE  \E k \in Range(Kind) :
                         /\ messages[i].text \subseteq {<<messages[i].turn, k>>}
                         /\ ~messages[i].streaming /\ ~messages[i].pending =>
                               (messages[i].intermediate <=> k = "think") \/ ended = "interrupted"
                               \/ messages[i].turn < turn
    BY DEF OwnText
  <2>1. PICK k \in Kinds : Of(messages[i], k) /\ (messages[i].intermediate <=> k = "think")
    BY <1>2 DEF TextInv, TextsSound, Sound
  <2>2. messages[i].text \subseteq {<<messages[i].turn, k>>} /\ k \in Range(Kind)
    BY <2>1, KindFacts DEF Of
  <2>3. QED
    BY <2>1, <2>2
<1>4. TextKept
  <2> SUFFICES ASSUME NEW b \in done
               PROVE  \E i \in Position :
                         /\ \A j \in Position :
                               messages[j].role = "assistant" /\ b \in messages[j].text <=> j = i
                         /\ ~messages[i].pending
    BY DEF TextKept
  <2>1. PICK i \in At("assistant") : messages[i].text = {b}
    BY DEF TextInv, DoneShown
  <2>2. i \in Position /\ messages[i].role = "assistant"
    BY DEF At
  <2>3. ASSUME NEW j \in Position, messages[j].role = "assistant", b \in messages[j].text
        PROVE  j = i
    <3>1. j \in At("assistant")
      BY <1>2, <2>3
    <3>2. PICK k \in Kinds : Of(messages[j], k)
      BY <3>1 DEF TextInv, TextsSound, Sound
    <3>3. messages[j].text = {b}
      BY <2>3, <3>2 DEF Of
    <3>4. QED
      BY <2>1, <3>1, <3>3 DEF TextInv, Unlike
  <2>4. ~messages[i].pending
    <3> SUFFICES ASSUME messages[i].pending PROVE FALSE
      OBVIOUS
    <3>1. /\ messages[i].turn = turn /\ \A k \in Kinds : Of(messages[i], k) => k \in Open
          /\ \E k \in Kinds : Of(messages[i], k)
      BY DEF TextInv, TextsSound, Sound
    <3>2. PICK k \in Kinds : Of(messages[i], k)
      BY <3>1
    <3>3. b = <<turn, k>> /\ k \in Open
      <4>1. b \in {<<turn, k>>}
        BY <2>1, <3>1, <3>2 DEF Of
      <4>2. QED
        BY <3>1, <3>2, <4>1
    <3>4. QED
      BY <1>1, <3>3, BlockFacts
  <2>5. QED
    BY <2>1, <2>2, <2>3, <2>4
<1>5. QED
  BY <1>3, <1>4

(* Whatever agents and users do, and in whatever order the events come, a  *)
(* call has one message, and a user's message that is sent one bubble,     *)
(* shared with none but messages of its text less than 5 seconds apart; a  *)
(* call that has returned or whose task is over is shown as ended; and a   *)
(* bubble is marked while all that it stands for is queued, and not once   *)
(* some of it is processed.                                                *)
THEOREM CallsAndBubblesAreShown == Spec => [](OnePerCall /\ EndedIsShown /\ QueuedIsShown)
<1>1. Init => TypeInv /\ ToolInv /\ UserInv
  BY TypeInit, NothingAtInit
<1>2. TypeInv /\ ToolInv /\ UserInv /\ [Next]_vars => (TypeInv /\ ToolInv /\ UserInv)'
  BY TypeStep, ToolStep, UserStep
<1>3. TypeInv /\ ToolInv /\ UserInv => OnePerCall /\ EndedIsShown /\ QueuedIsShown
  BY CallsAndBubbles
<1>4. QED
  BY <1>1, <1>2, <1>3, PTL DEF Spec

(* Unless a turn fails within a block, or a later block comes without      *)
(* deltas, each text and call has a message of its own, and each message   *)
(* of a user one that only its repetitions share: late reasoning and       *)
(* interleaved events never mix two of them.                               *)
THEOREM TextsAreOwn ==
    ASSUME Careful
    PROVE  Spec => []OwnMessages
<1>1. Init => TypeInv /\ ToolInv /\ UserInv /\ TextInv
  BY TypeInit, NothingAtInit
<1>2. TypeInv /\ ToolInv /\ UserInv /\ TextInv /\ [Next]_vars
      => (TypeInv /\ ToolInv /\ UserInv /\ TextInv)'
  BY TypeStep, ToolStep, UserStep, TextStep
<1>3. TypeInv /\ ToolInv /\ UserInv /\ TextInv => OwnMessages
  BY CallsAndBubbles, TextsOwn DEF OwnMessages, OneMessageEach
<1>4. QED
  BY <1>1, <1>2, <1>3, PTL DEF Spec

(* Unless a turn fails within a block, what runs, waits or has ended is    *)
(* shown so, and a turn that is over leaves nothing streaming.             *)
THEOREM StatusesAreShown ==
    ASSUME "cuts" \notin Env
    PROVE  Spec => []StatusIsShown
<1>1. Init => TypeInv /\ ToolInv /\ UserInv /\ StreamInv
  BY TypeInit, NothingAtInit
<1>2. TypeInv /\ ToolInv /\ UserInv /\ StreamInv /\ [Next]_vars
      => (TypeInv /\ ToolInv /\ UserInv /\ StreamInv)'
  BY TypeStep, ToolStep, UserStep, StreamStep
<1>3. TypeInv /\ ToolInv /\ UserInv /\ StreamInv => StatusIsShown
  BY CallsAndBubbles, SettledThen DEF StatusIsShown
<1>4. QED
  BY <1>1, <1>2, <1>3, PTL DEF Spec
=============================================================================

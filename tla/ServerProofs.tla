---------------------------- MODULE ServerProofs ----------------------------
(***************************************************************************)
(* What is true of the playlist class for any set of items, any batch and  *)
(* whatever may be read outside a queue; and of the server for any items,  *)
(* any of them broken, and any number of requests.  The server's invariant *)
(* is that of the playlist: that what is opened is an item at all depends  *)
(* on the shuffle queue being a permutation of the indexes, for in the     *)
(* shuffled modes the index of the item to play is read from it.           *)
(***************************************************************************)
EXTENDS Server, SequenceTheorems, FiniteSetTheorems, TLAPS

-----------------------------------------------------------------------------
(* Numbers: induction and recursion over a set, as the library's theorems, *)
(* which take an operator, cannot be used.                                 *)

(* A set of numbers has a least member.                                     *)
LEMMA SmallestOf ==
  ASSUME NEW T, T \subseteq Nat, T # {}
  PROVE  \E n \in T : \A m \in T : n <= m
<1> DEFINE R == OpToRel(<, Nat)
<1>1. \E n \in T : \A m \in T : ~(<<m, n>> \in R)
  BY NatLessThanWellFounded, WFMin
<1>2. \A m, n \in Nat : <<m, n>> \in R <=> m < n
  BY DEF OpToRel
<1> HIDE DEF R
<1>3. PICK n \in T : \A m \in T : ~(<<m, n>> \in R)
  BY <1>1
<1>4. \A m \in T : m \in Nat /\ n \in Nat /\ ~(m < n)
  BY <1>2, <1>3
<1>5. \A m \in T : n <= m
  BY <1>4
<1>6. QED
  BY <1>5

(* Induction, over a set that has 0 and the successors of its members.      *)
LEMMA SetInduction ==
  ASSUME NEW S, 0 \in S, \A n \in Nat : n \in S => n + 1 \in S
  PROVE  Nat \subseteq S
<1> DEFINE T == Nat \ S
<1>1. SUFFICES ASSUME T # {} PROVE FALSE
  OBVIOUS
<1>2. PICK n \in T : \A m \in T : n <= m
  BY <1>1, SmallestOf
<1>3. n \in Nat /\ n # 0 /\ n \notin S
  BY <1>2
<1>4. n - 1 \in Nat /\ ~(n <= n - 1) /\ (n - 1) + 1 = n
  BY <1>3
<1>5. n - 1 \in S
  BY <1>2, <1>4
<1>6. QED
  BY <1>3, <1>4, <1>5

(* A step can be iterated from a base: what the definition of Grown needs.  *)
LEMMA Recursion ==
  ASSUME NEW V, NEW base \in V, NEW step \in [V -> V]
  PROVE  \E f \in [Nat -> V] : f[0] = base /\ \A n \in Nat : f[n + 1] = step[f[n]]
<1> DEFINE UpTo(n, f) == f \in [Nat -> V] /\ f[0] = base /\ \A m \in 0 .. n - 1 : f[m + 1] = step[f[m]]
<1>1. \A n \in Nat : \E f : UpTo(n, f)
  <2> DEFINE S == {n \in Nat : \E f : UpTo(n, f)}
  <2>1. 0 \in S
    <3>1. UpTo(0, [n \in Nat |-> base])
      OBVIOUS
    <3>2. QED
      BY <3>1
  <2>2. ASSUME NEW n \in Nat, n \in S PROVE n + 1 \in S
    <3>1. PICK f : UpTo(n, f)
      BY <2>2
    <3> DEFINE g == [f EXCEPT ![n + 1] = step[f[n]]]
    <3>2. g \in [Nat -> V] /\ g[0] = base /\ \A m \in 0 .. n : g[m + 1] = step[g[m]]
      BY <3>1
    <3>3. UpTo(n + 1, g)
      BY <3>2
    <3> HIDE DEF UpTo, g
    <3>4. QED
      BY <3>3, n + 1 \in Nat
  <2> HIDE DEF S
  <2>3. Nat \subseteq S
    BY <2>1, <2>2, SetInduction
  <2>4. QED
    BY <2>3 DEF S
<1>2. ASSUME NEW n \in Nat, NEW f, NEW g, UpTo(n, f), UpTo(n + 1, g) PROVE f[n] = g[n]
  <2> DEFINE S == {m \in Nat : m <= n => f[m] = g[m]}
  <2>1. 0 \in S
    BY <1>2
  <2>2. \A m \in Nat : m \in S => m + 1 \in S
    BY <1>2
  <2> HIDE DEF S
  <2>3. n \in S
    BY <2>1, <2>2, SetInduction
  <2>4. QED
    BY <2>3 DEF S
<1> DEFINE F(n) == CHOOSE f : UpTo(n, f)
           h == [n \in Nat |-> F(n)[n]]
<1>3. \A n \in Nat : UpTo(n, F(n))
  BY <1>1
<1> HIDE DEF F
<1>4. h \in [Nat -> V] /\ h[0] = base
  BY <1>3
<1>5. ASSUME NEW n \in Nat PROVE h[n + 1] = step[h[n]]
  <2>1. n + 1 \in Nat /\ h[n + 1] = F(n + 1)[n + 1] /\ h[n] = F(n)[n]
    OBVIOUS
  <2>2. F(n + 1)[n + 1] = step[F(n + 1)[n]]
    BY <1>3, <2>1
  <2>3. F(n + 1)[n] = F(n)[n]
    BY <1>2, <1>3, <2>1
  <2>4. QED
    BY <2>1, <2>2, <2>3
<1>6. QED
  BY <1>4, <1>5

-----------------------------------------------------------------------------
(* Lists.                                                                  *)

Elements(q) == {q[k] : k \in 1 .. Len(q)}
Distinct(q) == \A k, l \in 1 .. Len(q) : q[k] = q[l] => k = l

(* The values of a sequence are those of the function it is.                *)
LEMMA RangeIsElements == ASSUME NEW S, NEW q \in Seq(S) PROVE Range(q) = Elements(q)
BY DEF Range, Elements

(* What Insert makes of a list, place by place.                            *)
LEMMA InsertedFacts ==
  ASSUME NEW S, NEW q \in Seq(S), NEW new \in Seq(S), NEW index \in 0 .. Len(q)
  PROVE  LET r == InsertedAt(q, index, new) IN
         /\ r \in Seq(S) /\ Len(r) = Len(q) + Len(new)
         /\ \A k \in 1 .. Len(q) + Len(new) :
              r[k] = IF k <= index THEN q[k]
                     ELSE IF k <= index + Len(new) THEN new[k - index]
                     ELSE q[k - Len(new)]
<1> DEFINE front == SubSeq(q, 1, index)
           back == SubSeq(q, index + 1, Len(q))
<1>1. Len(q) \in Nat /\ Len(new) \in Nat /\ index \in Nat
  OBVIOUS
<1>2. /\ front \in Seq(S) /\ Len(front) = index
      /\ \A k \in 1 .. index : front[k] = q[k]
  <2>1. \A k \in 1 .. index : q[k] \in S
    BY <1>1
  <2>2. QED
    BY <1>1, <2>1, SubSeqProperties
<1>3. /\ back \in Seq(S) /\ Len(back) = Len(q) - index
      /\ \A k \in 1 .. Len(q) - index : back[k] = q[index + k]
  <2>1. \A k \in index + 1 .. Len(q) : q[k] \in S
    BY <1>1
  <2>2. QED
    BY <1>1, <2>1, SubSeqProperties
<1> DEFINE two == front \o new
           r == two \o back
<1> HIDE DEF front, back
<1>4. /\ two \in Seq(S) /\ Len(two) = index + Len(new)
      /\ \A k \in 1 .. index + Len(new) : two[k] = IF k <= index THEN q[k] ELSE new[k - index]
  <2>1. /\ two \in Seq(S) /\ Len(two) = Len(front) + Len(new)
        /\ \A k \in 1 .. Len(front) + Len(new) :
             two[k] = IF k <= Len(front) THEN front[k] ELSE new[k - Len(front)]
    BY <1>2, ConcatProperties
  <2> HIDE DEF two
  <2>2. QED
    BY <1>1, <1>2, <2>1
<1>5. /\ r \in Seq(S) /\ Len(r) = Len(q) + Len(new)
      /\ \A k \in 1 .. Len(q) + Len(new) :
           r[k] = IF k <= index + Len(new) THEN two[k] ELSE back[k - (index + Len(new))]
  <2> HIDE DEF two
  <2>1. /\ r \in Seq(S) /\ Len(r) = Len(two) + Len(back)
        /\ \A k \in 1 .. Len(two) + Len(back) :
             r[k] = IF k <= Len(two) THEN two[k] ELSE back[k - Len(two)]
    BY <1>3, <1>4, ConcatProperties
  <2>2. Len(two) + Len(back) = Len(q) + Len(new)
    BY <1>1, <1>3, <1>4
  <2> HIDE DEF r
  <2>3. QED
    BY <1>4, <2>1, <2>2
<1>6. InsertedAt(q, index, new) = r
  BY DEF InsertedAt, front, back
<1> HIDE DEF two, r
<1>7. ASSUME NEW k \in 1 .. Len(q) + Len(new)
      PROVE  r[k] = IF k <= index THEN q[k]
                    ELSE IF k <= index + Len(new) THEN new[k - index]
                    ELSE q[k - Len(new)]
  <2>1. CASE k > index + Len(new)
    <3>1. /\ k - (index + Len(new)) \in 1 .. Len(q) - index
          /\ index + (k - (index + Len(new))) = k - Len(new)
          /\ ~(k <= index) /\ ~(k <= index + Len(new))
      BY <1>1, <2>1
    <3>2. r[k] = back[k - (index + Len(new))]
      BY <1>5, <3>1
    <3>3. back[k - (index + Len(new))] = q[k - Len(new)]
      BY <1>3, <3>1
    <3>4. QED
      BY <3>1, <3>2, <3>3
  <2>2. CASE k <= index + Len(new)
    <3>1. k \in 1 .. index + Len(new) /\ (k <= index => k <= index + Len(new))
      BY <1>1, <2>2
    <3>2. r[k] = two[k]
      BY <1>5, <2>2
    <3>3. QED
      BY <1>4, <2>2, <3>1, <3>2
  <2>3. QED
    BY <1>1, <2>1, <2>2
<1>8. QED
  BY <1>5, <1>6, <1>7

(* Nothing is lost by it, and nothing doubled that was not before.         *)
LEMMA InsertedElements ==
  ASSUME NEW S, NEW q \in Seq(S), NEW new \in Seq(S), NEW index \in 0 .. Len(q)
  PROVE  LET r == InsertedAt(q, index, new) IN
         /\ Elements(r) = Elements(q) \cup Elements(new)
         /\ Distinct(q) /\ Distinct(new) /\ Elements(q) \cap Elements(new) = {} => Distinct(r)
<1> DEFINE r == InsertedAt(q, index, new)
           n == Len(q)
           m == Len(new)
<1>1. n \in Nat /\ m \in Nat /\ index \in 0 .. n /\ Len(r) = n + m
  <2>1. Len(r) = n + m
    BY InsertedFacts
  <2>2. QED
    BY <2>1
<1>2. \A k \in 1 .. n + m :
        r[k] = IF k <= index THEN q[k] ELSE IF k <= index + m THEN new[k - index] ELSE q[k - m]
  BY InsertedFacts
<1> HIDE DEF r, n, m
<1>3. Elements(r) \subseteq Elements(q) \cup Elements(new)
  <2>1. ASSUME NEW k \in 1 .. n + m PROVE r[k] \in Elements(q) \cup Elements(new)
    <3>1. CASE k <= index
      BY <1>1, <1>2, <3>1 DEF Elements, n
    <3>2. CASE k > index /\ k <= index + m
      <4>1. k - index \in 1 .. m /\ r[k] = new[k - index]
        BY <1>1, <1>2, <3>2
      <4>2. QED
        BY <4>1 DEF Elements, m
    <3>3. CASE k > index + m
      <4>1. k - m \in 1 .. n /\ r[k] = q[k - m]
        BY <1>1, <1>2, <3>3
      <4>2. QED
        BY <4>1 DEF Elements, n
    <3>4. k <= index \/ (k > index /\ k <= index + m) \/ k > index + m
      BY <1>1
    <3>5. QED
      BY <3>1, <3>2, <3>3, <3>4
  <2>2. QED
    BY <1>1, <2>1 DEF Elements
<1>4. Elements(q) \subseteq Elements(r)
  <2>1. ASSUME NEW k \in 1 .. n PROVE q[k] \in Elements(r)
    <3>1. CASE k <= index
      BY <1>1, <1>2, <3>1 DEF Elements
    <3>2. CASE k > index
      <4>1. k + m \in 1 .. n + m /\ r[k + m] = q[k]
        <5>1. k + m \in 1 .. n + m /\ ~(k + m <= index) /\ ~(k + m <= index + m) /\ (k + m) - m = k
          BY <1>1, <3>2
        <5>2. QED
          BY <1>2, <5>1
      <4>2. QED
        BY <1>1, <4>1 DEF Elements
    <3>3. QED
      BY <1>1, <3>1, <3>2
  <2>2. QED
    BY <2>1 DEF Elements, n
<1>5. Elements(new) \subseteq Elements(r)
  <2>1. ASSUME NEW k \in 1 .. m PROVE new[k] \in Elements(r)
    <3>1. k + index \in 1 .. n + m /\ ~(k + index <= index) /\ k + index <= index + m /\ (k + index) - index = k
      BY <1>1
    <3>2. r[k + index] = new[k]
      BY <1>2, <3>1
    <3>3. QED
      BY <1>1, <3>1, <3>2 DEF Elements
  <2>2. QED
    BY <2>1 DEF Elements, m
<1>6. ASSUME Distinct(q), Distinct(new), Elements(q) \cap Elements(new) = {} PROVE Distinct(r)
  <2>1. \A k \in 1 .. n, l \in 1 .. m : q[k] # new[l]
    BY <1>6 DEF Elements, n, m
  <2>2. (\A k, l \in 1 .. n : q[k] = q[l] => k = l) /\ (\A k, l \in 1 .. m : new[k] = new[l] => k = l)
    BY <1>6 DEF Distinct, n, m
  <2> DEFINE InQ(k) == k <= index \/ k > index + m
             at(k) == IF k <= index THEN k ELSE k - m
  <2>3. \A k \in 1 .. n + m : InQ(k) => at(k) \in 1 .. n /\ r[k] = q[at(k)]
    BY <1>1, <1>2
  <2>4. \A k \in 1 .. n + m : ~InQ(k) => k - index \in 1 .. m /\ r[k] = new[k - index]
    BY <1>1, <1>2
  <2>5. \A k, l \in 1 .. n + m : InQ(k) /\ InQ(l) /\ at(k) = at(l) => k = l
    BY <1>1
  <2>6. \A k, l \in 1 .. n + m : k - index = l - index => k = l
    BY <1>1
  <2> HIDE DEF InQ, at
  <2>7. ASSUME NEW k \in 1 .. n + m, NEW l \in 1 .. n + m, r[k] = r[l] PROVE k = l
    <3>1. CASE InQ(k) /\ InQ(l)
      BY <2>2, <2>3, <2>5, <2>7, <3>1
    <3>2. CASE ~InQ(k) /\ ~InQ(l)
      BY <2>2, <2>4, <2>6, <2>7, <3>2
    <3>3. CASE InQ(k) /\ ~InQ(l)
      BY <2>1, <2>3, <2>4, <2>7, <3>3
    <3>4. CASE ~InQ(k) /\ InQ(l)
      BY <2>1, <2>3, <2>4, <2>7, <3>4
    <3>5. QED
      BY <3>1, <3>2, <3>3, <3>4
  <2>8. QED
    BY <1>1, <2>7 DEF Distinct
<1>7. QED
  BY <1>3, <1>4, <1>5, <1>6 DEF r

-----------------------------------------------------------------------------
(* Picking elements by a set of indexes.                                   *)

Rank(S, i) == Cardinality(Below(S, i))

(* The numbers below a bound are a finite set.                              *)
LEMMA BelowFacts ==
  ASSUME NEW S, S \subseteq Int, IsFiniteSet(S), NEW n \in Int
  PROVE  /\ Below(S, n) \subseteq S /\ IsFiniteSet(Below(S, n))
         /\ Rank(S, n) \in Nat /\ Cardinality(S) \in Nat /\ Rank(S, n) <= Cardinality(S)
         /\ IsFiniteSet(S \ Below(S, n))
         /\ Cardinality(S \ Below(S, n)) = Cardinality(S) - Rank(S, n)
<1>1. Below(S, n) \subseteq S /\ S \cap Below(S, n) = Below(S, n)
  BY DEF Below
<1>2. IsFiniteSet(Below(S, n)) /\ Rank(S, n) <= Cardinality(S)
  BY <1>1, FS_Subset DEF Rank
<1>3. Rank(S, n) \in Nat /\ Cardinality(S) \in Nat
  BY <1>2, FS_CardinalityType DEF Rank
<1>4. IsFiniteSet(S \ Below(S, n)) /\ Cardinality(S \ Below(S, n)) = Cardinality(S) - Rank(S, n)
  BY <1>1, FS_Difference DEF Rank
<1>5. QED
  BY <1>1, <1>2, <1>3, <1>4

(* The ranks of the members of a set are 0, 1, and so on, in order.        *)
LEMMA RankFacts ==
  ASSUME NEW S, S \subseteq Int, IsFiniteSet(S)
  PROVE  /\ Cardinality(S) \in Nat
         /\ \A i \in S : Rank(S, i) \in 0 .. Cardinality(S) - 1
         /\ \A i, j \in S : Rank(S, i) = Rank(S, j) => i = j
         /\ \A k \in 0 .. Cardinality(S) - 1 : \E i \in S : Rank(S, i) = k
<1>1. \A i \in S : Rank(S, i) \in Nat /\ IsFiniteSet(Below(S, i)) /\ Below(S, i) \subseteq S
  BY BelowFacts
<1>2. Cardinality(S) \in Nat
  BY FS_CardinalityType
<1>3. ASSUME NEW i \in S, NEW j \in S, i < j PROVE Rank(S, i) < Rank(S, j)
  <2>1. Below(S, i) \subseteq Below(S, j) /\ i \in Below(S, j) /\ i \notin Below(S, i)
    <3>1. i \in Int /\ j \in Int /\ \A x \in S : x \in Int
      OBVIOUS
    <3>2. \A x : x \in Below(S, i) <=> (x \in S /\ x < i)
      BY DEF Below
    <3>3. \A x : x \in Below(S, j) <=> (x \in S /\ x < j)
      BY DEF Below
    <3>4. \A x \in S : x < i => x < j
      BY <1>3, <3>1
    <3>5. ~(i < i)
      BY <3>1
    <3>6. QED
      BY <1>3, <3>2, <3>3, <3>4, <3>5
  <2>2. Rank(S, i) <= Rank(S, j) /\ Rank(S, i) # Rank(S, j)
    BY <1>1, <2>1, FS_Subset DEF Rank
  <2>3. QED
    BY <1>1, <2>2
<1>4. \A i, j \in S : Rank(S, i) = Rank(S, j) => i = j
  <2>1. TAKE i, j \in S
  <2>2. i < j \/ j < i \/ i = j
    OBVIOUS
  <2>3. QED
    BY <1>1, <1>3, <2>2
<1>5. ASSUME NEW i \in S PROVE Rank(S, i) \in 0 .. Cardinality(S) - 1
  <2>1. i \in S /\ i \notin Below(S, i) /\ Below(S, i) \in SUBSET S
    BY DEF Below
  <2>2. Rank(S, i) <= Cardinality(S) /\ Rank(S, i) # Cardinality(S)
    BY <2>1, FS_Subset DEF Rank
  <2>3. QED
    BY <1>1, <1>2, <2>2
<1> DEFINE N == 0 .. Cardinality(S) - 1
           f == [i \in S |-> Rank(S, i)]
<1>6. f \in Injection(S, N)
  BY <1>4, <1>5 DEF Injection, IsInjective
<1>7. IsFiniteSet(N) /\ Cardinality(N) = Cardinality(S)
  BY <1>2, FS_Interval
<1>8. f \in Surjection(S, N)
  <2> HIDE DEF f, N
  <2>1. QED
    BY <1>6, <1>7, FS_Injection
<1>9. \A k \in N : \E i \in S : Rank(S, i) = k
  BY <1>8 DEF Surjection
<1>10. QED
  BY <1>2, <1>4, <1>5, <1>9

(* What Pick returns, place by place.                                      *)
LEMMA PickFacts ==
  ASSUME NEW V, NEW q \in Seq(V), NEW S \in SUBSET Index(q)
  PROVE  /\ IsFiniteSet(S) /\ S \subseteq Int /\ Cardinality(S) \in 0 .. Len(q)
         /\ Pick(q, S) \in Seq(V) /\ Len(Pick(q, S)) = Cardinality(S)
         /\ \A i \in S : Rank(S, i) + 1 \in 1 .. Cardinality(S) /\ Pick(q, S)[Rank(S, i) + 1] = At(q, i)
         /\ \A k \in 1 .. Cardinality(S) : \E i \in S : Rank(S, i) = k - 1 /\ Pick(q, S)[k] = At(q, i)
<1>1. Index(q) \subseteq Int /\ IsFiniteSet(Index(q)) /\ Cardinality(Index(q)) = Len(q) /\ Len(q) \in Nat
  <2>1. Len(q) \in Nat /\ 0 \in Int /\ Len(q) - 1 \in Int
    OBVIOUS
  <2>2. IsFiniteSet(0 .. Len(q) - 1) /\ Cardinality(0 .. Len(q) - 1) = IF 0 > Len(q) - 1 THEN 0 ELSE Len(q) - 1 - 0 + 1
    BY <2>1, FS_Interval
  <2>3. QED
    BY <2>1, <2>2 DEF Index
<1>2. IsFiniteSet(S) /\ S \subseteq Int /\ Cardinality(S) \in 0 .. Len(q)
  <2>1. IsFiniteSet(S) /\ Cardinality(S) <= Len(q)
    BY <1>1, FS_Subset
  <2>2. QED
    BY <1>1, <2>1, FS_CardinalityType
<1> DEFINE n == Cardinality(S)
           at(k) == CHOOSE i \in S : Cardinality(Below(S, i)) = k - 1
<1>3. \A k \in 1 .. n : at(k) \in S /\ Rank(S, at(k)) = k - 1
  <2>1. ASSUME NEW k \in 1 .. n PROVE \E i \in S : Cardinality(Below(S, i)) = k - 1
    <3>1. k - 1 \in 0 .. n - 1
      BY <1>2
    <3>2. QED
      BY <1>2, <3>1, RankFacts DEF Rank
  <2>2. QED
    BY <2>1 DEF Rank
<1>4. Pick(q, S) = [k \in 1 .. n |-> At(q, at(k))]
  BY DEF Pick
<1> HIDE DEF at
<1>5. \A i \in S : At(q, i) \in V
  BY DEF Index, At
<1>6. Pick(q, S) \in Seq(V) /\ Len(Pick(q, S)) = n
  <2>1. n \in Nat
    BY <1>2
  <2>2. Pick(q, S) \in [1 .. n -> V]
    BY <1>3, <1>4, <1>5
  <2>3. QED
    BY <2>1, <2>2, LenProperties
<1>7. ASSUME NEW i \in S
      PROVE  Rank(S, i) + 1 \in 1 .. n /\ Pick(q, S)[Rank(S, i) + 1] = At(q, i)
  <2>1. Rank(S, i) \in 0 .. n - 1
    BY <1>2, RankFacts
  <2>2. Rank(S, i) + 1 \in 1 .. n /\ (Rank(S, i) + 1) - 1 = Rank(S, i)
    BY <1>2, <2>1
  <2>3. at(Rank(S, i) + 1) = i
    <3>1. at(Rank(S, i) + 1) \in S /\ Rank(S, at(Rank(S, i) + 1)) = Rank(S, i)
      BY <1>3, <2>2
    <3>2. QED
      BY <1>2, <3>1, RankFacts
  <2>4. QED
    BY <1>4, <2>2, <2>3
<1>8. \A k \in 1 .. n : \E i \in S : Rank(S, i) = k - 1 /\ Pick(q, S)[k] = At(q, i)
  BY <1>3, <1>4
<1>9. QED
  BY <1>2, <1>6, <1>7, <1>8

(* A pick has the elements at the picked indexes, each once if the list     *)
(* has.                                                                     *)
LEMMA PickElements ==
  ASSUME NEW V, NEW q \in Seq(V), NEW S \in SUBSET Index(q)
  PROVE  /\ Elements(Pick(q, S)) = {At(q, i) : i \in S}
         /\ Distinct(q) => Distinct(Pick(q, S))
<1>1. /\ Len(Pick(q, S)) = Cardinality(S)
      /\ \A i \in S : Rank(S, i) + 1 \in 1 .. Cardinality(S) /\ Pick(q, S)[Rank(S, i) + 1] = At(q, i)
      /\ \A k \in 1 .. Cardinality(S) : \E i \in S : Rank(S, i) = k - 1 /\ Pick(q, S)[k] = At(q, i)
  BY PickFacts
<1>2. Elements(Pick(q, S)) = {At(q, i) : i \in S}
  BY <1>1 DEF Elements
<1>3. ASSUME Distinct(q), NEW k \in 1 .. Cardinality(S), NEW l \in 1 .. Cardinality(S),
             Pick(q, S)[k] = Pick(q, S)[l]
      PROVE  k = l
  <2>1. PICK i \in S : Rank(S, i) = k - 1 /\ Pick(q, S)[k] = At(q, i)
    BY <1>1
  <2>2. PICK j \in S : Rank(S, j) = l - 1 /\ Pick(q, S)[l] = At(q, j)
    BY <1>1
  <2>3. i + 1 \in 1 .. Len(q) /\ j + 1 \in 1 .. Len(q) /\ i \in Int /\ j \in Int
    BY DEF Index
  <2>4. i + 1 = j + 1
    BY <1>3, <2>1, <2>2, <2>3 DEF Distinct, At
  <2>5. k - 1 = l - 1 /\ k \in Int /\ l \in Int
    BY <2>1, <2>2, <2>3, <2>4
  <2>6. QED
    BY <2>5
<1>4. QED
  BY <1>1, <1>2, <1>3 DEF Distinct

-----------------------------------------------------------------------------
(* Permutations, which is what the shuffle queue is.                       *)

Permutes(q, n) == q \in Seq(Nat) /\ Len(q) = n /\ Elements(q) = 0 .. n - 1

(* A permutation of n indexes has length n and each index once.             *)
LEMMA PermutationFacts ==
  ASSUME NEW n \in Nat, NEW q, Permutes(q, n)
  PROVE  /\ Distinct(q)
         /\ \A k \in 1 .. n : q[k] \in 0 .. n - 1
         /\ \A v \in 0 .. n - 1 : \E k \in 1 .. n : q[k] = v
<1>1. Elements(q) = 0 .. n - 1 /\ Elements(q) = {q[k] : k \in 1 .. n} /\ Len(q) = n
  BY DEF Permutes, Elements
<1> DEFINE f == [k \in 1 .. n |-> q[k]]
<1>2. f \in Surjection(1 .. n, 0 .. n - 1)
  <2>1. f \in [1 .. n -> 0 .. n - 1]
    BY <1>1
  <2>2. \A v \in 0 .. n - 1 : \E k \in 1 .. n : f[k] = v
    BY <1>1
  <2>3. QED
    BY <2>1, <2>2 DEF Surjection
<1>3. /\ IsFiniteSet(1 .. n) /\ Cardinality(1 .. n) = n
      /\ IsFiniteSet(0 .. n - 1) /\ Cardinality(0 .. n - 1) = n
  <2>1. 1 \in Int /\ 0 \in Int /\ n \in Int /\ n - 1 \in Int
    OBVIOUS
  <2>2. /\ IsFiniteSet(1 .. n) /\ Cardinality(1 .. n) = IF 1 > n THEN 0 ELSE n - 1 + 1
        /\ IsFiniteSet(0 .. n - 1) /\ Cardinality(0 .. n - 1) = IF 0 > n - 1 THEN 0 ELSE n - 1 - 0 + 1
    BY <2>1, FS_Interval
  <2>3. QED
    BY <2>2
<1>4. f \in Injection(1 .. n, 0 .. n - 1)
  BY <1>2, <1>3, FS_Surjection
<1>5. Distinct(q)
  BY <1>1, <1>4 DEF Injection, IsInjective, Distinct
<1>6. QED
  BY <1>1, <1>5

(* AdjustShuffleRange keeps a permutation when the list gets shorter.      *)
LEMMA ShrunkPermutes ==
  ASSUME NEW m \in Nat, NEW n \in Nat, n < m, NEW q, Permutes(q, m)
  PROVE  Permutes(Pick(q, {i \in Index(q) : At(q, i) < n}), n)
<1> DEFINE T == {i \in Index(q) : At(q, i) < n}
           f == [i \in T |-> At(q, i)]
<1>1. q \in Seq(Nat) /\ Len(q) = m /\ Index(q) = 0 .. m - 1 /\ T \in SUBSET Index(q)
  BY DEF Permutes, Index
<1>2. \A i \in T : i + 1 \in 1 .. m /\ At(q, i) = q[i + 1]
  BY <1>1 DEF At
<1>3. \A i \in T : At(q, i) \in 0 .. n - 1
  <2>1. \A i \in T : At(q, i) \in 0 .. m - 1 /\ At(q, i) < n
    BY <1>2, PermutationFacts
  <2>2. QED
    BY <2>1
<1>4. \A v \in 0 .. n - 1 : \E i \in T : At(q, i) = v
  <2>1. TAKE v \in 0 .. n - 1
  <2>2. PICK k \in 1 .. m : q[k] = v
    <3>1. v \in 0 .. m - 1
      OBVIOUS
    <3>2. QED
      BY <3>1, PermutationFacts
  <2>3. k - 1 \in 0 .. m - 1 /\ (k - 1) + 1 = k /\ v < n
    OBVIOUS
  <2>4. k - 1 \in T /\ At(q, k - 1) = v
    BY <1>1, <2>2, <2>3 DEF At
  <2>5. QED
    BY <2>4
<1>5. \A i, j \in T : At(q, i) = At(q, j) => i = j
  <2>1. TAKE i, j \in T
  <2>2. HAVE At(q, i) = At(q, j)
  <2>3. i + 1 = j + 1
    <3>1. \A k, l \in 1 .. m : q[k] = q[l] => k = l
      BY <1>1, PermutationFacts DEF Distinct
    <3>2. QED
      BY <1>2, <2>2, <3>1
  <2>4. i \in Int /\ j \in Int
    BY <1>1
  <2>5. QED
    BY <2>3, <2>4
<1>6. {At(q, i) : i \in T} = 0 .. n - 1
  BY <1>3, <1>4
<1>7. Cardinality(T) = n
  <2>1. IsFiniteSet(T)
    <3>1. IsFiniteSet(0 .. m - 1)
      BY FS_Interval
    <3>2. QED
      BY <1>1, <3>1, FS_Subset
  <2>2. f \in Surjection(T, 0 .. n - 1) /\ f \in Injection(T, 0 .. n - 1)
    BY <1>3, <1>4, <1>5 DEF Surjection, Injection, IsInjective
  <2>3. Cardinality(0 .. n - 1) = n
    <3>1. Cardinality(0 .. n - 1) = IF 0 > n - 1 THEN 0 ELSE n - 1 - 0 + 1
      BY FS_Interval
    <3>2. QED
      BY <3>1
  <2> HIDE DEF f, T
  <2>4. Cardinality(0 .. n - 1) = Cardinality(T)
    BY <2>1, <2>2, FS_Surjection
  <2>5. QED
    BY <2>3, <2>4
<1> HIDE DEF T
<1>8. Pick(q, T) \in Seq(Nat) /\ Len(Pick(q, T)) = n
  BY <1>1, <1>7, PickFacts
<1>9. Elements(Pick(q, T)) = 0 .. n - 1
  BY <1>1, <1>6, PickElements
<1>10. QED
  BY <1>8, <1>9 DEF Permutes, T

(* A permutation that gets the next index at some place is one.            *)
LEMMA InsertAtPermutes ==
  ASSUME NEW n \in Nat, NEW q, Permutes(q, n), NEW i \in 1 .. n + 1
  PROVE  Permutes(InsertAt(q, i, n), n + 1)
<1>1. q \in Seq(Nat) /\ Len(q) = n /\ Elements(q) = 0 .. n - 1
  BY DEF Permutes
<1>2. <<n>> \in Seq(Nat) /\ Len(<<n>>) = 1 /\ i - 1 \in 0 .. Len(q) /\ (i - 1) + 1 = i
  BY <1>1
<1>3. InsertAt(q, i, n) = InsertedAt(q, i - 1, <<n>>)
  BY <1>2 DEF InsertAt, InsertedAt
<1>4. Elements(<<n>>) = {n}
  BY <1>2 DEF Elements
<1> DEFINE r == InsertedAt(q, i - 1, <<n>>)
<1>5. r \in Seq(Nat) /\ Len(r) = Len(q) + Len(<<n>>)
  BY <1>1, <1>2, InsertedFacts
<1>6. Elements(r) = Elements(q) \cup Elements(<<n>>)
  <2>1. \A new \in Seq(Nat), k \in 0 .. Len(q) :
          Elements(InsertedAt(q, k, new)) = Elements(q) \cup Elements(new)
    BY <1>1, InsertedElements
  <2>2. QED
    BY <1>2, <2>1
<1> HIDE DEF r
<1>7. Elements(r) = 0 .. (n + 1) - 1
  BY <1>1, <1>4, <1>6
<1>8. Len(r) = n + 1
  BY <1>1, <1>2, <1>5
<1>9. Permutes(r, n + 1)
  BY <1>5, <1>7, <1>8 DEF Permutes
<1>10. QED
  BY <1>3, <1>9 DEF r

(* The lists with one index more, at every place.                          *)
More(A) == UNION {{InsertAt(s, i, Len(s)) : i \in 1 .. Len(s) + 1} : s \in A}

(* The growing of Grown is well defined.                                   *)
LEMMA Growing ==
  ASSUME NEW q, NEW V, {q} \in V, \A A \in V : More(A) \in V
  PROVE  \E g : g = [k \in Nat |-> IF k = 0 THEN {q} ELSE More(g[k - 1])]
<1> DEFINE step == [A \in V |-> More(A)]
<1>1. step \in [V -> V]
  OBVIOUS
<1>2. \A A \in V : step[A] = More(A)
  OBVIOUS
<1> HIDE DEF step
<1>3. \E g \in [Nat -> V] : g[0] = {q} /\ \A k \in Nat : g[k + 1] = step[g[k]]
  <2>1. ASSUME NEW base \in V
        PROVE  \E g \in [Nat -> V] : g[0] = base /\ \A k \in Nat : g[k + 1] = step[g[k]]
    BY <1>1, Recursion
  <2>2. QED
    BY <2>1
<1>4. PICK g \in [Nat -> V] : g[0] = {q} /\ \A k \in Nat : g[k + 1] = step[g[k]]
  BY <1>3
<1>5. \A k \in Nat : g[k + 1] = More(g[k])
  BY <1>2, <1>4
<1>6. ASSUME NEW k \in Nat PROVE g[k] = IF k = 0 THEN {q} ELSE More(g[k - 1])
  <2>1. CASE k = 0
    BY <1>4, <2>1
  <2>2. CASE k # 0
    <3>1. k - 1 \in Nat /\ (k - 1) + 1 = k
      BY <2>2
    <3>2. QED
      BY <1>5, <2>2, <3>1
  <2>3. QED
    BY <2>1, <2>2
<1>7. g = [k \in Nat |-> IF k = 0 THEN {q} ELSE More(g[k - 1])]
  BY <1>6
<1>8. QED
  BY <1>7

(* It keeps one, too, however much the list grows, and whatever the random *)
(* places are.                                                             *)
LEMMA GrownPermutes ==
  ASSUME NEW m \in Nat, NEW n \in Nat, m <= n, NEW q, Permutes(q, m)
  PROVE  \A s \in Grown(q, n) : Permutes(s, n)
<1> DEFINE V == SUBSET UNION {{s \in Seq(Nat) : Permutes(s, k)} : k \in Nat}
<1>1. ASSUME NEW k \in Nat, NEW s, Permutes(s, k), NEW i \in 1 .. Len(s) + 1
      PROVE  Permutes(InsertAt(s, i, Len(s)), k + 1)
  <2>1. Len(s) = k
    BY <1>1 DEF Permutes
  <2>2. QED
    BY <1>1, <2>1, InsertAtPermutes
<1>2. \A A \in V : More(A) \in V
  <2>1. TAKE A \in V
  <2>2. ASSUME NEW s \in A, NEW i \in 1 .. Len(s) + 1
        PROVE  \E k \in Nat : Permutes(InsertAt(s, i, Len(s)), k)
    <3>1. PICK k \in Nat : Permutes(s, k)
      OBVIOUS
    <3>2. k + 1 \in Nat /\ Permutes(InsertAt(s, i, Len(s)), k + 1)
      BY <1>1, <3>1
    <3>3. QED
      BY <3>2
  <2>3. \A s, k : Permutes(s, k) => s \in Seq(Nat)
    BY DEF Permutes
  <2>4. QED
    BY <2>2, <2>3 DEF More
<1>3. {q} \in V
  BY DEF Permutes
<1> HIDE DEF V
<1>4. \E g : g = [k \in Nat |-> IF k = 0 THEN {q} ELSE More(g[k - 1])]
  BY <1>2, <1>3, Growing
<1> DEFINE grow == CHOOSE g : g = [k \in Nat |-> IF k = 0 THEN {q} ELSE More(g[k - 1])]
<1>5. grow = [k \in Nat |-> IF k = 0 THEN {q} ELSE More(grow[k - 1])]
  BY <1>4
<1>6. Grown(q, n) = grow[n - Len(q)]
  BY DEF Grown, More
<1> HIDE DEF grow
<1> DEFINE S == {k \in Nat : \A s \in grow[k] : Permutes(s, m + k)}
<1>7. 0 \in S
  BY <1>5
<1>8. ASSUME NEW k \in Nat, k \in S PROVE k + 1 \in S
  <2>1. k + 1 \in Nat /\ k + 1 # 0 /\ (k + 1) - 1 = k /\ m + (k + 1) = (m + k) + 1 /\ m + k \in Nat
    OBVIOUS
  <2>2. grow[k + 1] = More(grow[k])
    BY <1>5, <2>1
  <2>3. ASSUME NEW t \in grow[k + 1] PROVE Permutes(t, m + (k + 1))
    <3>1. PICK s \in grow[k] : \E i \in 1 .. Len(s) + 1 : t = InsertAt(s, i, Len(s))
      BY <2>2 DEF More
    <3>2. Permutes(s, m + k)
      BY <1>8
    <3>3. QED
      BY <1>1, <2>1, <3>1, <3>2
  <2>4. QED
    BY <2>1, <2>3
<1> HIDE DEF S
<1>9. n - Len(q) \in S
  <2>1. n - Len(q) \in Nat
    BY DEF Permutes
  <2>2. QED
    BY <1>7, <1>8, <2>1, SetInduction
<1>10. m + (n - Len(q)) = n
  BY DEF Permutes
<1>11. QED
  BY <1>6, <1>9, <1>10 DEF S

(* What AdjustShuffleRange leaves: a permutation of as many indexes as the *)
(* list has items, or the one it was.                                      *)
LEMMA AdjustPermutes ==
  ASSUME NEW m \in Nat, NEW n \in Nat, NEW q, Permutes(q, m), NEW s \in AdjustShuffleRange(q, n)
  PROVE  Permutes(s, IF n = 0 THEN m ELSE n)
<1>1. Len(q) = m
  BY DEF Permutes
<1>2. CASE n = 0
  BY <1>2 DEF AdjustShuffleRange
<1>3. CASE n # 0 /\ n >= m
  <2>1. s \in Grown(q, n)
    BY <1>1, <1>3 DEF AdjustShuffleRange
  <2>2. QED
    BY <1>3, <2>1, GrownPermutes
<1>4. CASE n # 0 /\ n < m
  <2>1. s = Pick(q, {i \in Index(q) : At(q, i) < n})
    BY <1>1, <1>4 DEF AdjustShuffleRange
  <2>2. QED
    BY <1>4, <2>1, ShrunkPermutes
<1>5. QED
  BY <1>2, <1>3, <1>4

-----------------------------------------------------------------------------
(* The invariant: the shuffle queue permutes the indexes, and each item is *)
(* in the list once; that bounds its length.                               *)

IInv == ShufflePermutes /\ Distinct(items)

(* A list that has no item twice is not longer than the set of items.       *)
LEMMA DistinctIsBounded ==
  ASSUME NEW q \in Seq(Item), Distinct(q)
  PROVE  Len(q) \in 0 .. Cardinality(Item)
<1>1. Len(q) \in Nat /\ Cardinality(Item) \in Nat
  BY ItemAssumption, FS_CardinalityType
<1>2. q \in Injection(1 .. Len(q), Item)
  BY <1>1 DEF Injection, IsInjective, Distinct
<1>3. Cardinality(1 .. Len(q)) = IF 1 > Len(q) THEN 0 ELSE Len(q) - 1 + 1
  <2>1. 1 \in Int /\ Len(q) \in Int
    BY <1>1
  <2>2. QED
    BY <2>1, FS_Interval
<1>4. Cardinality(1 .. Len(q)) <= Cardinality(Item)
  BY <1>2, ItemAssumption, FS_Injection
<1>5. QED
  BY <1>1, <1>3, <1>4

(* The invariant in the terms of this module.                              *)
LEMMA InvariantMeans ==
  ASSUME IInv
  PROVE  /\ TypeOK /\ items \in Seq(Item) /\ Distinct(items) /\ Len(items) \in 0 .. Cardinality(Item)
         /\ Permutes(shuffle, Len(shuffle)) /\ Len(shuffle) \in 0 .. Cardinality(Item)
         /\ items # <<>> => Len(shuffle) = Len(items)
         /\ seqIndex \in -1 .. Cardinality(Item) /\ Cardinality(Item) \in Nat
<1>1. TypeOK /\ items \in Seq(Item) /\ Distinct(items) /\ (items # <<>> => Len(shuffle) = Len(items))
  BY DEF IInv, ShufflePermutes, TypeOK
<1>2. Len(items) \in 0 .. Cardinality(Item) /\ Cardinality(Item) \in Nat
  BY <1>1, DistinctIsBounded, ItemAssumption, FS_CardinalityType
<1> DEFINE S == 0 .. Cardinality(Item) - 1
<1>3. shuffle \in Seq(S) /\ Range(shuffle) = 0 .. Len(shuffle) - 1
  BY DEF IInv, ShufflePermutes, TypeOK, Index
<1>4. shuffle \in Seq(Nat) /\ Elements(shuffle) = 0 .. Len(shuffle) - 1 /\ Len(shuffle) \in Nat
  <2>1. S \subseteq Nat
    OBVIOUS
  <2> HIDE DEF S
  <2>2. Range(shuffle) = Elements(shuffle)
    BY <1>3, RangeIsElements
  <2>3. shuffle \in Seq(Nat) /\ Len(shuffle) \in Nat
    <3>1. Len(shuffle) \in Nat /\ \A k \in 1 .. Len(shuffle) : shuffle[k] \in Nat
      <4>1. shuffle \in Seq(S)
        BY <1>3
      <4>2. Len(shuffle) \in Nat /\ \A k \in 1 .. Len(shuffle) : shuffle[k] \in S
        BY <4>1
      <4>3. QED
        BY <4>2, <2>1
    <3>2. shuffle = [k \in 1 .. Len(shuffle) |-> shuffle[k]]
      BY <1>3
    <3>3. QED
      BY <3>1, <3>2
  <2>4. QED
    BY <1>3, <2>2, <2>3
<1>5. Len(shuffle) <= Cardinality(Item)
  <2>1. CASE Len(shuffle) = 0
    BY <1>2, <2>1
  <2>2. CASE Len(shuffle) > 0
    <3>1. Len(shuffle) - 1 \in Elements(shuffle)
      BY <1>4, <2>2
    <3>2. PICK k \in 1 .. Len(shuffle) : shuffle[k] = Len(shuffle) - 1
      BY <3>1 DEF Elements
    <3>3. shuffle[k] \in 0 .. Cardinality(Item) - 1
      <4> HIDE DEF S
      <4>1. shuffle[k] \in S
        BY <1>3
      <4>2. QED
        BY <4>1 DEF S
    <3>4. QED
      BY <1>2, <1>4, <3>2, <3>3
  <2>3. QED
    BY <1>4, <2>1, <2>2
<1>6. seqIndex \in -1 .. Cardinality(Item)
  BY <1>1 DEF TypeOK
<1>7. QED
  BY <1>1, <1>2, <1>4, <1>5, <1>6 DEF Permutes

(* And the other way round: what is enough for it.                         *)
Fits ==
  \E n \in 0 .. Cardinality(Item) :
    /\ items \in Seq(Item) /\ Distinct(items) /\ Permutes(shuffle, n) /\ (items # <<>> => n = Len(items))
    /\ seqIndex \in -1 .. Cardinality(Item) /\ mode \in Straight \cup Shuffled /\ aborted \in BOOLEAN

(* And back: a state of this form satisfies the invariant.                  *)
LEMMA InvariantFrom == Fits => IInv
<1> SUFFICES ASSUME NEW n \in 0 .. Cardinality(Item),
                    items \in Seq(Item), Distinct(items), Permutes(shuffle, n), items # <<>> => n = Len(items),
                    seqIndex \in -1 .. Cardinality(Item), mode \in Straight \cup Shuffled, aborted \in BOOLEAN
             PROVE  IInv
  BY DEF Fits
<1>1. shuffle \in Seq(Nat) /\ Len(shuffle) = n /\ Elements(shuffle) = 0 .. n - 1
  BY DEF Permutes
<1>2. Cardinality(Item) \in Nat
  BY ItemAssumption, FS_CardinalityType
<1>3. shuffle \in Seq(0 .. Cardinality(Item) - 1)
  <2>1. \A k \in 1 .. n : shuffle[k] \in 0 .. Cardinality(Item) - 1
    <3>1. \A k \in 1 .. n : shuffle[k] \in 0 .. n - 1
      BY <1>1 DEF Elements
    <3>2. QED
      BY <1>2, <3>1
  <2> DEFINE S == 0 .. Cardinality(Item) - 1
  <2> HIDE DEF S
  <2>2. \A k \in 1 .. n : shuffle[k] \in S
    BY <2>1 DEF S
  <2>3. shuffle = [k \in 1 .. n |-> shuffle[k]] /\ n \in Nat
    BY <1>1
  <2>4. shuffle \in Seq(S)
    BY <2>2, <2>3
  <2>5. QED
    BY <2>4 DEF S
<1>4. Range(shuffle) = Index(shuffle)
  BY <1>1, RangeIsElements DEF Index
<1>5. QED
  BY <1>1, <1>3, <1>4 DEF IInv, ShufflePermutes, TypeOK

(* The lists that one call brings hold new items, each once.               *)
LEMMA NewItemsFacts ==
  ASSUME NEW new \in NewItems
  PROVE  new \in Seq(Item) /\ Distinct(new) /\ Elements(new) \cap Range(items) = {}
<1>1. PICK S \in SUBSET (Item \ Range(items)) : new \in SetToSeqs(S)
  BY DEF NewItems
<1>2. Cardinality(S) \in Nat
  <2>1. IsFiniteSet(S)
    BY ItemAssumption, FS_Subset
  <2>2. QED
    BY <2>1, FS_CardinalityType
<1>3. new \in [1 .. Cardinality(S) -> S] /\ \A k, l \in 1 .. Cardinality(S) : k # l => new[k] # new[l]
  BY <1>1 DEF SetToSeqs
<1>4. new \in Seq(S) /\ Len(new) = Cardinality(S)
  BY <1>2, <1>3, LenProperties
<1>5. new \in Seq(Item)
  BY <1>2, <1>3
<1>6. QED
  BY <1>3, <1>4, <1>5 DEF Distinct, Elements

(* Appending is inserting at the end.                                      *)
LEMMA AppendIsInsert ==
  ASSUME NEW S, NEW q \in Seq(S), NEW new \in Seq(S)
  PROVE  q \o new = InsertedAt(q, Len(q), new)
<1> DEFINE a == q \o new
           r == InsertedAt(q, Len(q), new)
<1>1. /\ a \in Seq(S) /\ Len(a) = Len(q) + Len(new)
      /\ \A k \in 1 .. Len(q) + Len(new) : a[k] = IF k <= Len(q) THEN q[k] ELSE new[k - Len(q)]
  BY ConcatProperties
<1>2. Len(q) \in 0 .. Len(q) /\ Len(q) \in Nat /\ Len(new) \in Nat
  OBVIOUS
<1>3. /\ r \in Seq(S) /\ Len(r) = Len(q) + Len(new)
      /\ \A k \in 1 .. Len(q) + Len(new) :
           r[k] = IF k <= Len(q) THEN q[k] ELSE IF k <= Len(q) + Len(new) THEN new[k - Len(q)] ELSE q[k - Len(new)]
  BY <1>2, InsertedFacts
<1> HIDE DEF a, r
<1>4. \A k \in 1 .. Len(a) : a[k] = r[k]
  <2>1. TAKE k \in 1 .. Len(a)
  <2>2. k \in 1 .. Len(q) + Len(new) /\ k <= Len(q) + Len(new)
    BY <1>1, <1>2
  <2>3. CASE k <= Len(q)
    BY <1>1, <1>3, <2>2, <2>3
  <2>4. CASE ~(k <= Len(q))
    BY <1>1, <1>3, <2>2, <2>4
  <2>5. QED
    BY <2>3, <2>4
<1>5. a = r
  BY <1>1, <1>3, <1>4, SeqEqual
<1>6. QED
  BY <1>5 DEF a, r

(* Reversing keeps the items.                                               *)
LEMMA ReverseFacts ==
  ASSUME NEW S, NEW q \in Seq(S)
  PROVE  /\ Reverse(q) \in Seq(S) /\ Len(Reverse(q)) = Len(q)
         /\ Distinct(q) => Distinct(Reverse(q))
<1>1. Len(q) \in Nat /\ Reverse(q) = [k \in 1 .. Len(q) |-> q[(Len(q) - k) + 1]]
  BY DEF Reverse
<1>2. \A k \in 1 .. Len(q) : (Len(q) - k) + 1 \in 1 .. Len(q)
  BY <1>1
<1>3. Reverse(q) \in [1 .. Len(q) -> S]
  BY <1>1, <1>2
<1>4. Reverse(q) \in Seq(S) /\ Len(Reverse(q)) = Len(q)
  BY <1>1, <1>3, LenProperties
<1>5. ASSUME Distinct(q), NEW k \in 1 .. Len(q), NEW l \in 1 .. Len(q), Reverse(q)[k] = Reverse(q)[l] PROVE k = l
  <2>1. q[(Len(q) - k) + 1] = q[(Len(q) - l) + 1]
    BY <1>1, <1>5
  <2>2. (Len(q) - k) + 1 = (Len(q) - l) + 1
    BY <1>2, <1>5, <2>1 DEF Distinct
  <2>3. QED
    BY <1>1, <2>2
<1>6. QED
  BY <1>4, <1>5 DEF Distinct

(* Of a set of indexes and its complement.                                 *)
LEMMA SplitFacts ==
  ASSUME NEW V, NEW q \in Seq(V), NEW old \in SUBSET Index(q)
  PROVE  /\ Index(q) \ old \in SUBSET Index(q)
         /\ Cardinality(old) \in Nat /\ Cardinality(Index(q) \ old) = Len(q) - Cardinality(old)
         /\ IsFiniteSet(Index(q)) /\ Cardinality(Index(q)) = Len(q)
<1>1. IsFiniteSet(Index(q)) /\ Cardinality(Index(q)) = Len(q)
  <2>1. Len(q) \in Nat /\ 0 \in Int /\ Len(q) - 1 \in Int
    OBVIOUS
  <2>2. IsFiniteSet(0 .. Len(q) - 1) /\ Cardinality(0 .. Len(q) - 1) = IF 0 > Len(q) - 1 THEN 0 ELSE Len(q) - 1 - 0 + 1
    BY <2>1, FS_Interval
  <2>3. QED
    BY <2>1, <2>2 DEF Index
<1>2. Index(q) \cap old = old
  OBVIOUS
<1>3. Cardinality(Index(q) \ old) = Len(q) - Cardinality(old)
  BY <1>1, <1>2, FS_Difference
<1>4. QED
  BY <1>1, <1>3, PickFacts

(* The place where the moved items go, counted without them.               *)
LEMMA StayRank ==
  ASSUME items \in Seq(Item), NEW old \in SUBSET Index(items), NEW newPos \in 0 .. Len(items)
  PROVE  RealNewPos(old, newPos) = Rank(Index(items) \ old, newPos)
<1> DEFINE stay == Index(items) \ old
<1>1. Below(Index(items), newPos) = 0 .. newPos - 1
  BY DEF Below, Index
<1>2. Cardinality(0 .. newPos - 1) = newPos /\ IsFiniteSet(0 .. newPos - 1)
  <2>1. 0 \in Int /\ newPos - 1 \in Int
    OBVIOUS
  <2>2. /\ Cardinality(0 .. newPos - 1) = IF 0 > newPos - 1 THEN 0 ELSE newPos - 1 - 0 + 1
        /\ IsFiniteSet(0 .. newPos - 1)
    BY <2>1, FS_Interval
  <2>3. QED
    BY <2>2
<1>3. /\ Below(stay, newPos) = Below(Index(items), newPos) \ Below(old, newPos)
      /\ Below(Index(items), newPos) \cap Below(old, newPos) = Below(old, newPos)
  BY DEF Below
<1>4. Cardinality(Below(stay, newPos)) = newPos - Cardinality(Below(old, newPos))
  <2> DEFINE B == Below(Index(items), newPos)
  <2>1. IsFiniteSet(B) /\ Cardinality(B) = newPos
    BY <1>1, <1>2
  <2> HIDE DEF B
  <2>2. Cardinality(B \ Below(old, newPos)) = Cardinality(B) - Cardinality(B \cap Below(old, newPos))
    BY <2>1, FS_Difference
  <2>3. QED
    BY <1>3, <2>1, <2>2 DEF B
<1>5. QED
  BY <1>4 DEF RealNewPos, Rank

(* What Move makes of the list: all of it, each once.                      *)
LEMMA MovedFacts ==
  ASSUME items \in Seq(Item), Distinct(items), NEW old \in SUBSET Index(items), NEW newPos \in 0 .. Len(items)
  PROVE  /\ Moved(old, newPos) \in Seq(Item) /\ Len(Moved(old, newPos)) = Len(items)
         /\ Distinct(Moved(old, newPos))
         /\ RealNewPos(old, newPos) = Rank(Index(items) \ old, newPos)
         /\ RealNewPos(old, newPos) \in 0 .. Cardinality(Index(items) \ old)
<1> DEFINE stay == Index(items) \ old
           rest == Pick(items, stay)
           new == Pick(items, old)
<1>1. /\ stay \in SUBSET Index(items) /\ Cardinality(old) \in Nat /\ newPos \in Int
      /\ Cardinality(stay) = Len(items) - Cardinality(old)
  BY SplitFacts
<1>2. /\ rest \in Seq(Item) /\ Len(rest) = Cardinality(stay)
      /\ new \in Seq(Item) /\ Len(new) = Cardinality(old)
  BY <1>1, PickFacts
<1>3. Distinct(rest) /\ Distinct(new)
  BY <1>1, PickElements
<1>4. Elements(rest) \cap Elements(new) = {}
  <2>1. Elements(rest) = {At(items, i) : i \in stay} /\ Elements(new) = {At(items, i) : i \in old}
    BY <1>1, PickElements
  <2>2. \A i, j \in Index(items) : At(items, i) = At(items, j) => i = j
    <3>1. \A i \in Index(items) : i + 1 \in 1 .. Len(items) /\ i \in Int
      BY DEF Index
    <3>2. \A i, j \in Index(items) : At(items, i) = At(items, j) => i + 1 = j + 1
      BY <3>1 DEF At, Distinct
    <3>3. QED
      BY <3>1, <3>2
  <2>3. QED
    BY <2>1, <2>2
<1>5. RealNewPos(old, newPos) = Rank(stay, newPos)
  BY StayRank
<1>6. Rank(stay, newPos) \in 0 .. Cardinality(stay)
  <2>1. stay \subseteq Int /\ IsFiniteSet(stay)
    BY <1>1, PickFacts
  <2>2. Rank(stay, newPos) \in Nat /\ Cardinality(stay) \in Nat /\ Rank(stay, newPos) <= Cardinality(stay)
    BY <1>1, <2>1, BelowFacts
  <2>3. QED
    BY <2>2
<1>7. Moved(old, newPos) = InsertedAt(rest, Rank(stay, newPos), new)
  BY <1>5 DEF Moved
<1> HIDE DEF stay, rest, new
<1> DEFINE r == Rank(stay, newPos)
<1>8. r \in 0 .. Len(rest)
  BY <1>2, <1>6
<1> HIDE DEF r
<1>9. InsertedAt(rest, r, new) \in Seq(Item) /\ Len(InsertedAt(rest, r, new)) = Len(rest) + Len(new)
  BY <1>2, <1>8, InsertedFacts
<1>10. Distinct(InsertedAt(rest, r, new))
  BY <1>2, <1>3, <1>4, <1>8, InsertedElements
<1>11. Len(rest) + Len(new) = Len(items)
  BY <1>1, <1>2
<1>12. QED
  BY <1>5, <1>6, <1>7, <1>9, <1>10, <1>11 DEF r, stay

(* A pick is that of the smaller indexes, and then that of the larger.     *)
LEMMA SplitPick ==
  ASSUME NEW V, NEW q \in Seq(V), NEW S \in SUBSET Index(q), NEW n \in Int
  PROVE  /\ SubSeq(Pick(q, S), 1, Rank(S, n)) = Pick(q, Below(S, n))
         /\ SubSeq(Pick(q, S), Rank(S, n) + 1, Len(Pick(q, S))) = Pick(q, S \ Below(S, n))
<1> DEFINE L == Below(S, n)
           U == S \ L
           r == Rank(S, n)
           p == Pick(q, S)
<1>1. S \subseteq Int /\ IsFiniteSet(S) /\ L \in SUBSET S /\ U \in SUBSET S /\ L \cap U = {} /\ L \cup U = S
  BY PickFacts DEF Below
<1>2. /\ IsFiniteSet(L) /\ IsFiniteSet(U) /\ r \in Nat /\ r <= Cardinality(S) /\ r = Cardinality(L)
      /\ Cardinality(U) = Cardinality(S) - r /\ Cardinality(S) \in Nat
  BY <1>1, BelowFacts DEF Rank
<1>3. \A i \in L : i \in Int /\ i < n
  BY <1>1 DEF Below
<1>4. \A i \in U : i \in Int /\ ~(i < n)
  BY <1>1 DEF Below
<1> HIDE DEF L, U
<1>5. ASSUME NEW i \in L PROVE Rank(L, i) = Rank(S, i)
  <2>1. \A j \in U : ~(j < i)
    BY <1>3, <1>4
  <2>2. Below(L, i) = Below(S, i)
    BY <1>1, <2>1 DEF Below
  <2>3. QED
    BY <2>2 DEF Rank
<1>6. ASSUME NEW i \in U PROVE Rank(S, i) = r + Rank(U, i)
  <2>1. \A j \in L : j < i
    BY <1>3, <1>4
  <2>2. Below(S, i) = L \cup Below(U, i) /\ L \cap Below(U, i) = {}
    BY <1>1, <2>1 DEF Below
  <2>3. IsFiniteSet(Below(U, i)) /\ Cardinality(Below(U, i)) \in Nat
    BY <1>1, <1>2, <1>4, BelowFacts DEF Rank
  <2>4. Cardinality(L \cup Below(U, i)) = Cardinality(L) + Cardinality(Below(U, i)) - Cardinality(L \cap Below(U, i))
    BY <1>2, <2>3, FS_Union
  <2>5. Cardinality(L \cap Below(U, i)) = 0
    BY <2>2, FS_EmptySet
  <2>6. Rank(U, i) = Cardinality(Below(U, i)) /\ Rank(S, i) = Cardinality(L \cup Below(U, i))
    BY <2>2 DEF Rank
  <2> HIDE DEF r
  <2>7. QED
    BY <1>2, <2>3, <2>4, <2>5, <2>6
<1>7. /\ p \in Seq(V) /\ Len(p) = Cardinality(S)
      /\ \A i \in S : Rank(S, i) + 1 \in 1 .. Cardinality(S) /\ p[Rank(S, i) + 1] = At(q, i)
  BY PickFacts
<1>8. /\ Pick(q, L) \in Seq(V) /\ Len(Pick(q, L)) = r
      /\ \A k \in 1 .. r : \E i \in L : Rank(L, i) = k - 1 /\ Pick(q, L)[k] = At(q, i)
  <2>1. L \in SUBSET Index(q)
    BY <1>1
  <2>2. QED
    BY <1>2, <2>1, PickFacts
<1>9. /\ Pick(q, U) \in Seq(V) /\ Len(Pick(q, U)) = Cardinality(S) - r
      /\ \A k \in 1 .. Cardinality(S) - r : \E i \in U : Rank(U, i) = k - 1 /\ Pick(q, U)[k] = At(q, i)
  <2>1. U \in SUBSET Index(q)
    BY <1>1
  <2>2. QED
    BY <1>2, <2>1, PickFacts
<1>10. /\ SubSeq(p, 1, r) \in Seq(V) /\ Len(SubSeq(p, 1, r)) = r
       /\ \A k \in 1 .. r : SubSeq(p, 1, r)[k] = p[k]
  <2>1. \A k \in 1 .. r : p[k] \in V
    BY <1>2, <1>7
  <2>2. QED
    BY <1>2, <1>7, <2>1, SubSeqProperties
<1> DEFINE m == Cardinality(S)
<1>11. /\ SubSeq(p, r + 1, m) \in Seq(V) /\ Len(SubSeq(p, r + 1, m)) = m - r
       /\ \A k \in 1 .. m - r : SubSeq(p, r + 1, m)[k] = p[r + k]
  <2>1. \A k \in r + 1 .. m : p[k] \in V
    BY <1>2, <1>7
  <2>2. QED
    BY <1>2, <1>7, <2>1, SubSeqProperties
<1> HIDE DEF p, r, m
<1>12. ASSUME NEW k \in 1 .. r PROVE p[k] = Pick(q, L)[k]
  <2>1. PICK i \in L : Rank(L, i) = k - 1 /\ Pick(q, L)[k] = At(q, i)
    BY <1>8
  <2>2. i \in S /\ Rank(S, i) + 1 = k
    BY <1>1, <1>2, <1>5, <2>1
  <2>3. QED
    BY <1>7, <2>1, <2>2
<1>13. ASSUME NEW k \in 1 .. m - r PROVE p[r + k] = Pick(q, U)[k]
  <2>1. PICK i \in U : Rank(U, i) = k - 1 /\ Pick(q, U)[k] = At(q, i)
    BY <1>9 DEF m
  <2>2. i \in S /\ Rank(S, i) + 1 = r + k
    BY <1>1, <1>2, <1>6, <2>1
  <2>3. QED
    BY <1>7, <2>1, <2>2
<1>14. SubSeq(p, 1, r) = Pick(q, L)
  <2>1. \A k \in 1 .. r : SubSeq(p, 1, r)[k] = Pick(q, L)[k]
    BY <1>10, <1>12
  <2>2. QED
    BY <1>8, <1>10, <2>1, SeqEqual
<1>15. SubSeq(p, r + 1, m) = Pick(q, U)
  <2>1. \A k \in 1 .. m - r : SubSeq(p, r + 1, m)[k] = Pick(q, U)[k]
    BY <1>11, <1>13
  <2>2. Len(Pick(q, U)) = m - r
    BY <1>9 DEF m
  <2>3. QED
    BY <1>9, <1>11, <2>1, <2>2, SeqEqual
<1>16. QED
  BY <1>7, <1>14, <1>15 DEF p, r, m, L, U

(* What Move promises is what it does, of any list.                        *)
LEMMA MovePromise == items \in Seq(Item) => MovePlaces
<1> SUFFICES ASSUME items \in Seq(Item), NEW old \in SUBSET Index(items), NEW newPos \in 0 .. Len(items)
             PROVE  LET stay == Index(items) \ old IN
                    Moved(old, newPos) =
                      Pick(items, Below(stay, newPos)) \o Pick(items, old)
                                                      \o Pick(items, stay \ Below(stay, newPos))
  BY DEF MovePlaces
<1> DEFINE stay == Index(items) \ old
<1>1. stay \in SUBSET Index(items) /\ newPos \in Int
  OBVIOUS
<1>2. RealNewPos(old, newPos) = Rank(stay, newPos)
  BY StayRank
<1>3. /\ SubSeq(Pick(items, stay), 1, Rank(stay, newPos)) = Pick(items, Below(stay, newPos))
      /\ SubSeq(Pick(items, stay), Rank(stay, newPos) + 1, Len(Pick(items, stay)))
           = Pick(items, stay \ Below(stay, newPos))
  BY <1>1, SplitPick
<1>4. QED
  BY <1>2, <1>3 DEF Moved, InsertedAt

(* The item at an index is at MovedIndex after the move.                   *)
LEMMA MovedIndexFacts ==
  ASSUME items \in Seq(Item), Distinct(items), NEW old \in SUBSET Index(items), NEW newPos \in 0 .. Len(items),
         NEW i \in Index(items)
  PROVE  /\ MovedIndex(i, old, newPos) \in Index(items)
         /\ At(Moved(old, newPos), MovedIndex(i, old, newPos)) = At(items, i)
<1> DEFINE stay == Index(items) \ old
           rest == Pick(items, stay)
           new == Pick(items, old)
           real == RealNewPos(old, newPos)
           r == Moved(old, newPos)
           rank == Rank(old, i)
           m == Cardinality(old)
           n == Len(items)
<1>1. /\ stay \in SUBSET Index(items) /\ m \in Nat /\ n \in Nat
      /\ Cardinality(stay) = n - m /\ i \in 0 .. n /\ i \in 0 .. n - 1
  BY SplitFacts DEF Index
<1>2. /\ rest \in Seq(Item) /\ Len(rest) = n - m /\ new \in Seq(Item) /\ Len(new) = m
      /\ i \in stay => Rank(stay, i) + 1 \in 1 .. n - m /\ rest[Rank(stay, i) + 1] = At(items, i)
      /\ i \in old => rank + 1 \in 1 .. m /\ new[rank + 1] = At(items, i)
      /\ IsFiniteSet(old) /\ old \subseteq Int
  BY <1>1, PickFacts
<1>3. real \in 0 .. n - m
  BY <1>1, MovedFacts
<1>4. r = InsertedAt(rest, real, new)
  BY DEF Moved
<1>5. rank \in Nat /\ Rank(stay, i) = i - rank
  <2>1. rank \in Nat
    <3>1. i \in Int
      BY <1>1
    <3>2. QED
      BY <1>2, <3>1, BelowFacts
  <2>2. Rank(stay, i) = i - rank
    BY <1>1, StayRank DEF RealNewPos, Rank
  <2>3. QED
    BY <2>1, <2>2
<1>6. MovedIndex(i, old, newPos) = IF i \in old THEN real + rank
                                   ELSE IF real <= i - rank THEN i - rank + m ELSE i - rank
  BY DEF MovedIndex, Rank
<1> HIDE DEF rest, new, real, rank, m, n, r
<1>7. \A k \in 1 .. (n - m) + m :
        r[k] = IF k <= real THEN rest[k] ELSE IF k <= real + m THEN new[k - real] ELSE rest[k - m]
  <2>1. real \in 0 .. Len(rest)
    BY <1>2, <1>3
  <2>2. \A k \in 1 .. Len(rest) + Len(new) :
          InsertedAt(rest, real, new)[k] =
            IF k <= real THEN rest[k] ELSE IF k <= real + Len(new) THEN new[k - real] ELSE rest[k - Len(new)]
    BY <1>2, <2>1, InsertedFacts
  <2>3. QED
    BY <1>2, <1>4, <2>2
<1>8. Index(items) = 0 .. n - 1
  BY DEF Index, n
<1>9. CASE i \in old
  <2>1. /\ real + rank \in 0 .. n - 1 /\ real + rank + 1 \in 1 .. (n - m) + m
        /\ ~(real + rank + 1 <= real) /\ real + rank + 1 <= real + m /\ (real + rank + 1) - real = rank + 1
    BY <1>1, <1>2, <1>3, <1>5, <1>9
  <2>2. r[real + rank + 1] = At(items, i)
    BY <1>2, <1>7, <1>9, <2>1
  <2>3. QED
    BY <1>6, <1>8, <1>9, <2>1, <2>2 DEF At, r
<1>10. CASE i \notin old /\ real <= i - rank
  <2>1. i \in stay /\ i - rank + 1 \in 1 .. n - m /\ rest[i - rank + 1] = At(items, i)
    BY <1>2, <1>5, <1>10
  <2>2. /\ i - rank + m \in 0 .. n - 1 /\ i - rank + m + 1 \in 1 .. (n - m) + m
        /\ ~(i - rank + m + 1 <= real) /\ ~(i - rank + m + 1 <= real + m) /\ (i - rank + m + 1) - m = i - rank + 1
    BY <1>1, <1>3, <1>5, <1>10, <2>1
  <2>3. r[i - rank + m + 1] = At(items, i)
    BY <1>7, <2>1, <2>2
  <2>4. QED
    BY <1>6, <1>8, <1>10, <2>2, <2>3 DEF At, r
<1>11. CASE i \notin old /\ ~(real <= i - rank)
  <2>1. i \in stay /\ i - rank + 1 \in 1 .. n - m /\ rest[i - rank + 1] = At(items, i)
    BY <1>2, <1>5, <1>11
  <2>2. i - rank \in 0 .. n - 1 /\ i - rank + 1 \in 1 .. (n - m) + m /\ i - rank + 1 <= real
    BY <1>1, <1>3, <1>5, <1>11, <2>1
  <2>3. r[i - rank + 1] = At(items, i)
    BY <1>7, <2>1, <2>2
  <2>4. QED
    BY <1>6, <1>8, <1>11, <2>2, <2>3 DEF At, r
<1>12. QED
  BY <1>9, <1>10, <1>11

-----------------------------------------------------------------------------
(* The invariant is one.                                                   *)

(* std::find returns an index, or the length of the queue.                 *)
LEMMA FindFacts ==
  ASSUME NEW n \in Nat, NEW q, Permutes(q, n), NEW v
  PROVE  /\ Find(q, v) \in 0 .. n
         /\ v \in 0 .. n - 1 => Find(q, v) \in 0 .. n - 1 /\ At(q, Find(q, v)) = v
<1>1. q \in Seq(Nat) /\ Len(q) = n /\ Range(q) = 0 .. n - 1
  BY RangeIsElements DEF Permutes
<1>2. CASE v \in Range(q)
  <2>1. PICK k \in 1 .. n : q[k] = v
    BY <1>1, <1>2, PermutationFacts
  <2>2. k - 1 \in Index(q) /\ At(q, k - 1) = v
    BY <1>1, <2>1 DEF Index, At
  <2>3. Find(q, v) \in Index(q) /\ At(q, Find(q, v)) = v
    BY <1>2, <2>2 DEF Find
  <2>4. QED
    BY <1>1, <2>3 DEF Index
<1>3. CASE v \notin Range(q)
  BY <1>1, <1>3 DEF Find
<1>4. QED
  BY <1>2, <1>3

(* The empty playlist satisfies the invariant.                              *)
LEMMA InitIInv == Init => IInv
<1> SUFFICES ASSUME Init PROVE IInv
  OBVIOUS
<1>1. items \in Seq(Item) /\ Distinct(items) /\ Permutes(shuffle, 0)
  BY DEF Init, Distinct, Permutes, Elements
<1>2. 0 \in 0 .. Cardinality(Item) /\ -1 \in -1 .. Cardinality(Item)
  BY ItemAssumption, FS_CardinalityType
<1>3. QED
  BY <1>1, <1>2, InvariantFrom DEF Init, Straight, Fits

(* Changing the list keeps it, if the new list has each item once.         *)
LEMMA ListStep ==
  ASSUME IInv, items' \in Seq(Item), Distinct(items'), mode' = mode, aborted' = aborted,
         seqIndex' = AdjustSeqPosition(seqIndex, items'),
         \/ shuffle' \in AdjustShuffleRange(shuffle, Len(items'))
         \/ shuffle' \in IF items' = <<>> THEN {shuffle} ELSE Grown(<<>>, Len(items'))
  PROVE  IInv'
<1> DEFINE m == Len(shuffle)
           n == Len(items')
           k == IF n = 0 THEN m ELSE n
<1>1. /\ TypeOK /\ m \in 0 .. Cardinality(Item) /\ Permutes(shuffle, m)
      /\ seqIndex \in -1 .. Cardinality(Item) /\ Cardinality(Item) \in Nat
  BY InvariantMeans
<1>2. n \in 0 .. Cardinality(Item) /\ (n = 0 <=> items' = <<>>)
  BY DistinctIsBounded
<1>3. Permutes(shuffle', k)
  <2>1. CASE shuffle' \in AdjustShuffleRange(shuffle, n)
    BY <1>1, <1>2, <2>1, AdjustPermutes
  <2>2. CASE shuffle' \in IF items' = <<>> THEN {shuffle} ELSE Grown(<<>>, n)
    <3>1. CASE n = 0
      BY <1>1, <1>2, <2>2, <3>1
    <3>2. CASE n # 0
      <4>1. Permutes(<<>>, 0)
        BY DEF Permutes, Elements
      <4>2. QED
        BY <1>2, <2>2, <3>2, <4>1, GrownPermutes
    <3>3. QED
      BY <3>1, <3>2
  <2>3. QED
    BY <2>1, <2>2
<1>4. seqIndex' \in -1 .. Cardinality(Item)
  BY <1>1 DEF AdjustSeqPosition
<1>5. k \in 0 .. Cardinality(Item) /\ (items' # <<>> => k = Len(items'))
  BY <1>1, <1>2
<1>6. mode' \in Straight \cup Shuffled /\ aborted' \in BOOLEAN
  BY <1>1 DEF TypeOK
<1> HIDE DEF k
<1>7. (Fits => IInv)'
  BY InvariantFrom, PTL
<1>8. QED
  BY <1>3, <1>4, <1>5, <1>6, <1>7 DEF Fits

(* Changing the position keeps it.                                         *)
LEMMA PositionStep ==
  ASSUME IInv, items' = items, shuffle' = shuffle, aborted' = aborted,
         mode' \in Straight \cup Shuffled, seqIndex' \in -1 .. Cardinality(Item)
  PROVE  IInv'
BY DEF IInv, ShufflePermutes, TypeOK

(* The moves of the position.                                              *)
LEMMA SeqIndexFacts ==
  ASSUME IInv, NEW index \in Index(items)
  PROVE  /\ Len(shuffle) = Len(items) /\ Len(items) \in Nat
         /\ Find(shuffle, index) \in Index(items) /\ At(shuffle, Find(shuffle, index)) = index
         /\ At(shuffle, index) \in Index(items)
         /\ Index(items) \subseteq -1 .. Cardinality(Item)
<1>1. /\ items \in Seq(Item) /\ Len(items) \in 0 .. Cardinality(Item) /\ Cardinality(Item) \in Nat
      /\ Permutes(shuffle, Len(shuffle)) /\ (items # <<>> => Len(shuffle) = Len(items))
  BY InvariantMeans
<1>2. items # <<>> /\ Index(items) = 0 .. Len(items) - 1
  BY <1>1 DEF Index
<1>3. Permutes(shuffle, Len(items)) /\ Len(items) \in Nat
  BY <1>1, <1>2
<1>4. index + 1 \in 1 .. Len(items)
  BY <1>2, <1>3
<1>5. QED
  BY <1>1, <1>2, <1>3, <1>4, FindFacts, PermutationFacts DEF At

(* Every call of the class keeps it.                                        *)
LEMMA Step == IInv /\ [Next]_vars => IInv'
<1> SUFFICES ASSUME IInv, [Next]_vars PROVE IInv'
  OBVIOUS
<1>1. /\ TypeOK /\ items \in Seq(Item) /\ Distinct(items) /\ Len(items) \in 0 .. Cardinality(Item)
      /\ Permutes(shuffle, Len(shuffle)) /\ Len(shuffle) \in 0 .. Cardinality(Item)
      /\ seqIndex \in -1 .. Cardinality(Item) /\ Cardinality(Item) \in Nat
      /\ mode \in Straight \cup Shuffled /\ aborted \in BOOLEAN
  BY InvariantMeans DEF TypeOK
<1>2. Range(items) = Elements(items)
  BY <1>1, RangeIsElements
<1>3. ASSUME NEW new \in NewItems, Assign(new) PROVE IInv'
  <2>1. items' \in Seq(Item) /\ Distinct(items')
    BY <1>3, NewItemsFacts DEF Assign
  <2>2. QED
    BY <1>3, <2>1, ListStep DEF Assign
<1>4. ASSUME NEW new \in NewItems, NEW index \in 0 .. Len(items), SetItems(InsertedAt(items, index, new)) PROVE IInv'
  <2>1. new \in Seq(Item) /\ Distinct(new) /\ Elements(items) \cap Elements(new) = {}
    BY <1>2, NewItemsFacts
  <2>2. InsertedAt(items, index, new) \in Seq(Item)
    BY <1>1, <2>1, InsertedFacts
  <2>3. Distinct(InsertedAt(items, index, new))
    BY <1>1, <2>1, InsertedElements
  <2>4. QED
    BY <1>4, <2>2, <2>3, ListStep DEF SetItems
<1>5. ASSUME NEW new \in NewItems, Append_(new) PROVE IInv'
  <2>1. items \o new = InsertedAt(items, Len(items), new)
    BY <1>1, NewItemsFacts, AppendIsInsert
  <2>2. Len(items) \in 0 .. Len(items)
    BY <1>1
  <2>3. QED
    BY <1>4, <1>5, <2>1, <2>2 DEF Append_
<1>6. ASSUME NEW old \in SUBSET Index(items), Remove_(old) PROVE IInv'
  <2>1. Index(items) \ old \in SUBSET Index(items)
    OBVIOUS
  <2>2. Pick(items, Index(items) \ old) \in Seq(Item) /\ Distinct(Pick(items, Index(items) \ old))
    BY <1>1, <2>1, PickFacts, PickElements
  <2>3. QED
    BY <1>6, <2>2, ListStep DEF Remove_, SetItems
<1>7. ASSUME NEW old \in SUBSET Index(items), NEW newPos \in 0 .. Len(items), Move(old, newPos) PROVE IInv'
  <2> DEFINE rest == Pick(items, Index(items) \ old)
             position == AdjustSeqPosition(seqIndex, rest)
  <2>1. items' \in Seq(Item) /\ Len(items') = Len(items) /\ Distinct(items')
    BY <1>1, <1>7, MovedFacts DEF Move
  <2>2. position \in -1 .. Cardinality(Item)
    BY <1>1 DEF AdjustSeqPosition
  <2>3. Len(rest) \in Nat
    <3>1. Index(items) \ old \in SUBSET Index(items)
      OBVIOUS
    <3>2. rest \in Seq(Item)
      BY <1>1, <3>1, PickFacts
    <3>3. QED
      BY <3>2
  <2>4. PICK shrunk \in AdjustShuffleRange(shuffle, Len(rest)) : shuffle' \in AdjustShuffleRange(shrunk, Len(items))
    BY <1>7 DEF Move
  <2>5. PICK j \in Nat : Permutes(shrunk, j)
    BY <1>1, <2>3, AdjustPermutes
  <2>6. Permutes(shuffle', Len(items)) /\ Len(items) # 0
    <3>1. Len(items) >= 2 /\ Len(items) \in Nat /\ Len(items) # 0
      BY <1>1, <1>7 DEF Move
    <3>2. QED
      BY <2>4, <2>5, <3>1, AdjustPermutes
  <2> HIDE DEF position, rest
  <2>7. PICK current : LET index == MovedIndex(current, old, newPos) IN
          IF index \in Index(items')
            THEN /\ seqIndex' = IF mode \in Shuffled THEN Find(shuffle', index) ELSE index
                 /\ UNCHANGED aborted
            ELSE seqIndex' = position /\ aborted' = TRUE
    BY <1>7 DEF Move, position, rest
  <2>8. seqIndex' \in -1 .. Cardinality(Item) /\ aborted' \in BOOLEAN
    <3>1. Index(items') \subseteq -1 .. Cardinality(Item)
      BY <1>1, <2>1 DEF Index
    <3>2. \A v : Find(shuffle', v) \in -1 .. Cardinality(Item)
      <4>1. \A v : Find(shuffle', v) \in 0 .. Len(items)
        BY <1>1, <2>6, FindFacts
      <4>2. QED
        BY <1>1, <4>1
    <3>3. QED
      BY <1>1, <2>2, <2>7, <3>1, <3>2
  <2>9. mode' = mode
    BY <1>7 DEF Move
  <2>10. (Fits => IInv)'
    BY InvariantFrom, PTL
  <2>11. QED
    BY <1>1, <2>1, <2>6, <2>8, <2>9, <2>10 DEF Fits
<1>8. CASE Clear
  <2>1. /\ items' = <<>> /\ shuffle' = <<>> /\ seqIndex' = -1 /\ mode' = mode /\ aborted' = aborted
    BY <1>8 DEF Clear
  <2>2. Permutes(<<>>, 0) /\ Distinct(<<>>) /\ <<>> \in Seq(Item)
    BY DEF Permutes, Elements, Distinct
  <2>3. (Fits => IInv)'
    BY InvariantFrom, PTL
  <2>4. QED
    BY <1>1, <2>1, <2>2, <2>3 DEF Fits
<1>9. CASE Reverse_
  <2>1. items' \in Seq(Item) /\ Len(items') = Len(items) /\ Distinct(items')
    BY <1>1, <1>9, ReverseFacts DEF Reverse_
  <2>2. (items' # <<>>) = (items # <<>>)
    BY <1>1, <2>1
  <2>3. QED
    BY <1>9, <2>1, <2>2 DEF Reverse_, IInv, ShufflePermutes, TypeOK
<1>10. ASSUME NEW new \in Straight \cup Shuffled, SetMode(new) PROVE IInv'
  <2>1. seqIndex' \in -1 .. Cardinality(Item)
    <3>1. CASE seqIndex \in Index(items)
      BY <1>1, <1>10, <3>1, SeqIndexFacts DEF SetMode
    <3>2. CASE seqIndex \notin Index(items)
      BY <1>1, <1>10, <3>2 DEF SetMode
    <3>3. QED
      BY <3>1, <3>2
  <2>2. QED
    BY <1>10, <2>1, PositionStep DEF SetMode
<1>11. ASSUME NEW offset \in {-1, 0, 1}, NextItem(offset) PROVE IInv'
  <2>1. seqIndex' \in Index(items) \cup {-1}
    BY <1>11 DEF NextItem, OffsetToIndex
  <2>2. seqIndex' \in -1 .. Cardinality(Item)
    <3>1. CASE seqIndex' \in Index(items)
      BY <3>1, SeqIndexFacts
    <3>2. CASE seqIndex' = -1
      BY <1>1, <3>2
    <3>3. QED
      BY <2>1, <3>1, <3>2
  <2>3. QED
    BY <1>1, <1>11, <2>2, PositionStep DEF NextItem
<1>12. ASSUME NEW index \in Index(items), JumpTo(index) PROVE IInv'
  <2>1. seqIndex' \in -1 .. Cardinality(Item)
    BY <1>12, SeqIndexFacts DEF JumpTo
  <2>2. QED
    BY <1>1, <1>12, <2>1, PositionStep DEF JumpTo
<1>13. CASE UNCHANGED vars
  BY <1>13 DEF vars, IInv, ShufflePermutes, TypeOK
<1>14. QED
  BY <1>3, <1>4, <1>5, <1>6, <1>7, <1>8, <1>9, <1>10, <1>11, <1>12, <1>13 DEF Next, Insert

(* Spec => []IInv: the shuffle queue is a permutation of the indexes of     *)
(* items, and each item is there once, after any sequence of calls.         *)
THEOREM Invariance == Spec => []IInv
BY InitIInv, Step, PTL DEF Spec

(* The shuffle queue is a permutation of the indexes of the items, through *)
(* all growing at random places and all shrinking: AdjustShuffleRange.     *)
THEOREM ShuffleIsPermutation == Spec => []ShufflePermutes
<1>1. IInv => ShufflePermutes
  BY DEF IInv
<1>2. QED
  BY <1>1, Invariance, PTL

(* Move puts the moved items before the one at newPos, whatever the list,  *)
(* the indexes and the place are, and keeps the order of all others.       *)
THEOREM MoveKeepsItsPromise == Spec => []MovePlaces
<1>1. IInv => MovePlaces
  BY InvariantMeans, MovePromise
<1>2. QED
  BY <1>1, Invariance, PTL

-----------------------------------------------------------------------------
(* What stays current.                                                     *)

(* Changing the mode leaves the current item where it is.                   *)
LEMMA ModeKeepsCurrent ==
  ASSUME IInv, InRange, ModeStep
  PROVE  CurrentKept
<1>1. PICK new \in Straight \cup Shuffled : SetMode(new)
  BY DEF ModeStep
<1>2. /\ aborted' = FALSE /\ items' = items /\ shuffle' = shuffle /\ mode' = new
      /\ seqIndex' = IF mode \in Straight /\ new \in Shuffled THEN Find(shuffle, seqIndex)
                     ELSE IF mode \in Shuffled /\ new \in Straight THEN At(shuffle, seqIndex)
                     ELSE seqIndex
  BY <1>1 DEF SetMode, InRange, IInv, ShufflePermutes, TypeOK
<1>3. mode \in Straight \cup Shuffled /\ Straight \cap Shuffled = {}
  BY DEF IInv, ShufflePermutes, TypeOK, Straight, Shuffled
<1>4. /\ Find(shuffle, seqIndex) \in Index(items) /\ At(shuffle, Find(shuffle, seqIndex)) = seqIndex
      /\ At(shuffle, seqIndex) \in Index(items) /\ seqIndex \in Index(items)
  BY SeqIndexFacts DEF InRange
<1>5. seqIndex' \in Index(items)
  BY <1>2, <1>4
<1>6. (IF mode' \in Shuffled THEN At(shuffle, seqIndex') ELSE seqIndex') =
      (IF mode \in Shuffled THEN At(shuffle, seqIndex) ELSE seqIndex)
  BY <1>2, <1>3, <1>4
<1>7. QED
  BY <1>2, <1>5, <1>6 DEF CurrentKept, InRange, CurrentItem, ItemIndex

(* Moving items takes the current index along with its item.                *)
LEMMA MoveKeepsCurrent ==
  ASSUME IInv, InRange, MoveStep, mode \in Straight
  PROVE  CurrentKept
<1>1. PICK old \in SUBSET Index(items), newPos \in 0 .. Len(items) : old # Index(items) /\ Move(old, newPos)
  BY DEF MoveStep
<1>2. items \in Seq(Item) /\ Distinct(items) /\ seqIndex \in Index(items) /\ aborted \in BOOLEAN
  BY InvariantMeans DEF InRange, TypeOK
<1>3. mode \notin Shuffled
  BY DEF Straight, Shuffled
<1> DEFINE rest == Pick(items, Index(items) \ old)
           index == MovedIndex(seqIndex, old, newPos)
<1>4. rest # <<>>
  <2>1. Index(items) \ old \in SUBSET Index(items) /\ Index(items) \ old # {}
    BY <1>1
  <2>2. Len(rest) = Cardinality(Index(items) \ old) /\ IsFiniteSet(Index(items) \ old)
    BY <1>2, <2>1, PickFacts
  <2>3. Len(rest) # 0
    BY <2>1, <2>2, FS_EmptySet
  <2>4. QED
    BY <2>3
<1>5. AdjustSeqPosition(seqIndex, rest) = seqIndex
  BY <1>4 DEF AdjustSeqPosition
<1>6. items' = Moved(old, newPos) /\ Len(items') = Len(items)
  BY <1>1, <1>2, MovedFacts DEF Move
<1>7. index \in Index(items) /\ At(items', index) = At(items, seqIndex)
  BY <1>2, <1>6, MovedIndexFacts
<1>8. Index(items') = Index(items)
  BY <1>6 DEF Index
<1> HIDE DEF rest, index
<1>9. seqIndex' = index /\ aborted' = FALSE /\ mode' = mode
  <2>1. ~aborted /\ mode' = mode
    BY <1>1 DEF Move
  <2>2. PICK current \in {seqIndex} :
          IF MovedIndex(current, old, newPos) \in Index(items')
            THEN seqIndex' = MovedIndex(current, old, newPos) /\ UNCHANGED aborted
            ELSE TRUE
    BY <1>1, <1>3, <1>5 DEF Move, rest
  <2>3. QED
    BY <1>2, <1>7, <1>8, <2>1, <2>2 DEF index
<1>10. QED
  BY <1>3, <1>7, <1>8, <1>9 DEF CurrentKept, InRange, CurrentItem, ItemIndex

(* A change of the mode keeps the current item current, and so does a Move *)
(* in the modes that follow the order of the items.                        *)
THEOREM CurrentItemStays == Spec => CurrentStays
<1>1. IInv /\ [Next]_vars =>
        [InRange => /\ ModeStep => CurrentKept
                    /\ MoveStep /\ mode \in Straight => CurrentKept]_vars
  BY ModeKeepsCurrent, MoveKeepsCurrent
<1>2. QED
  BY <1>1, Invariance, PTL DEF Spec, CurrentStays

-----------------------------------------------------------------------------
(* The server.                                                             *)

ServerInv == ServerTypeOK /\ IInv

(* The item at the current index is one.                                   *)
LEMMA CurrentIsItem == IInv /\ InRange => CurrentItem \in Item
<1> SUFFICES ASSUME IInv, InRange PROVE CurrentItem \in Item
  OBVIOUS
<1>1. items \in Seq(Item) /\ Len(items) \in Nat /\ seqIndex \in Index(items)
  BY InvariantMeans DEF InRange
<1>2. At(shuffle, seqIndex) \in Index(items)
  BY <1>1, SeqIndexFacts
<1>3. \A i \in Index(items) : At(items, i) \in Item
  BY <1>1 DEF Index, At
<1>4. QED
  BY <1>1, <1>2, <1>3 DEF CurrentItem, ItemIndex

(* The mode that follows one is one.                                       *)
LEMMA NextModeFacts ==
  ASSUME NEW m \in 1 .. 5
  PROVE  ModeOrder[(m % 5) + 1] \in Straight \cup Shuffled
<1>1. (m % 5) + 1 \in 1 .. 5
  OBVIOUS
<1>2. (m % 5) + 1 = 1 \/ (m % 5) + 1 = 2 \/ (m % 5) + 1 = 3 \/ (m % 5) + 1 = 4 \/ (m % 5) + 1 = 5
  BY <1>1
<1>3. QED
  BY <1>2 DEF ModeOrder, Straight, Shuffled

-----------------------------------------------------------------------------
(* The steps of the server, in terms of the list.                          *)

(* A step of the server is one of its list, or leaves it alone, or reads   *)
(* outside it.                                                             *)
LEMMA ListIsFollowed ==
  ASSUME ServerInv, [ServerNext]_serverVars
  PROVE  \/ [Next]_vars
         \/ aborted' = TRUE /\ UNCHANGED <<mode, items, seqIndex, shuffle>>
<1>1. CASE \E index \in Index(items) : PlayAt(index)
  BY <1>1 DEF PlayAt, Next
<1>2. CASE \E index \in Index(items) : PlaylistRemove(index)
  BY <1>2 DEF PlaylistRemove, Next
<1>3. ASSUME NEW offset \in {-1, 1}, Advance(offset) PROVE [Next]_vars
  BY <1>3 DEF Advance, Next
<1>4. ASSUME NEW direct \in {-1, 1}, PlayNext(direct)
      PROVE  [Next]_vars \/ (aborted' = TRUE /\ UNCHANGED <<mode, items, seqIndex, shuffle>>)
  BY <1>3, <1>4 DEF PlayNext, list, vars
<1>5. ASSUME NEW direct \in {-1, 1}, NEW index \in 0 .. Len(items), PlaylistMove(index, direct)
      PROVE  [Next]_vars \/ (aborted' = TRUE /\ UNCHANGED <<mode, items, seqIndex, shuffle>>)
  <2> DEFINE newPos == IF direct > 0 THEN index + 2 ELSE index - 1
  <2>1. newPos \in 0 .. Len(items)
    BY <1>5 DEF PlaylistMove
  <2>2. CASE index \in Index(items) /\ Move({index}, newPos)
    <3>1. {index} \in SUBSET Index(items) /\ {index} # {}
      BY <2>2
    <3> HIDE DEF newPos
    <3>2. QED
      BY <2>1, <2>2, <3>1 DEF Next
  <2>3. QED
    BY <1>5, <2>2 DEF PlaylistMove
<1>6. CASE \E new \in NewItems : PlaylistAppend(new)
  BY <1>6 DEF PlaylistAppend, Next
<1>7. CASE PausePlayer \/ PlayerSeek
  BY <1>7 DEF PausePlayer, PlayerSeek, list, vars
<1>8. CASE NextPlayMode
  BY <1>8, NextModeFacts DEF NextPlayMode, Next
<1>9. CASE PlaylistClear
  BY <1>9 DEF PlaylistClear, Next
<1>10. CASE Restart \/ PlayOut
  BY <1>10 DEF Restart, PlayOut, list, vars
<1>11. CASE SlotFinished
  BY <1>3, <1>11 DEF SlotFinished, list, vars
<1>12. CASE UNCHANGED serverVars
  BY <1>12 DEF serverVars, list, vars
<1>13. QED
  BY <1>1, <1>2, <1>4, <1>5, <1>6, <1>7, <1>8, <1>9, <1>10, <1>11, <1>12 DEF ServerNext, Client

(* So the invariant of the list is kept.                                   *)
LEMMA ListInvariant ==
  ASSUME ServerInv, [ServerNext]_serverVars
  PROVE  IInv'
<1>1. CASE [Next]_vars
  BY <1>1, Step DEF ServerInv
<1>2. CASE aborted' = TRUE /\ UNCHANGED <<mode, items, seqIndex, shuffle>>
  BY <1>2 DEF ServerInv, IInv, ShufflePermutes, TypeOK, Index
<1>3. QED
  BY <1>1, <1>2, ListIsFollowed

(* Moving on, or to an index, leads to an item of the list.                *)
LEMMA ChosenIsInRange ==
  ASSUME IInv, IInv', NEW offset, NEW index, NextItem(offset) \/ JumpTo(index)
  PROVE  InRange' /\ CurrentItem' \in Item /\ items' = items
<1>1. ASSUME NextItem(offset) PROVE InRange' /\ items' = items
  <2>1. OffsetToIndex(offset) \in Index(items)
    <3> DEFINE k == OffsetToIndex(offset)
    <3>1. k >= 0 /\ k \in Index(items) \cup {-1}
      BY <1>1 DEF NextItem, HasNext, OffsetToIndex
    <3> HIDE DEF k
    <3>2. k \in Index(items)
      BY <3>1
    <3>3. QED
      BY <3>2 DEF k
  <2>2. QED
    BY <1>1, <2>1 DEF NextItem, InRange
<1>2. ASSUME JumpTo(index) PROVE InRange' /\ items' = items
  BY <1>2, SeqIndexFacts DEF JumpTo, InRange
<1>3. (IInv /\ InRange => CurrentItem \in Item)'
  BY CurrentIsItem, PTL
<1>4. QED
  BY <1>1, <1>2, <1>3

(* What is not the list.                                                   *)
RestOK ==
  /\ Sound!TypeOK
  /\ used \in BOOLEAN /\ opened \in Item \cup {NoItem}
  /\ requests \in 0 .. Requests
  /\ status # "Closed" \/ finishers > 0 => used

(* A step that plays the current item keeps the rest, and the current item *)
(* is then the open one.                                                   *)
LEMMA PlayingStep ==
  ASSUME ServerInv, requests' \in 0 .. Requests, PlayItem(CurrentItem'),
         InRange', CurrentItem' \in Item, used' = TRUE, finishers' \in Nat
  PROVE  RestOK' /\ Agrees'
BY DEF PlayItem, Sound!TypeOK, Agrees, ServerInv, ServerTypeOK, RestOK

(* So does moving on.                                                      *)
LEMMA AdvanceStep ==
  ASSUME ServerInv, IInv', NEW offset, Advance(offset), used,
         requests' \in 0 .. Requests, finishers' \in Nat
  PROVE  RestOK' /\ Agrees'
<1>1. InRange' /\ CurrentItem' \in Item
  BY ChosenIsInRange DEF Advance, ServerInv
<1>2. QED
  BY <1>1, PlayingStep DEF Advance

(* Every step keeps the rest.                                              *)
LEMMA RestStep ==
  ASSUME ServerInv, [ServerNext]_serverVars
  PROVE  RestOK'
<1>1. RestOK /\ IInv /\ IInv' /\ aborted \in BOOLEAN
  BY ListInvariant DEF ServerInv, ServerTypeOK, RestOK, IInv, ShufflePermutes, TypeOK
<1>2. Request => requests' \in 0 .. Requests
  BY <1>1, RequestsAssumption DEF Request, RestOK
<1>3. finishers \in Nat /\ (finishers > 0 => finishers - 1 \in Nat)
  BY <1>1 DEF RestOK, Sound!TypeOK
<1>4. ASSUME NEW index \in Index(items), PlayAt(index) PROVE RestOK'
  <2>1. InRange' /\ CurrentItem' \in Item
    BY <1>1, <1>4, ChosenIsInRange DEF PlayAt
  <2>2. QED
    BY <1>2, <1>3, <1>4, <2>1, PlayingStep DEF PlayAt
<1>5. ASSUME NEW direct \in {-1, 1}, PlayNext(direct) PROVE RestOK'
  <2>1. CASE used /\ Advance(direct)
    BY <1>1, <1>2, <1>3, <1>5, <2>1, AdvanceStep DEF PlayNext
  <2>2. CASE ~(used /\ Advance(direct))
    BY <1>1, <1>2, <1>5, <2>2 DEF PlayNext, context, RestOK, Sound!TypeOK
  <2>3. QED
    BY <2>1, <2>2
<1>6. CASE Client /\ UNCHANGED <<sound, context>>
  <2>1. requests' \in 0 .. Requests
    BY <1>2, <1>6 DEF Client, PlayAt, PlaylistRemove, PlayNext, PlaylistMove, PlaylistAppend, PausePlayer, PlayerSeek,
       NextPlayMode, PlaylistClear, Restart, Request
  <2>2. QED
    BY <1>1, <1>6, <2>1 DEF sound, context, RestOK, Sound!TypeOK
<1>7. CASE PausePlayer \/ PlayerSeek
  BY <1>1, <1>2, <1>7 DEF PausePlayer, PlayerSeek, Sound!Pause, Sound!Resume, Sound!Seek, sound, context, RestOK,
     Sound!TypeOK
<1>8. CASE Restart
  <2>1. status' = "Closed" /\ finishers' = 0 /\ opened' = NoItem /\ used' = used /\ requests' \in 0 .. Requests
    BY <1>2, <1>8 DEF Restart
  <2>2. left' \in BOOLEAN /\ used \in BOOLEAN
    BY <1>1, <1>8 DEF Restart, RestOK
  <2>3. Sound!TypeOK'
    BY <2>1, <2>2 DEF Sound!TypeOK
  <2>4. QED
    BY <2>1, <2>2, <2>3 DEF RestOK
<1>9. CASE PlayOut
  <2>1. /\ status' = status /\ status = "Playing" /\ finishers' = finishers + 1
        /\ used' = used /\ opened' = opened /\ requests' = requests
    BY <1>9 DEF PlayOut, Sound!PlayOut, context
  <2>2. left' \in BOOLEAN
    BY <1>9 DEF PlayOut, Sound!PlayOut
  <2>3. Sound!TypeOK'
    BY <1>1, <2>1, <2>2 DEF RestOK, Sound!TypeOK
  <2>4. QED
    BY <1>1, <2>1, <2>3 DEF RestOK
<1>10. CASE SlotFinished
  <2>1. used /\ finishers' \in Nat /\ requests' \in 0 .. Requests
    BY <1>1, <1>3, <1>10 DEF SlotFinished, RestOK
  <2>2. CASE Advance(1)
    BY <1>1, <2>1, <2>2, AdvanceStep
  <2>3. CASE UNCHANGED <<list, status, left, context>>
    BY <1>1, <2>1, <2>3 DEF context, RestOK, Sound!TypeOK
  <2>4. QED
    BY <1>10, <2>2, <2>3 DEF SlotFinished
<1>11. CASE UNCHANGED serverVars
  BY <1>1, <1>11 DEF serverVars, sound, context, RestOK, Sound!TypeOK
<1>12. CASE Client
  BY <1>4, <1>5, <1>6, <1>7, <1>8, <1>12 DEF Client, PlaylistRemove, PlaylistMove, PlaylistAppend, NextPlayMode,
     PlaylistClear
<1>13. QED
  BY <1>9, <1>10, <1>11, <1>12 DEF ServerNext

-----------------------------------------------------------------------------
(* The invariant of the server is one.                                     *)
THEOREM ServerInvariance == ServerSpec => []ServerInv
<1>1. ServerInit => ServerInv
  <2> SUFFICES ASSUME ServerInit PROVE ServerInv
    OBVIOUS
  <2>1. IInv
    BY InitIInv DEF ServerInit
  <2>2. RestOK
    <3>1. status = "Closed" /\ finishers = 0 /\ opened = NoItem /\ requests \in 0 .. Requests
      BY RequestsAssumption DEF ServerInit, Sound!Init
    <3>2. left \in BOOLEAN /\ used \in BOOLEAN
      BY DEF ServerInit, Sound!Init
    <3>3. Sound!TypeOK
      BY <3>1, <3>2 DEF Sound!TypeOK
    <3>4. QED
      BY <3>1, <3>2, <3>3 DEF RestOK
  <2>3. QED
    BY <2>1, <2>2 DEF ServerInv, ServerTypeOK, RestOK, IInv, ShufflePermutes
<1>2. ServerInv /\ [ServerNext]_serverVars => ServerInv'
  <2> SUFFICES ASSUME ServerInv, [ServerNext]_serverVars PROVE ServerInv'
    OBVIOUS
  <2>1. IInv' /\ RestOK'
    BY ListInvariant, RestStep
  <2>2. QED
    BY <2>1 DEF ServerInv, ServerTypeOK, RestOK, IInv, ShufflePermutes
<1>3. QED
  BY <1>1, <1>2, PTL DEF ServerSpec

-----------------------------------------------------------------------------
(* What plays is what is said to play.                                     *)

(* Appending leaves the current item current in a mode that follows the    *)
(* order of the items.                                                     *)
LEMMA AppendShifts ==
  ASSUME ServerInv, Agrees, NEW new \in NewItems, PlaylistAppend(new)
  PROVE  Agrees' \/ Shifts
<1>1. items \in Seq(Item) /\ new \in Seq(Item) /\ mode \in Straight \cup Shuffled
  BY InvariantMeans, NewItemsFacts DEF ServerInv, ServerTypeOK, TypeOK
<1>2. /\ items' = items \o new /\ new # <<>> /\ mode' = mode /\ status' = status /\ opened' = opened
      /\ seqIndex' = AdjustSeqPosition(seqIndex, items')
  BY DEF PlaylistAppend, Append_, SetItems, sound, context
<1>3. /\ Len(items') = Len(items) + Len(new) /\ Len(items) \in Nat /\ Len(new) \in Nat /\ Len(new) > 0
      /\ \A k \in 1 .. Len(items) : items'[k] = items[k]
  BY <1>1, <1>2, ConcatProperties
<1>4. CASE mode \in Shuffled
  <2>1. items' # items
    BY <1>3
  <2>2. QED
    BY <1>4, <2>1 DEF Shifts
<1>5. CASE mode \notin Shuffled /\ status # "Closed"
  <2>1. seqIndex \in Index(items) /\ CurrentItem = opened
    BY <1>5 DEF Agrees, InRange
  <2>2. seqIndex' = seqIndex
    BY <1>2, <1>3 DEF AdjustSeqPosition
  <2>3. seqIndex \in Index(items') /\ At(items', seqIndex) = At(items, seqIndex)
    <3>1. seqIndex \in 0 .. Len(items) - 1 /\ seqIndex + 1 \in 1 .. Len(items)
      BY <1>3, <2>1 DEF Index
    <3>2. seqIndex \in 0 .. Len(items') - 1
      BY <1>3, <3>1
    <3>3. QED
      BY <1>3, <3>1, <3>2 DEF Index, At
  <2>4. QED
    BY <1>2, <1>5, <2>1, <2>2, <2>3 DEF Agrees, InRange, CurrentItem, ItemIndex
<1>6. CASE status = "Closed"
  BY <1>2, <1>6 DEF Agrees
<1>7. QED
  BY <1>4, <1>5, <1>6

(* Removing an item makes the list shorter.                                *)
LEMMA RemoveShifts ==
  ASSUME ServerInv, NEW index, PlaylistRemove(index)
  PROVE  Shifts
<1> DEFINE stay == Index(items) \ {index}
<1>1. items \in Seq(Item) /\ index \in Index(items) /\ items' = Pick(items, stay)
  BY InvariantMeans DEF ServerInv, PlaylistRemove, Remove_, SetItems
<1>2. {index} \in SUBSET Index(items) /\ 0 \in 0 .. Len(items)
  BY <1>1
<1>3. stay \in SUBSET Index(items) /\ Cardinality(stay) = Len(items) - Cardinality({index})
  BY <1>1, <1>2, SplitFacts
<1>4. Cardinality({index}) = 1
  BY FS_Singleton
<1>5. Len(items') = Cardinality(stay)
  BY <1>1, <1>3, PickFacts
<1>6. Len(items) \in Nat
  BY <1>1
<1>7. QED
  BY <1>3, <1>4, <1>5, <1>6 DEF Shifts

(* Moving an item by one place leaves the current item current in a mode   *)
(* that follows the order of the items, and changes the list in any mode.  *)
LEMMA MoveShifts ==
  ASSUME ServerInv, Agrees, NEW direct \in {-1, 1}, NEW index \in 0 .. Len(items), PlaylistMove(index, direct)
  PROVE  Agrees' \/ aborted' \/ Shifts
<1> DEFINE newPos == IF direct > 0 THEN index + 2 ELSE index - 1
<1>1. SUFFICES ASSUME index \in Index(items), Move({index}, newPos) PROVE Agrees' \/ Shifts
  BY DEF PlaylistMove
<1>2. /\ newPos \in 0 .. Len(items) /\ Len(items) >= 2 /\ status' = status /\ opened' = opened
      /\ index \in Index(items) /\ Move({index}, newPos)
  BY <1>1 DEF PlaylistMove, sound, context
<1>3. newPos = index + 2 \/ newPos = index - 1
  OBVIOUS
<1> HIDE DEF newPos
<1>4. /\ items \in Seq(Item) /\ Distinct(items) /\ Len(items) \in Nat /\ mode \in Straight \cup Shuffled
      /\ index \in Int /\ index \in 0 .. Len(items) - 1
  BY <1>1, InvariantMeans DEF ServerInv, ServerTypeOK, TypeOK, Index
<1>5. {index} \in SUBSET Index(items)
  BY <1>1
<1>6. CASE mode \in Straight /\ status # "Closed"
  <2>1. {index} # Index(items)
    BY <1>2, <1>4 DEF Index
  <2>2. MoveStep
    BY <1>2, <1>5, <2>1 DEF MoveStep
  <2>3. InRange /\ CurrentItem = opened
    BY <1>6 DEF Agrees
  <2>4. CurrentKept
    BY <1>6, <2>2, <2>3, MoveKeepsCurrent DEF ServerInv
  <2>5. QED
    BY <1>2, <2>3, <2>4 DEF CurrentKept, Agrees
<1>7. CASE mode \in Shuffled
  <2> DEFINE new == MovedIndex(index, {index}, newPos)
  <2>1. new \in Index(items) /\ At(Moved({index}, newPos), new) = At(items, index)
    BY <1>2, <1>4, <1>5, MovedIndexFacts
  <2>2. new # index
    <3>1. Below({index}, index) = {} /\ Cardinality({}) = 0 /\ Cardinality({index}) = 1
      <4>1. Below({index}, index) = {}
        BY <1>4 DEF Below
      <4>2. Cardinality({}) = 0
        BY FS_EmptySet
      <4>3. Cardinality({index}) = 1
        BY FS_Singleton
      <4>4. QED
        BY <4>1, <4>2, <4>3
    <3>2. new = newPos - Cardinality(Below({index}, newPos)) + 0
      BY <3>1 DEF MovedIndex, RealNewPos
    <3> HIDE DEF new
    <3>3. CASE newPos = index + 2
      <4>1. Below({index}, newPos) = {index}
        BY <1>4, <3>3 DEF Below
      <4>2. Cardinality(Below({index}, newPos)) = 1
        BY <3>1, <4>1
      <4>3. new = index + 2 - 1 + 0
        BY <3>2, <3>3, <4>2
      <4>4. QED
        BY <1>4, <4>3
    <3>4. CASE newPos = index - 1
      <4>1. Below({index}, newPos) = {}
        BY <1>4, <3>4 DEF Below
      <4>2. Cardinality(Below({index}, newPos)) = 0
        BY <3>1, <4>1
      <4>3. new = index - 1 - 0 + 0
        BY <3>2, <3>4, <4>2
      <4>4. QED
        BY <1>4, <4>3
    <3>5. QED
      BY <1>3, <3>3, <3>4
  <2> HIDE DEF new
  <2>3. At(items, new) # At(items, index)
    <3>1. new + 1 \in 1 .. Len(items) /\ index + 1 \in 1 .. Len(items) /\ new + 1 # index + 1
      BY <1>4, <2>1, <2>2 DEF Index
    <3>2. QED
      BY <1>4, <3>1 DEF Distinct, At
  <2>4. items' = Moved({index}, newPos)
    BY <1>2 DEF Move
  <2>5. QED
    BY <1>7, <2>1, <2>3, <2>4 DEF Shifts
<1>8. CASE status = "Closed"
  BY <1>2, <1>8 DEF Agrees
<1>9. QED
  BY <1>4, <1>6, <1>7, <1>8

(* No step takes what is said to play from what plays, but those that      *)
(* shift the list.                                                         *)
LEMMA AgreesStep ==
  ASSUME ServerInv, Agrees, [ServerNext]_serverVars
  PROVE  Agrees' \/ aborted' \/ Shifts
<1>1. RestOK /\ IInv /\ IInv' /\ finishers \in Nat /\ (finishers > 0 => finishers - 1 \in Nat)
  BY ListInvariant DEF ServerInv, ServerTypeOK, RestOK, Sound!TypeOK
<1>2. RestOK'
  BY RestStep
<1>3. requests' \in 0 .. Requests /\ finishers' \in Nat
  BY <1>2 DEF RestOK, Sound!TypeOK
<1>4. ASSUME NEW index \in Index(items), PlayAt(index) PROVE Agrees'
  <2>1. InRange' /\ CurrentItem' \in Item
    BY <1>1, <1>4, ChosenIsInRange DEF PlayAt
  <2>2. QED
    BY <1>3, <1>4, <2>1, PlayingStep DEF PlayAt
<1>5. ASSUME UNCHANGED <<list, status, opened>> PROVE Agrees'
  BY <1>5 DEF list, Agrees, InRange, CurrentItem, ItemIndex
<1>6. ASSUME NEW direct \in {-1, 1}, PlayNext(direct) PROVE Agrees' \/ aborted'
  <2>1. CASE used /\ Advance(direct)
    BY <1>1, <1>3, <2>1, AdvanceStep
  <2>2. CASE ~(used /\ Advance(direct))
    BY <1>5, <1>6, <2>2 DEF PlayNext, context
  <2>3. QED
    BY <2>1, <2>2
<1>7. CASE PausePlayer \/ PlayerSeek
  <2>1. UNCHANGED list /\ opened' = opened /\ (status' # "Closed" => status # "Closed")
    BY <1>7 DEF PausePlayer, PlayerSeek, Sound!Pause, Sound!Resume, Sound!Seek, sound, context
  <2>2. QED
    BY <2>1 DEF list, Agrees, InRange, CurrentItem, ItemIndex
<1>8. CASE NextPlayMode
  <2>1. ModeStep /\ status' = status /\ opened' = opened
    BY <1>8, NextModeFacts DEF NextPlayMode, ModeStep, sound, context
  <2>2. QED
    BY <1>1, <2>1, ModeKeepsCurrent DEF Agrees, CurrentKept
<1>9. CASE PlaylistClear
  <2>1. items' = <<>> /\ status' = status
    BY <1>9 DEF PlaylistClear, Clear, sound
  <2>2. CASE Len(items) > 0
    BY <2>1, <2>2 DEF Shifts
  <2>3. CASE ~(Len(items) > 0)
    <3>1. items \in Seq(Item)
      BY <1>1, InvariantMeans
    <3>2. Index(items) = {}
      BY <2>3, <3>1 DEF Index
    <3>3. QED
      BY <2>1, <3>2 DEF Agrees, InRange
  <2>4. QED
    BY <2>2, <2>3
<1>10. CASE Restart
  BY <1>10 DEF Restart, Agrees
<1>11. CASE PlayOut
  BY <1>5, <1>11 DEF PlayOut, Sound!PlayOut, context
<1>12. CASE SlotFinished
  <2>1. CASE Advance(1)
    <3>1. used
      BY <1>1, <1>12 DEF SlotFinished, RestOK
    <3>2. QED
      BY <1>1, <1>3, <2>1, <3>1, AdvanceStep
  <2>2. QED
    BY <1>5, <1>12, <2>1 DEF SlotFinished, context
<1>13. CASE UNCHANGED serverVars
  BY <1>5, <1>13 DEF serverVars, sound, context
<1>14. CASE Client
  BY <1>4, <1>6, <1>7, <1>8, <1>9, <1>10, <1>14, AppendShifts, RemoveShifts, MoveShifts DEF Client
<1>15. QED
  BY <1>11, <1>12, <1>13, <1>14 DEF ServerNext

(* What the clients are told plays is what plays, and every variable stays *)
(* in its domain: with any number of requests, of finishes in between, and *)
(* of files that cannot be opened.                                         *)
THEOREM PlayingIsTold == ServerSpec => StaysCurrent
<1>1. ServerInv => ServerTypeOK
  BY DEF ServerInv
<1>2. ServerInv /\ [ServerNext]_serverVars => [Agrees => Agrees' \/ aborted' \/ Shifts]_serverVars
  BY AgreesStep
<1>3. QED
  BY <1>1, <1>2, ServerInvariance, PTL DEF ServerSpec, StaysCurrent
=============================================================================

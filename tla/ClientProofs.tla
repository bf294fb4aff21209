---------------------------- MODULE ClientProofs ----------------------------
(***************************************************************************)
(* A terminal client shows what the server has, for any items, any size of *)
(* a chunk, any number of lists, volumes and modes, and whatever is on its *)
(* way: its copy of a list (module Mirror), and what plays (Status).       *)
(*                                                                         *)
(* `After' is recursive; the proofs speak of the copies it goes through    *)
(* instead (Leads), which can be put together and cut without induction.   *)
(***************************************************************************)
EXTENDS MCMirror, SequenceTheorems, FiniteSetTheorems, TLAPS

-----------------------------------------------------------------------------
(* Messages.                                                               *)

(* What the handlers and the slots read of a message is there.             *)
LEMMA MessageFields ==
  ASSUME NEW m \in Message
  PROVE  /\ m.op = "Append" => m.items \in Seq(Item)
         /\ m.op \in {"Select", "Play", "Remove", "Move"} => m.pos \in Int
         /\ m.op = "Move" => m.dir \in {-1, 1}
         /\ m.op = "Sync" => m.own \in BOOLEAN
         /\ m.op # "Sync" => m # Sync(TRUE)
         /\ m.op = "Sync" /\ m.own => m = Sync(TRUE)
<1>1. CASE m \in [op : {"Sync"}, own : BOOLEAN]
  BY <1>1 DEF Sync
<1>2. CASE m \in [op : {"Select", "Play", "Remove"}, pos : Int]
  BY <1>2 DEF Sync
<1>3. CASE m \in [op : {"Move"}, pos : Int, dir : {-1, 1}]
  BY <1>3 DEF Sync
<1>4. CASE m \in [op : {"Append"}, items : Seq(Item)]
  BY <1>4 DEF Sync
<1>5. CASE m \in [op : {"Clear", "ItemInfo"}]
  BY <1>5 DEF Sync
<1>6. QED
  BY <1>1, <1>2, <1>3, <1>4, <1>5 DEF Message

(* What is sent is a message.                                              *)
LEMMA Messages ==
  /\ \A own \in BOOLEAN : Sync(own) \in Message
  /\ \A pos \in Int : Select(pos) \in Message /\ Play(pos) \in Message /\ Remove_(pos) \in Message
  /\ \A pos \in Int, dir \in {-1, 1} : Move(pos, dir) \in Message
  /\ \A some \in Seq(Item) : Append_(some) \in Message
  /\ Clear \in Message /\ ItemInfo \in Message
BY DEF Message, Sync, Select, Play, Remove_, Move, Append_, Clear, ItemInfo

(* A list without one of its items is a list.                              *)
LEMMA RemoveAtType ==
  ASSUME NEW s \in Seq(Item), NEW k \in 1 .. Len(s)
  PROVE  RemoveAt(s, k) \in Seq(Item) /\ Len(RemoveAt(s, k)) = Len(s) - 1
<1>1. \A i \in 1 .. Len(s) : s[i] \in Item
  OBVIOUS
<1>2. SubSeq(s, 1, k - 1) \in Seq(Item) /\ Len(SubSeq(s, 1, k - 1)) = k - 1
  BY <1>1, SubSeqProperties
<1>3. SubSeq(s, k + 1, Len(s)) \in Seq(Item) /\ Len(SubSeq(s, k + 1, Len(s))) = Len(s) - k
  BY <1>1, SubSeqProperties
<1> DEFINE a == SubSeq(s, 1, k - 1)
           b == SubSeq(s, k + 1, Len(s))
<1>4. RemoveAt(s, k) = a \o b
  BY DEF RemoveAt
<1> HIDE DEF a, b
<1>5. a \o b \in Seq(Item) /\ Len(a \o b) = Len(a) + Len(b)
  BY <1>2, <1>3, ConcatProperties DEF a, b
<1>6. Len(s) \in Nat /\ k \in Nat /\ (k - 1) + (Len(s) - k) = Len(s) - 1
  BY LenProperties
<1>7. QED
  BY <1>2, <1>3, <1>4, <1>5, <1>6 DEF a, b

(* A list with two items swapped is a list.                                *)
LEMMA SwapType ==
  ASSUME NEW s \in Seq(Item), NEW i \in Index(s), NEW j \in Index(s)
  PROVE  Swap(s, i, j) \in Seq(Item) /\ Len(Swap(s, i, j)) = Len(s)
<1>1. i + 1 \in 1 .. Len(s) /\ j + 1 \in 1 .. Len(s) /\ Len(s) \in Nat
  BY DEF Index
<1>2. s[i + 1] \in Item /\ s[j + 1] \in Item
  BY <1>1
<1>3. /\ [s EXCEPT ![i + 1] = s[j + 1]] \in Seq(Item)
      /\ Len([s EXCEPT ![i + 1] = s[j + 1]]) = Len(s)
  BY <1>1, <1>2, ExceptSeq
<1>4. Swap(s, i, j) = [[s EXCEPT ![i + 1] = s[j + 1]] EXCEPT ![j + 1] = s[i + 1]]
  BY DEF Swap, At
<1>5. QED
  BY <1>1, <1>2, <1>3, <1>4, ExceptSeq

(* What a message makes of a list is a list.                               *)
LEMMA AppliedType ==
  ASSUME NEW s \in Seq(Item), NEW m \in Message
  PROVE  Applied(s, m) \in Seq(Item)
<1>1. CASE m.op = "Append"
  BY <1>1, MessageFields, ConcatProperties DEF Applied
<1>2. CASE m.op = "Remove"
  <2>1. m.pos \in Int
    BY <1>2, MessageFields
  <2>2. m.pos \in Index(s) => RemoveAt(s, m.pos + 1) \in Seq(Item)
    BY <2>1, RemoveAtType DEF Index
  <2>3. QED
    BY <1>2, <2>2 DEF Applied
<1>3. CASE m.op = "Move"
  <2> DEFINE newPos == IF m.dir > 0 THEN m.pos + 1 ELSE m.pos - 1
  <2>1. newPos \in Index(s) /\ m.pos \in Index(s) => Swap(s, m.pos, newPos) \in Seq(Item)
    BY SwapType
  <2>2. Applied(s, m) = IF newPos \in Index(s) /\ m.pos \in Index(s) THEN Swap(s, m.pos, newPos) ELSE s
    BY <1>3 DEF Applied
  <2>3. QED
    BY <2>1, <2>2
<1>4. CASE m.op = "Clear"
  BY <1>4, EmptySeq DEF Applied
<1>5. CASE m.op \notin {"Append", "Remove", "Move", "Clear"}
  BY <1>5 DEF Applied
<1>6. QED
  BY <1>1, <1>2, <1>3, <1>4, <1>5

(* The server's move, which counts the place before which the item comes,  *)
(* and the client's, which counts the place it takes, are the same.        *)
LEMMA MovedIsApplied ==
  ASSUME NEW s \in Seq(Item), NEW m \in Message, m.op = "Move"
  PROVE  Moved(s, m.pos, m.dir) = Applied(s, m)
<1>1. m.pos \in Int /\ m.dir \in {-1, 1} /\ Len(s) \in Nat
  BY MessageFields, LenProperties
<1>2. CASE m.dir = 1
  <2>1. Moved(s, m.pos, m.dir) =
          IF Len(s) >= 2 /\ m.pos + 2 \in 0 .. Len(s) /\ m.pos \in Index(s) THEN Swap(s, m.pos, m.pos + 1) ELSE s
    BY <1>2 DEF Moved
  <2>2. Applied(s, m) = IF m.pos + 1 \in Index(s) /\ m.pos \in Index(s) THEN Swap(s, m.pos, m.pos + 1) ELSE s
    BY <1>2 DEF Applied
  <2>3. (Len(s) >= 2 /\ m.pos + 2 \in 0 .. Len(s) /\ m.pos \in Index(s))
          <=> (m.pos + 1 \in Index(s) /\ m.pos \in Index(s))
    BY <1>1 DEF Index
  <2>4. QED
    BY <2>1, <2>2, <2>3
<1>3. CASE m.dir = -1
  <2>1. Moved(s, m.pos, m.dir) =
          IF Len(s) >= 2 /\ m.pos - 1 \in 0 .. Len(s) /\ m.pos \in Index(s) THEN Swap(s, m.pos, m.pos - 1) ELSE s
    BY <1>3 DEF Moved
  <2>2. Applied(s, m) = IF m.pos - 1 \in Index(s) /\ m.pos \in Index(s) THEN Swap(s, m.pos, m.pos - 1) ELSE s
    BY <1>3 DEF Applied
  <2>3. (Len(s) >= 2 /\ m.pos - 1 \in 0 .. Len(s) /\ m.pos \in Index(s))
          <=> (m.pos - 1 \in Index(s) /\ m.pos \in Index(s))
    BY <1>1 DEF Index
  <2>4. QED
    BY <2>1, <2>2, <2>3
<1>4. QED
  BY <1>1, <1>2, <1>3

-----------------------------------------------------------------------------
(* From one copy to another.                                               *)

(* A message speaks of items the copy has.                                 *)
Fits(s, m) ==
  /\ (m.op = "Move" => m.pos \in Index(s))
  /\ (m.op = "Select" => m.pos \in Index(s) \cup {0})

(* The copies c that the messages `some' make of s, one after the other;   *)
(* `strict': each message fits the copy it finds.                          *)
Copies(strict, c, s, some) ==
  /\ c \in [0 .. Len(some) -> Seq(Item)]
  /\ c[0] = s
  /\ \A k \in 1 .. Len(some) : c[k] = Applied(c[k - 1], some[k])
  /\ (strict => \A k \in 1 .. Len(some) : Fits(c[k - 1], some[k]))

Leads(strict, s, some, t) == \E c : Copies(strict, c, s, some) /\ c[Len(some)] = t

(* No message, no change.                                                  *)
LEMMA LeadsNothing ==
  ASSUME NEW strict, NEW s \in Seq(Item)
  PROVE  Leads(strict, s, <<>>, s)
<1> DEFINE c == [k \in 0 .. 0 |-> s]
<1>1. c \in [0 .. 0 -> Seq(Item)] /\ c[0] = s
  OBVIOUS
<1> HIDE DEF c
<1>2. Copies(strict, c, s, <<>>) /\ c[Len(<<>>)] = s
  BY <1>1 DEF Copies
<1>3. QED
  BY <1>2 DEF Leads

(* One message.                                                            *)
LEMMA LeadsOne ==
  ASSUME NEW strict, NEW s \in Seq(Item), NEW m \in Message, strict => Fits(s, m)
  PROVE  Leads(strict, s, <<m>>, Applied(s, m))
<1> DEFINE t == Applied(s, m)
           c == [k \in 0 .. 1 |-> IF k = 0 THEN s ELSE t]
<1>1. t \in Seq(Item)
  BY AppliedType
<1> HIDE DEF t
<1>2. c \in [0 .. 1 -> Seq(Item)] /\ c[0] = s /\ c[1] = t
  BY <1>1
<1> HIDE DEF c
<1>3. Len(<<m>>) = 1 /\ <<m>>[1] = m
  OBVIOUS
<1>4. \A k \in 1 .. 1 : k = 1 /\ k - 1 = 0
  OBVIOUS
<1>5. Copies(strict, c, s, <<m>>) /\ c[Len(<<m>>)] = t
  <2>1. strict => \A k \in 1 .. Len(<<m>>) : Fits(c[k - 1], <<m>>[k])
    BY <1>2, <1>3, <1>4
  <2>2. QED
    BY <1>2, <1>3, <1>4, <2>1 DEF Copies, t
<1>6. QED
  BY <1>5 DEF Leads, t

(* One after the other.                                                    *)
LEMMA LeadsConcat ==
  ASSUME NEW strict, NEW a \in Seq(Message), NEW b \in Seq(Message), NEW s, NEW t, NEW u,
         Leads(strict, s, a, t), Leads(strict, t, b, u)
  PROVE  Leads(strict, s, a \o b, u)
<1>1. PICK c : Copies(strict, c, s, a) /\ c[Len(a)] = t
  BY DEF Leads
<1>2. PICK d : Copies(strict, d, t, b) /\ d[Len(b)] = u
  BY DEF Leads
<1> DEFINE n == Len(a)
           m == Len(b)
           e == [k \in 0 .. n + m |-> IF k <= n THEN c[k] ELSE d[k - n]]
<1>3. n \in Nat /\ m \in Nat
  BY LenProperties
<1>4. /\ Len(a \o b) = n + m
      /\ \A k \in 1 .. n + m : (a \o b)[k] = IF k <= n THEN a[k] ELSE b[k - n]
  BY ConcatProperties
<1>5. /\ c \in [0 .. n -> Seq(Item)] /\ c[0] = s /\ c[n] = t
      /\ \A k \in 1 .. n : c[k] = Applied(c[k - 1], a[k]) /\ (strict => Fits(c[k - 1], a[k]))
  BY <1>1 DEF Copies
<1>6. /\ d \in [0 .. m -> Seq(Item)] /\ d[0] = t /\ d[m] = u
      /\ \A k \in 1 .. m : d[k] = Applied(d[k - 1], b[k]) /\ (strict => Fits(d[k - 1], b[k]))
  BY <1>2 DEF Copies
<1> HIDE DEF n, m
<1>7. \A k \in 0 .. n + m : e[k] = IF k <= n THEN c[k] ELSE d[k - n]
  OBVIOUS
<1>8. e \in [0 .. n + m -> Seq(Item)]
  BY <1>3, <1>5, <1>6
<1> HIDE DEF e
<1>9. e[0] = s
  <2>1. 0 \in 0 .. n + m /\ 0 <= n
    BY <1>3
  <2>2. QED
    BY <1>5, <1>7, <2>1
<1>10. e[n + m] = u
  <2>1. CASE m = 0
    BY <1>3, <1>5, <1>6, <1>7, <2>1
  <2>2. CASE m # 0
    <3>1. ~(n + m <= n) /\ (n + m) - n = m /\ n + m \in 0 .. n + m
      BY <1>3, <2>2
    <3>2. QED
      BY <1>6, <1>7, <3>1
  <2>3. QED
    BY <2>1, <2>2
<1>11. ASSUME NEW k \in 1 .. n + m
       PROVE  e[k] = Applied(e[k - 1], (a \o b)[k]) /\ (strict => Fits(e[k - 1], (a \o b)[k]))
  <2>1. CASE k <= n
    <3>1. k \in 1 .. n /\ k - 1 \in 0 .. n + m /\ k - 1 <= n /\ k \in 0 .. n + m
      BY <1>3, <2>1
    <3>2. QED
      BY <1>4, <1>5, <1>7, <3>1
  <2>2. CASE k > n + 1
    <3>1. /\ k - n \in 1 .. m /\ k - 1 \in 0 .. n + m /\ ~(k - 1 <= n) /\ ~(k <= n)
          /\ (k - n) - 1 = (k - 1) - n /\ k \in 0 .. n + m
      BY <1>3, <2>2
    <3>2. e[k] = d[k - n] /\ e[k - 1] = d[(k - n) - 1] /\ (a \o b)[k] = b[k - n]
      BY <1>4, <1>7, <3>1
    <3>3. QED
      BY <1>6, <3>1, <3>2
  <2>3. CASE k = n + 1
    <3>1. /\ k - n = 1 /\ 1 \in 1 .. m /\ k - 1 = n /\ n \in 0 .. n + m /\ n <= n /\ ~(k <= n)
          /\ k \in 0 .. n + m /\ 1 - 1 = 0
      BY <1>3, <2>3
    <3>2. e[k] = d[1] /\ e[k - 1] = c[n] /\ (a \o b)[k] = b[1]
      BY <1>4, <1>7, <3>1
    <3>3. d[1] = Applied(d[0], b[1]) /\ (strict => Fits(d[0], b[1]))
      BY <1>6, <3>1
    <3>4. QED
      BY <1>5, <1>6, <3>2, <3>3
  <2>4. k <= n \/ k > n + 1 \/ k = n + 1
    BY <1>3
  <2>5. QED
    BY <2>1, <2>2, <2>3, <2>4
<1>12. Copies(strict, e, s, a \o b) /\ e[Len(a \o b)] = u
  BY <1>4, <1>8, <1>9, <1>10, <1>11 DEF Copies
<1>13. QED
  BY <1>12 DEF Leads

(* A way can be cut in two.                                                *)
LEMMA LeadsCut ==
  ASSUME NEW strict, NEW a \in Seq(Message), NEW b \in Seq(Message), NEW s, NEW u, Leads(strict, s, a \o b, u)
  PROVE  \E t \in Seq(Item) : Leads(strict, s, a, t) /\ Leads(strict, t, b, u)
<1>1. PICK e : Copies(strict, e, s, a \o b) /\ e[Len(a \o b)] = u
  BY DEF Leads
<1> DEFINE n == Len(a)
           m == Len(b)
           c == [k \in 0 .. n |-> e[k]]
           d == [k \in 0 .. m |-> e[n + k]]
<1>2. n \in Nat /\ m \in Nat
  BY LenProperties
<1>3. /\ Len(a \o b) = n + m
      /\ \A k \in 1 .. n + m : (a \o b)[k] = IF k <= n THEN a[k] ELSE b[k - n]
  BY ConcatProperties
<1>4. /\ e \in [0 .. n + m -> Seq(Item)] /\ e[0] = s /\ e[n + m] = u
      /\ \A k \in 1 .. n + m : e[k] = Applied(e[k - 1], (a \o b)[k]) /\ (strict => Fits(e[k - 1], (a \o b)[k]))
  BY <1>1, <1>3 DEF Copies
<1> HIDE DEF n, m
<1>5. c \in [0 .. n -> Seq(Item)] /\ \A k \in 0 .. n : c[k] = e[k]
  BY <1>2, <1>4
<1>6. d \in [0 .. m -> Seq(Item)] /\ \A k \in 0 .. m : d[k] = e[n + k]
  BY <1>2, <1>4
<1> HIDE DEF c, d
<1>7. ASSUME NEW k \in 1 .. n PROVE c[k] = Applied(c[k - 1], a[k]) /\ (strict => Fits(c[k - 1], a[k]))
  <2>1. k \in 1 .. n + m /\ k <= n /\ k \in 0 .. n /\ k - 1 \in 0 .. n
    BY <1>2
  <2>2. QED
    BY <1>3, <1>4, <1>5, <2>1
<1>8. ASSUME NEW k \in 1 .. m PROVE d[k] = Applied(d[k - 1], b[k]) /\ (strict => Fits(d[k - 1], b[k]))
  <2>1. /\ n + k \in 1 .. n + m /\ ~(n + k <= n) /\ (n + k) - n = k /\ (n + k) - 1 = n + (k - 1)
        /\ k \in 0 .. m /\ k - 1 \in 0 .. m
    BY <1>2
  <2>2. e[n + k] = Applied(e[n + (k - 1)], b[k]) /\ (strict => Fits(e[n + (k - 1)], b[k]))
    BY <1>3, <1>4, <2>1
  <2>3. QED
    BY <1>6, <2>1, <2>2
<1>9. c[0] = s /\ c[n] = e[n] /\ d[0] = e[n] /\ d[m] = u /\ e[n] \in Seq(Item)
  <2>1. 0 \in 0 .. n /\ n \in 0 .. n /\ 0 \in 0 .. m /\ m \in 0 .. m /\ n + 0 = n /\ n \in 0 .. n + m
    BY <1>2
  <2>2. QED
    BY <1>4, <1>5, <1>6, <2>1
<1>10. Copies(strict, c, s, a) /\ Copies(strict, d, e[n], b)
  BY <1>5, <1>6, <1>7, <1>8, <1>9 DEF Copies, n, m
<1>11. Leads(strict, s, a, e[n]) /\ Leads(strict, e[n], b, u)
  BY <1>9, <1>10 DEF Leads, n, m
<1>12. QED
  BY <1>9, <1>11

(* One message leads nowhere else.                                         *)
LEMMA LeadsOneOnly ==
  ASSUME NEW strict, NEW m, NEW s, NEW t, Leads(strict, s, <<m>>, t)
  PROVE  t = Applied(s, m) /\ (strict => Fits(s, m))
<1>1. PICK c : Copies(strict, c, s, <<m>>) /\ c[Len(<<m>>)] = t
  BY DEF Leads
<1>2. Len(<<m>>) = 1 /\ <<m>>[1] = m /\ 1 \in 1 .. 1 /\ 1 - 1 = 0
  OBVIOUS
<1>3. /\ c[1] = Applied(c[1 - 1], <<m>>[1]) /\ c[0] = s /\ c[1] = t
      /\ (strict => Fits(c[1 - 1], <<m>>[1]))
  BY <1>1, <1>2 DEF Copies
<1>4. QED
  BY <1>2, <1>3

(* A sequence is its first element and the rest.                           *)
LEMMA HeadAndTail ==
  ASSUME NEW Whatever, NEW some \in Seq(Whatever), some # <<>>
  PROVE  /\ Head(some) \in Whatever /\ Tail(some) \in Seq(Whatever)
         /\ some = <<Head(some)>> \o Tail(some)
<1> DEFINE m == Head(some)
           tail == Tail(some)
<1>1. m \in Whatever /\ tail \in Seq(Whatever) /\ Len(tail) = Len(some) - 1 /\ m = some[1]
      /\ \A i \in 1 .. Len(tail) : tail[i] = some[i + 1]
  BY HeadTailProperties
<1>2. Len(some) \in Nat \ {0}
  BY EmptySeq
<1> HIDE DEF m, tail
<1>3. <<m>> \in Seq(Whatever) /\ Len(<<m>>) = 1 /\ <<m>>[1] = m
  BY <1>1
<1>4. /\ <<m>> \o tail \in Seq(Whatever) /\ Len(<<m>> \o tail) = 1 + Len(tail)
      /\ \A i \in 1 .. 1 + Len(tail) : (<<m>> \o tail)[i] = IF i <= 1 THEN <<m>>[i] ELSE tail[i - 1]
  BY <1>1, <1>3, ConcatProperties
<1>5. ASSUME NEW i \in 1 .. Len(some) PROVE some[i] = (<<m>> \o tail)[i]
  <2>1. CASE i = 1
    BY <1>1, <1>2, <1>3, <1>4, <2>1
  <2>2. CASE i # 1
    <3>1. i - 1 \in 1 .. Len(tail) /\ (i - 1) + 1 = i /\ ~(i <= 1) /\ i \in 1 .. 1 + Len(tail)
      BY <1>1, <1>2, <2>2
    <3>2. QED
      BY <1>1, <1>4, <3>1
  <2>3. QED
    BY <2>1, <2>2
<1>6. Len(some) = Len(<<m>> \o tail)
  BY <1>1, <1>2, <1>4
<1>7. some = <<m>> \o tail
  BY <1>4, <1>5, <1>6, SeqEqual
<1>8. QED
  BY <1>1, <1>7 DEF m, tail

(* What is received is applied, and the rest is on its way.                *)
LEMMA LeadsRest ==
  ASSUME NEW strict, NEW some \in Seq(Message), some # <<>>, NEW rest \in Seq(Message), NEW s, NEW t,
         Leads(strict, s, some \o rest, t)
  PROVE  Leads(strict, Applied(s, Head(some)), Tail(some) \o rest, t) /\ (strict => Fits(s, Head(some)))
<1> DEFINE m == Head(some)
           tail == Tail(some)
<1>1. m \in Message /\ tail \in Seq(Message) /\ Len(tail) = Len(some) - 1 /\ m = some[1]
      /\ \A i \in 1 .. Len(tail) : tail[i] = some[i + 1]
  BY HeadTailProperties
<1>2. Len(some) \in Nat \ {0}
  BY EmptySeq
<1> HIDE DEF m, tail
<1>3. some = <<m>> \o tail
  BY HeadAndTail DEF m, tail
<1>4. <<m>> \in Seq(Message) /\ tail \o rest \in Seq(Message)
  BY <1>1, ConcatProperties
<1>5. some \o rest = <<m>> \o (tail \o rest)
  BY <1>1, <1>3, <1>4, ConcatAssociative
<1>6. PICK u \in Seq(Item) : Leads(strict, s, <<m>>, u) /\ Leads(strict, u, tail \o rest, t)
  BY <1>4, <1>5, LeadsCut
<1>7. u = Applied(s, m) /\ (strict => Fits(s, m))
  BY <1>6, LeadsOneOnly
<1>8. QED
  BY <1>6, <1>7 DEF m, tail

(* A set of numbers has a least member.                                     *)
LEMMA SmallestOf ==
  ASSUME NEW T, T \subseteq Nat, T # {}
  PROVE  \E n \in T : \A m \in T : n <= m
<1> DEFINE R == OpToRel(<, Nat)
<1>1. \E n \in T : \A m \in T : ~(<<m, n>> \in R)
  BY NatLessThanWellFounded, WFMin
<1>2. \A m, n \in Nat : <<m, n>> \in R <=> m < n
  BY DEF OpToRel
<1> HIDE DEF R
<1>3. PICK n \in T : \A m \in T : ~(<<m, n>> \in R)
  BY <1>1
<1>4. \A m \in T : m \in Nat /\ n \in Nat /\ ~(m < n)
  BY <1>2, <1>3
<1>5. \A m \in T : n <= m
  BY <1>4
<1>6. QED
  BY <1>5

(* The recursion of After goes through these copies and no others.         *)
LEMMA LeadsEnds ==
  ASSUME NEW strict, NEW some \in Seq(Message), NEW s, NEW t, Leads(strict, s, some, t)
  PROVE  After(s, some) = t
<1>1. PICK c : Copies(strict, c, s, some) /\ c[Len(some)] = t
  BY DEF Leads
<1> DEFINE n == Len(some)
           after == CHOOSE g : g = [k \in 0 .. n |-> IF k = 0 THEN s ELSE Applied(g[k - 1], some[k])]
<1>2. n \in Nat
  BY LenProperties
<1>3. /\ c = [k \in 0 .. n |-> c[k]] /\ c[0] = s
      /\ \A k \in 1 .. n : c[k] = Applied(c[k - 1], some[k])
  BY <1>1 DEF Copies
<1>4. \A k \in 0 .. n : k # 0 => k \in 1 .. n
  BY <1>2
<1>5. c = [k \in 0 .. n |-> IF k = 0 THEN s ELSE Applied(c[k - 1], some[k])]
  BY <1>3, <1>4
<1>6. after = [k \in 0 .. n |-> IF k = 0 THEN s ELSE Applied(after[k - 1], some[k])]
  BY <1>5
<1>7. After(s, some) = after[n]
  BY DEF After
<1> HIDE DEF after, n
<1>8. \A k \in 0 .. n : after[k] = c[k]
  <2> DEFINE T == {k \in 0 .. n : after[k] # c[k]}
  <2>1. SUFFICES ASSUME T # {} PROVE FALSE
    OBVIOUS
  <2>2. T \subseteq Nat
    BY <1>2
  <2>3. PICK k \in T : \A l \in T : k <= l
    BY <2>1, <2>2, SmallestOf
  <2>4. k \in 0 .. n /\ after[k] # c[k]
    OBVIOUS
  <2>5. CASE k = 0
    BY <1>3, <1>6, <2>4, <2>5
  <2>6. CASE k # 0
    <3>1. k - 1 \in 0 .. n /\ ~(k <= k - 1) /\ k \in 1 .. n
      BY <1>2, <2>4, <2>6
    <3>2. after[k - 1] = c[k - 1]
      BY <2>3, <3>1
    <3>3. after[k] = Applied(after[k - 1], some[k])
      BY <1>6, <2>4, <2>6
    <3>4. QED
      BY <1>3, <2>4, <3>1, <3>2, <3>3
  <2>7. QED
    BY <2>5, <2>6
<1>9. QED
  BY <1>1, <1>2, <1>7, <1>8 DEF n

(* What fits need not be known to fit.                                     *)
LEMMA LeadsWeaker ==
  ASSUME NEW strict, NEW strict2, strict2 => strict, NEW some, NEW s, NEW t, Leads(strict, s, some, t)
  PROVE  Leads(strict2, s, some, t)
BY DEF Leads, Copies

-----------------------------------------------------------------------------
(* Chunks.                                                                 *)

(* As many chunks as are needed and no more.                               *)
LEMMA ChunkCount ==
  ASSUME NEW l \in Nat, NEW c \in Nat \ {0}
  PROVE  LET n == (l + c - 1) \div c IN
         n \in Nat /\ n * c >= l /\ (\A k \in 1 .. n : (k - 1) * c \in Nat /\ (k - 1) * c < l /\ k * c = (k - 1) * c + c)
<1> DEFINE a == l + c - 1
           n == a \div c
<1>1. a \in Nat
  OBVIOUS
<1> HIDE DEF a
<1>2. n \in Nat /\ n * c <= a /\ a < n * c + c
  BY <1>1
<1> HIDE DEF n
<1>3. n * c \in Nat
  BY <1>2
<1>4. n * c >= l
  BY <1>2, <1>3 DEF a
<1>5. ASSUME NEW k \in 1 .. n PROVE (k - 1) * c \in Nat /\ (k - 1) * c < l /\ k * c = (k - 1) * c + c
  <2>1. k \in Nat /\ k - 1 \in Nat /\ k * c = (k - 1) * c + c /\ k * c \in Nat /\ (k - 1) * c \in Nat
    BY <1>2
  <2>2. k * c <= n * c
    BY <1>2
  <2>3. (k - 1) * c <= n * c - c
    BY <1>3, <2>1, <2>2
  <2>4. QED
    BY <1>2, <1>3, <2>1, <2>3 DEF a
<1>6. QED
  BY <1>2, <1>4, <1>5 DEF n, a

(* The chunks of a list, one after the other, append the list.             *)
LEMMA LeadsChunks ==
  ASSUME NEW strict, NEW s \in Seq(Item), NEW new \in Seq(Item)
  PROVE  Chunks(new) \in Seq(Message) /\ Leads(strict, s, Chunks(new), s \o new)
<1> DEFINE l == Len(new)
           n == (l + Chunk - 1) \div Chunk
           Upto(k) == IF k * Chunk < l THEN k * Chunk ELSE l
           piece(k) == SubSeq(new, (k - 1) * Chunk + 1, Upto(k))
           front(k) == SubSeq(new, 1, Upto(k))
           c == [k \in 0 .. n |-> s \o front(k)]
<1>1. l \in Nat /\ Chunk \in Nat \ {0} /\ \A i \in 1 .. l : new[i] \in Item
  BY BoundsAssumption, LenProperties
<1>2. /\ n \in Nat /\ n * Chunk >= l
      /\ \A k \in 1 .. n : (k - 1) * Chunk \in Nat /\ (k - 1) * Chunk < l /\ k * Chunk = (k - 1) * Chunk + Chunk
  BY <1>1, ChunkCount
<1>3. Chunks(new) = [k \in 1 .. n |-> Append_(piece(k))]
  BY DEF Chunks
<1> HIDE DEF l, n
<1>4. \A k \in 0 .. n : Upto(k) \in 0 .. l
  <2>1. \A k \in 0 .. n : k * Chunk \in Nat
    BY <1>1, <1>2
  <2>2. QED
    BY <1>1, <2>1
<1>5. ASSUME NEW k \in 1 .. n
      PROVE  /\ Upto(k - 1) = (k - 1) * Chunk /\ Upto(k) \in (k - 1) * Chunk .. l
             /\ (k - 1) * Chunk \in 0 .. l
  BY <1>1, <1>2
<1>6. Upto(0) = 0 /\ Upto(n) = l
  <2>1. 0 * Chunk = 0
    BY <1>1
  <2>2. n * Chunk \in Nat
    BY <1>1, <1>2
  <2>3. QED
    BY <1>1, <1>2, <2>1, <2>2
<1> HIDE DEF Upto
<1>7. \A k \in 0 .. n : front(k) \in Seq(Item)
  <2>1. TAKE k \in 0 .. n
  <2>2. Upto(k) \in Int /\ \A i \in 1 .. Upto(k) : new[i] \in Item
    BY <1>1, <1>4
  <2>3. QED
    BY <2>2, SubSeqProperties
<1>8. ASSUME NEW k \in 1 .. n
      PROVE  piece(k) \in Seq(Item) /\ front(k) = front(k - 1) \o piece(k)
  <2> DEFINE p == (k - 1) * Chunk
             q == Upto(k)
  <2>1. p \in 0 .. l /\ q \in p .. l /\ Upto(k - 1) = p
    BY <1>5
  <2> HIDE DEF p, q
  <2>2. p + 1 \in Int /\ q \in Int /\ (\A i \in p + 1 .. q : new[i] \in Item)
    BY <1>1, <2>1
  <2>3. SubSeq(new, p + 1, q) \in Seq(Item)
    BY <2>2, SubSeqProperties
  <2>4. 1 \in 1 .. Len(new) + 1 /\ p \in 1 - 1 .. Len(new) /\ q \in p .. Len(new)
    BY <1>1, <2>1 DEF l
  <2>5. SubSeq(new, 1, p) \o SubSeq(new, p + 1, q) = SubSeq(new, 1, q)
    BY <2>4, ConcatAdjacentSubSeq
  <2>6. QED
    BY <2>1, <2>3, <2>5 DEF p, q
<1>9. front(0) = <<>> /\ front(n) = new
  <2>1. SubSeq(new, 1, 0) = <<>>
    BY SubSeqEmpty
  <2>2. SubSeq(new, 1, l) = new
    BY SubSeqFull DEF l
  <2>3. QED
    BY <1>6, <2>1, <2>2
<1> HIDE DEF piece, front
<1>10. /\ Chunks(new) \in Seq(Message) /\ Len(Chunks(new)) = n
       /\ \A k \in 1 .. n : Chunks(new)[k] = Append_(piece(k))
  <2>1. \A k \in 1 .. n : Append_(piece(k)) \in Message
    BY <1>8, Messages
  <2>2. QED
    BY <1>2, <1>3, <2>1
<1>11. c \in [0 .. n -> Seq(Item)] /\ \A k \in 0 .. n : c[k] = s \o front(k)
  BY <1>7, ConcatProperties
<1> HIDE DEF c
<1>12. c[0] = s /\ c[n] = s \o new
  <2>1. 0 \in 0 .. n /\ n \in 0 .. n
    BY <1>2
  <2>2. s \o <<>> = s
    BY ConcatEmptySeq
  <2>3. QED
    BY <1>9, <1>11, <2>1, <2>2
<1>13. ASSUME NEW k \in 1 .. n PROVE c[k] = Applied(c[k - 1], Chunks(new)[k])
  <2>1. k - 1 \in 0 .. n /\ k \in 0 .. n
    BY <1>2
  <2>2. (s \o front(k - 1)) \o piece(k) = s \o (front(k - 1) \o piece(k))
    BY <1>7, <1>8, <2>1, ConcatAssociative
  <2>3. Applied(c[k - 1], Append_(piece(k))) = c[k - 1] \o piece(k)
    BY DEF Applied, Append_
  <2>4. QED
    BY <1>8, <1>10, <1>11, <2>1, <2>2, <2>3
<1>14. Copies(strict, c, s, Chunks(new)) /\ c[Len(Chunks(new))] = s \o new
  <2>1. \A k \in 1 .. n : Fits(c[k - 1], Chunks(new)[k])
    BY <1>10 DEF Fits, Append_
  <2>2. QED
    BY <1>10, <1>11, <1>12, <1>13, <2>1 DEF Copies
<1>15. QED
  BY <1>10, <1>14 DEF Leads

-----------------------------------------------------------------------------
(* The invariant.                                                          *)

TypeInv ==
  /\ list \in Seq(Item) /\ mirror \in Seq(Item)
  /\ selected \in Int /\ cursor \in Int
  /\ buffer \in Seq(Message) /\ reply \in Seq(Message)
  /\ c2s \in Seq(Message) /\ s2c \in Seq(Message)
  /\ aborted \in BOOLEAN /\ composed \in BOOLEAN /\ news \in BOOLEAN /\ up \in BOOLEAN
  /\ waitReply \in BOOLEAN /\ edited \in BOOLEAN /\ clobbered \in BOOLEAN
  /\ unanswered \in BOOLEAN /\ early \in BOOLEAN /\ stale \in BOOLEAN
  /\ Len(buffer) <= 1 /\ Len(reply) <= 1
  /\ (composed => reply # <<>>)

(* Who composed owns the buffer, until somebody else composes, too.        *)
BufferInv ==
  ~clobbered => /\ (composed => buffer = reply)
                /\ (news => buffer = <<ItemInfo>>)
                /\ ~(composed /\ news)

(* A client that has gone shows nothing, and nothing is on its way to it.  *)
GoneInv == ~up => s2c = <<>> /\ mirror = <<>>

(* The list has been asked for and not yet been answered.                  *)
Unsynced == c2s # <<>> /\ c2s[1] = Sync(TRUE)

(* It is asked for first, and no reply is under way while it is.           *)
AskedInv ==
  /\ \A k \in 2 .. Len(c2s) : c2s[k] # Sync(TRUE)
  /\ (Unsynced => reply = <<>>)

(* What the client knows of: nothing before its first sync, or the list.   *)
Known == IF Unsynced THEN <<>> ELSE list

(* What is on its way leads the copy to what the client knows of, and fits *)
(* the copies it finds, unless the selected item was past the end.         *)
Following == Alone => Leads(~stale, mirror, s2c \o reply, Known)

CopyInv == TypeInv /\ BufferInv /\ GoneInv /\ AskedInv /\ Following

(* The client that came last has seen no edit of others, no overwriting, no*)
(* selection past the end, and nobody has read past the end of a list.     *)
Calm == ~edited /\ ~clobbered /\ ~stale /\ ~aborted

(* A view has at most one request or reply under way, and it waits for it. *)
CountInv ==
  /\ (~up => ~waitReply)
  /\ (~clobbered => /\ Outstanding <= 1
                    /\ (up /\ ~waitReply => Outstanding = 0)
                    /\ (up /\ waitReply /\ ~unanswered => Outstanding = 1))

(* The cursor is on an item of the copy, or at the top.                    *)
CursorInv ==
  /\ (~up => cursor = 0)
  /\ (Calm /\ up => cursor \in Index(mirror) \cup {0})

(* What is to be moved is in the list.                                     *)
RequestInv == Calm => \A k \in 1 .. Len(c2s) : c2s[k].op = "Move" => c2s[k].pos \in Index(list)

(* The first selection, or a list, is still to come.                       *)
Unsettled ==
  \/ \E m \in ToSet(c2s) : m.op = "Sync"
  \/ \E m \in ToSet(s2c) : m.op = "Select"

(* What will move the cursor again is under way.                           *)
Shift == {"Remove", "Move", "Clear"}

Shifting == \E m \in ToSet(c2s) \cup ToSet(reply) \cup ToSet(s2c) : m.op \in Shift

(* The last selection that is asked for, or else the server's, is that of  *)
(* the view.                                                               *)
Chosen ==
  \/ selected = cursor /\ \A k \in 1 .. Len(c2s) : c2s[k].op # "Select"
  \/ \E k \in 1 .. Len(c2s) : /\ c2s[k].op = "Select" /\ c2s[k].pos = cursor
                               /\ \A j \in k + 1 .. Len(c2s) : c2s[j].op # "Select"

(* Until the first selection has come, nothing is asked for but the lists; *)
(* from then on the server is asked for what the view shows.               *)
SelectInv ==
  Alone /\ ~early /\ ~stale =>
    /\ (Unsettled => /\ ~waitReply /\ reply = <<>>
                     /\ \A m \in ToSet(c2s) : m.op = "Sync"
                     /\ \A m \in ToSet(s2c) : m.op = "Select" => m.pos = selected)
    /\ (~Unsettled /\ ~Shifting => Chosen)

(* What is kept for after the unlock.                                      *)
ReplyInv == \A m \in ToSet(reply) : m.op \in Shift

IInv == CopyInv /\ CountInv /\ CursorInv /\ RequestInv /\ ReplyInv /\ SelectInv

(* The next to be moved is in the list.                                    *)
LEMMA FirstFits ==
  ASSUME TypeInv, RequestInv, Calm, c2s # <<>>, Head(c2s).op = "Move"
  PROVE  Head(c2s).pos \in Index(list)
<1>1. Head(c2s) = c2s[1] /\ 1 \in 1 .. Len(c2s)
  <2>1. c2s \in Seq(Message) /\ Len(c2s) \in Nat \ {0}
    BY EmptySeq DEF TypeInv
  <2>2. QED
    BY <2>1, HeadTailProperties
<1>2. QED
  BY <1>1 DEF RequestInv

(* A request other than a sync, at the end of the pipe.                    *)
LEMMA Requested ==
  ASSUME TypeInv, AskedInv, NEW m \in Message, m.op # "Sync", Request(m), reply' = reply
  PROVE  c2s' \in Seq(Message) /\ AskedInv' /\ Unsynced' = Unsynced
<1>1. c2s \in Seq(Message) /\ c2s' = Append(c2s, m) /\ m # Sync(TRUE)
  BY MessageFields DEF TypeInv, Request
<1>2. /\ c2s' \in Seq(Message) /\ c2s' # <<>> /\ Len(c2s') = Len(c2s) + 1
      /\ (\A i \in 1 .. Len(c2s) : c2s'[i] = c2s[i]) /\ c2s'[Len(c2s) + 1] = m
  BY <1>1, AppendProperties
<1>3. Len(c2s) \in Nat /\ (c2s # <<>> => Len(c2s) # 0) /\ (c2s = <<>> => Len(c2s) = 0)
  BY <1>1, EmptySeq, LenProperties
<1>4. Unsynced' = Unsynced
  <2>1. CASE c2s = <<>>
    BY <1>1, <1>2, <1>3, <2>1 DEF Unsynced, Sync
  <2>2. CASE c2s # <<>>
    <3>1. 1 \in 1 .. Len(c2s)
      BY <1>3, <2>2
    <3>2. QED
      BY <1>2, <2>2, <3>1 DEF Unsynced, Sync
  <2>3. QED
    BY <2>1, <2>2
<1>5. ASSUME NEW k \in 2 .. Len(c2s') PROVE c2s'[k] # Sync(TRUE)
  <2>1. k \in 2 .. Len(c2s) \/ k = Len(c2s) + 1
    BY <1>2, <1>3
  <2>2. CASE k \in 2 .. Len(c2s)
    <3>1. k \in 1 .. Len(c2s)
      BY <1>3, <2>2
    <3>2. QED
      BY <1>2, <2>2, <3>1 DEF AskedInv
  <2>3. QED
    BY <1>1, <1>2, <2>1, <2>2
<1>6. \A k \in 2 .. Len(c2s') : c2s'[k] # Sync(TRUE)'
  BY <1>5 DEF Sync
<1>7. QED
  BY <1>2, <1>4, <1>6 DEF AskedInv

(* A request taken off the pipe: the list is asked for no more.            *)
LEMMA Taken ==
  ASSUME TypeInv, AskedInv, c2s # <<>>, c2s' = Tail(c2s)
  PROVE  /\ c2s' \in Seq(Message) /\ AskedInv' /\ ~Unsynced'
         /\ Head(c2s) \in Message /\ (Unsynced <=> Head(c2s) = Sync(TRUE))
<1>1. c2s \in Seq(Message) /\ Len(c2s) \in Nat \ {0}
  BY EmptySeq DEF TypeInv
<1>2. /\ c2s' \in Seq(Message) /\ Len(c2s') = Len(c2s) - 1 /\ Head(c2s) \in Message /\ Head(c2s) = c2s[1]
      /\ \A i \in 1 .. Len(c2s') : c2s'[i] = c2s[i + 1]
  BY <1>1, HeadTailProperties
<1>3. ASSUME NEW k \in 1 .. Len(c2s') PROVE c2s'[k] # Sync(TRUE)
  <2>1. k + 1 \in 2 .. Len(c2s)
    BY <1>1, <1>2
  <2>2. QED
    BY <1>2, <2>1 DEF AskedInv
<1>4. Len(c2s') \in Nat /\ (c2s' # <<>> => 1 \in 1 .. Len(c2s')) /\ 2 .. Len(c2s') \subseteq 1 .. Len(c2s')
  <2>1. Len(c2s') \in Nat /\ (c2s' # <<>> => Len(c2s') \in Nat \ {0})
    BY <1>2, EmptySeq
  <2>2. QED
    BY <2>1
<1>5. ~Unsynced'
  BY <1>3, <1>4 DEF Unsynced, Sync
<1>6. \A k \in 2 .. Len(c2s') : c2s'[k] # Sync(TRUE)'
  BY <1>3, <1>4 DEF Sync
<1>7. AskedInv'
  BY <1>5, <1>6 DEF AskedInv
<1>8. QED
  BY <1>2, <1>5, <1>7 DEF Unsynced

(* A handler whose reply, sent or kept, makes of the list what it made.    *)
LEMMA Handled ==
  ASSUME CopyInv, NEW op, Handle(op), list' \in Seq(Item), aborted' \in BOOLEAN, selected' \in Int,
         NEW some \in Seq(Message), Alone' => Leads(~stale', Known, some, list'),
         \/ Answer(some)
         \/ Len(some) = 1 /\ reply' = some /\ UNCHANGED <<buffer, composed, s2c>>,
         unanswered' \in BOOLEAN, stale' \in BOOLEAN, stale => stale'
  PROVE  CopyInv'
<1>1. /\ ~aborted /\ c2s # <<>> /\ reply = <<>> /\ c2s' = Tail(c2s)
      /\ news' = news /\ up' = up /\ mirror' = mirror /\ cursor' = cursor /\ waitReply' = waitReply
      /\ edited' = edited /\ clobbered' = clobbered /\ early' = early
  BY DEF Handle, view
<1>2. /\ TypeInv /\ AskedInv /\ BufferInv /\ GoneInv /\ Following
  BY DEF CopyInv
<1>3. c2s' \in Seq(Message) /\ AskedInv' /\ ~Unsynced'
  BY <1>1, <1>2, Taken
<1>4. composed = FALSE /\ s2c \in Seq(Message)
  BY <1>1, <1>2 DEF TypeInv
<1>5. /\ buffer' = buffer /\ composed' = FALSE /\ reply' \in Seq(Message) /\ Len(reply') <= 1
      /\ s2c' \in Seq(Message) /\ (~up => s2c' = s2c) /\ (up => s2c' \o reply' = s2c \o some)
  <2>1. CASE Answer(some)
    <3>1. reply' = <<>> /\ buffer' = buffer /\ composed' = composed /\ s2c' = IF up THEN s2c \o some ELSE s2c
      BY <1>1, <2>1 DEF Answer, Deliver
    <3>2. s2c \o some \in Seq(Message) /\ (s2c \o some) \o <<>> = s2c \o some
      BY <1>4, ConcatProperties, ConcatEmptySeq
    <3>3. <<>> \in Seq(Message) /\ Len(<<>>) = 0
      BY EmptySeq
    <3>4. CASE up
      BY <1>4, <3>1, <3>2, <3>3, <3>4
    <3>5. CASE ~up
      BY <1>4, <3>1, <3>3, <3>5
    <3>6. QED
      BY <3>4, <3>5
  <2>2. CASE Len(some) = 1 /\ reply' = some /\ UNCHANGED <<buffer, composed, s2c>>
    <3>1. buffer' = buffer /\ composed' = composed /\ s2c' = s2c /\ reply' = some /\ Len(some) = 1
      BY <2>2
    <3>2. QED
      BY <1>4, <3>1
  <2>3. QED
    BY <2>1, <2>2
<1>6. TypeInv'
  BY <1>1, <1>2, <1>3, <1>5 DEF TypeInv
<1>7. BufferInv'
  BY <1>1, <1>2, <1>5 DEF BufferInv, ItemInfo
<1>8. GoneInv'
  BY <1>1, <1>2, <1>5 DEF GoneInv
<1>9. Following'
  <2>1. SUFFICES ASSUME Alone' PROVE Leads(~stale', mirror, s2c' \o reply', list')
    <3>1. Leads(~stale', mirror, s2c' \o reply', list') => Leads(~stale, mirror, s2c \o reply, Known)'
      BY <1>1, <1>3 DEF Leads, Copies, Fits, Applied, Known, Index, Swap, At
    <3>2. QED
      BY <3>1 DEF Following
  <2>2. Alone
    BY <1>1, <2>1 DEF Alone
  <2>3. Leads(~stale', mirror, s2c, Known)
    <3>1. s2c \o reply = s2c
      BY <1>1, <1>4, ConcatEmptySeq
    <3>2. Leads(~stale, mirror, s2c, Known)
      BY <1>2, <2>2, <3>1 DEF Following
    <3>3. QED
      BY <3>2, LeadsWeaker
  <2>4. Leads(~stale', mirror, s2c \o some, list')
    BY <1>4, <2>1, <2>3, LeadsConcat
  <2>5. QED
    BY <1>5, <2>2, <2>4 DEF Alone
<1>10. QED
  BY <1>3, <1>6, <1>7, <1>8, <1>9 DEF CopyInv

-----------------------------------------------------------------------------
(* The steps.                                                              *)

(* A key sends a request that is no sync, and leaves the copy alone.       *)
LEMMA KeyPressed ==
  ASSUME CopyInv, Key, NEW m \in Message, m.op # "Sync", Request(m), cursor' \in Int, waitReply' \in BOOLEAN
  PROVE  CopyInv'
<1>1. /\ UNCHANGED <<list, selected, aborted, buffer, reply, composed, news, s2c, up, mirror>>
      /\ UNCHANGED <<edited, clobbered, unanswered, stale>> /\ early' \in BOOLEAN
  BY DEF Key, server, session, CopyInv, TypeInv
<1>2. /\ TypeInv /\ AskedInv /\ BufferInv /\ GoneInv /\ Following
  BY DEF CopyInv
<1>3. c2s' \in Seq(Message) /\ AskedInv' /\ Unsynced' = Unsynced
  BY <1>1, <1>2, Requested
<1>4. TypeInv'
  BY <1>1, <1>2, <1>3 DEF TypeInv
<1>5. BufferInv' /\ GoneInv'
  BY <1>1, <1>2 DEF BufferInv, GoneInv, ItemInfo
<1>6. Known' = Known /\ Alone' = Alone
  BY <1>1, <1>3 DEF Known, Alone
<1>7. Following'
  BY <1>1, <1>2, <1>6 DEF Following
<1>8. QED
  BY <1>3, <1>4, <1>5, <1>7 DEF CopyInv

(* All keys.                                                               *)
LEMMA KeysStep == ASSUME CopyInv, Keys PROVE CopyInv'
<1>1. cursor \in Int /\ waitReply \in BOOLEAN /\ mirror \in Seq(Item) /\ Len(mirror) \in Nat
  BY LenProperties DEF CopyInv, TypeInv
<1>2. CASE Scroll
  <2>1. Key /\ Request(Select(cursor')) /\ waitReply' = waitReply /\ cursor' \in Int
    BY <1>1, <1>2 DEF Scroll
  <2>2. Select(cursor') \in Message /\ Select(cursor').op # "Sync"
    BY <2>1, Messages DEF Select
  <2>3. QED
    BY <1>1, <2>1, <2>2, KeyPressed
<1>3. ASSUME NEW m \in Message, m.op # "Sync", ReqGated(m) PROVE CopyInv'
  <2>1. Key /\ Request(m) /\ waitReply' \in BOOLEAN /\ cursor' \in Int
    BY <1>1, <1>3 DEF ReqGated
  <2>2. QED
    BY <1>3, <2>1, KeyPressed
<1>4. CASE ReqPlay
  BY <1>1, <1>3, <1>4, Messages DEF ReqPlay, Play
<1>5. CASE ReqRemove
  BY <1>1, <1>3, <1>5, Messages DEF ReqRemove, Remove_
<1>6. CASE ReqMove
  BY <1>1, <1>3, <1>6, Messages DEF ReqMove, Move
<1>7. CASE ReqClear
  BY <1>3, <1>7, Messages DEF ReqClear, Clear
<1>8. CASE SlotReqUserOpen
  <2>1. PICK i \in Item : Request(Append_(<<i>>))
    BY <1>8 DEF SlotReqUserOpen
  <2>2. Append_(<<i>>) \in Message /\ Append_(<<i>>).op # "Sync"
    <3>1. <<i>> \in Seq(Item)
      OBVIOUS
    <3>2. QED
      BY <3>1, Messages DEF Append_
  <2>3. Key /\ waitReply' \in BOOLEAN /\ cursor' \in Int
    BY <1>1, <1>8 DEF SlotReqUserOpen
  <2>4. QED
    BY <2>1, <2>2, <2>3, KeyPressed
<1>9. QED
  BY <1>2, <1>4, <1>5, <1>6, <1>7, <1>8 DEF Keys

(* Selections, items that play and news change no list.                    *)
LEMMA Harmless ==
  ASSUME NEW strict, NEW s \in Seq(Item), NEW m \in Message, m.op \in {"Select", "Play", "ItemInfo"},
         strict => (m.op = "Select" => m.pos \in Index(s) \cup {0})
  PROVE  Applied(s, m) = s /\ <<m>> \in Seq(Message) /\ Leads(strict, s, <<m>>, s)
<1>1. Applied(s, m) = s
  BY DEF Applied
<1>2. strict => Fits(s, m)
  BY DEF Fits
<1>3. QED
  BY <1>1, <1>2, LeadsOne

(* Handlers of other requests than a sync know of the list.                *)
LEMMA HandlersKnow ==
  ASSUME CopyInv, NEW op, op # "Sync", Handle(op)
  PROVE  /\ Known = list /\ list \in Seq(Item) /\ Head(c2s) \in Message /\ Head(c2s).op = op
         /\ selected \in Int /\ aborted \in BOOLEAN /\ up \in BOOLEAN /\ s2c \in Seq(Message)
         /\ unanswered \in BOOLEAN /\ stale \in BOOLEAN
<1>1. c2s # <<>> /\ Head(c2s).op = op /\ c2s' = Tail(c2s)
  BY DEF Handle
<1>2. Head(c2s) \in Message /\ (Unsynced <=> Head(c2s) = Sync(TRUE))
  BY <1>1, Taken DEF CopyInv
<1>3. ~Unsynced
  BY <1>1, <1>2, MessageFields
<1>4. QED
  BY <1>1, <1>2, <1>3 DEF Known, CopyInv, TypeInv

(* A sync: the list in chunks, if it is this one, and the selected item.   *)
LEMMA SyncStep == ASSUME CopyInv, PlaylistSync PROVE CopyInv'
<1> DEFINE m == Head(c2s)
           chunks == IF m.own THEN Chunks(list) ELSE <<>>
           some == chunks \o <<Select(selected)>>
<1>1. Handle("Sync") /\ Answer(some) /\ UNCHANGED <<list, selected, aborted, unanswered>>
  BY DEF PlaylistSync, Locked, server
<1>2. c2s # <<>> /\ m.op = "Sync" /\ c2s' = Tail(c2s) /\ list \in Seq(Item) /\ selected \in Int
  BY <1>1 DEF Handle, CopyInv, TypeInv
<1>3. m \in Message /\ (Unsynced <=> m = Sync(TRUE))
  BY <1>2, Taken DEF CopyInv
<1>4. chunks \in Seq(Message) /\ Leads(~stale', Known, chunks, list)
  <2>1. CASE m.own
    <3>1. Known = <<>>
      BY <1>2, <1>3, <2>1, MessageFields DEF Known
    <3>2. Chunks(list) \in Seq(Message) /\ Leads(~stale', <<>>, Chunks(list), <<>> \o list)
      BY <1>2, EmptySeq, LeadsChunks
    <3>3. <<>> \o list = list
      BY <1>2, ConcatEmptySeq
    <3>4. QED
      BY <2>1, <3>1, <3>2, <3>3
  <2>2. CASE ~m.own
    <3>1. m # Sync(TRUE)
      BY <2>2 DEF Sync
    <3>2. Known = list
      BY <1>3, <3>1 DEF Known
    <3>3. QED
      BY <1>2, <2>2, <3>2, EmptySeq, LeadsNothing
  <2>3. QED
    BY <2>1, <2>2
<1> HIDE DEF chunks
<1>5. <<Select(selected)>> \in Seq(Message) /\ (Alone' => Leads(~stale', list, <<Select(selected)>>, list))
  <2>1. Select(selected) \in Message /\ Select(selected).op = "Select" /\ Select(selected).pos = selected
    BY <1>2, Messages DEF Select
  <2>2. ASSUME Alone', ~stale' PROVE selected \in Index(list) \cup {0}
    BY <1>1, <2>2 DEF Alone, PlaylistSync, Handle, view
  <2>3. ASSUME Alone' PROVE Leads(~stale', list, <<Select(selected)>>, list)
    BY <1>2, <2>1, <2>2, <2>3, Harmless
  <2>4. QED
    BY <2>1, <2>3
<1>6. some \in Seq(Message) /\ (Alone' => Leads(~stale', Known, some, list))
  BY <1>4, <1>5, ConcatProperties, LeadsConcat
<1>7. list' \in Seq(Item) /\ aborted' \in BOOLEAN /\ selected' \in Int /\ unanswered' \in BOOLEAN
      /\ stale' \in BOOLEAN /\ list' = list /\ (stale => stale')
  BY <1>1 DEF CopyInv, TypeInv, PlaylistSync
<1> HIDE DEF some
<1>8. QED
  BY <1>1, <1>6, <1>7, Handled

(* Selecting sends nothing.                                                *)
LEMMA SelectStep == ASSUME CopyInv, PlaylistSelect PROVE CopyInv'
<1>1. Handle("Select") /\ UNCHANGED <<list, aborted, buffer, reply, composed, s2c, unanswered, stale>>
  BY DEF PlaylistSelect
<1>2. /\ Known = list /\ list \in Seq(Item) /\ Head(c2s) \in Message /\ Head(c2s).op = "Select"
      /\ selected \in Int /\ aborted \in BOOLEAN /\ s2c \in Seq(Message)
      /\ unanswered \in BOOLEAN /\ stale \in BOOLEAN
  BY <1>1, HandlersKnow
<1>3. selected' \in Int
  <2>1. Head(c2s).pos \in Int
    BY <1>2, MessageFields
  <2>2. QED
    BY <1>2, <2>1 DEF PlaylistSelect
<1>4. Answer(<<>>)
  <2>1. s2c \o <<>> = s2c
    BY <1>2, ConcatEmptySeq
  <2>2. QED
    BY <1>1, <2>1 DEF Answer, Deliver
<1>5. <<>> \in Seq(Message) /\ Leads(~stale', list, <<>>, list)
  BY <1>2, EmptySeq, LeadsNothing
<1>6. QED
  BY <1>1, <1>2, <1>3, <1>4, <1>5, Handled

(* Playing, whether it is answered or not.                                 *)
LEMMA PlayStep == ASSUME CopyInv, PlaylistPlay PROVE CopyInv'
<1>1. Handle("Play") /\ UNCHANGED <<list, selected, aborted, stale>>
  BY DEF PlaylistPlay, Locked, server
<1>2. /\ Known = list /\ list \in Seq(Item) /\ Head(c2s) \in Message /\ Head(c2s).op = "Play"
      /\ selected \in Int /\ aborted \in BOOLEAN /\ up \in BOOLEAN
      /\ unanswered \in BOOLEAN /\ stale \in BOOLEAN
  BY <1>1, HandlersKnow
<1> DEFINE play == Play(Head(c2s).pos)
<1>3. /\ play \in Message /\ play.op = "Play" /\ ItemInfo \in Message /\ ItemInfo.op = "ItemInfo"
  <2>1. Head(c2s).pos \in Int
    BY <1>2, MessageFields
  <2>2. QED
    BY <2>1, Messages DEF Play, ItemInfo
<1> HIDE DEF play
<1>4. ASSUME NEW some \in Seq(Message), Leads(~stale', list, some, list), Answer(some) PROVE CopyInv'
  <2>1. unanswered' \in BOOLEAN /\ selected' \in Int /\ aborted' \in BOOLEAN /\ stale' \in BOOLEAN
        /\ list' \in Seq(Item) /\ list' = list
    BY <1>1, <1>2 DEF PlaylistPlay
  <2>2. QED
    BY <1>1, <1>2, <1>4, <2>1, Handled
<1>5. <<play>> \in Seq(Message) /\ Leads(~stale', list, <<play>>, list)
  BY <1>2, <1>3, Harmless
<1>6. <<ItemInfo>> \in Seq(Message) /\ Leads(~stale', list, <<ItemInfo>>, list)
  BY <1>2, <1>3, Harmless
<1>7. <<ItemInfo, play>> \in Seq(Message) /\ Leads(~stale', list, <<ItemInfo, play>>, list)
  <2>1. <<ItemInfo, play>> = <<ItemInfo>> \o <<play>>
    OBVIOUS
  <2>2. <<ItemInfo>> \o <<play>> \in Seq(Message) /\ Leads(~stale', list, <<ItemInfo>> \o <<play>>, list)
    BY <1>5, <1>6, ConcatProperties, LeadsConcat
  <2>3. QED
    BY <2>1, <2>2
<1>8. <<>> \in Seq(Message) /\ Leads(~stale', list, <<>>, list)
  BY <1>2, EmptySeq, LeadsNothing
<1>9. Answer(<<ItemInfo, play>>) \/ Answer(<<play>>) \/ Answer(<<>>)
  BY DEF PlaylistPlay, play
<1>10. QED
  BY <1>4, <1>5, <1>7, <1>8, <1>9

(* Appending: what was loaded, in chunks.                                  *)
LEMMA AppendStep == ASSUME CopyInv, PlaylistAppend PROVE CopyInv'
<1>1. Handle("Append") /\ UNCHANGED <<selected, aborted, unanswered, stale>>
  BY DEF PlaylistAppend, Locked
<1>2. /\ Known = list /\ list \in Seq(Item) /\ Head(c2s) \in Message /\ Head(c2s).op = "Append"
      /\ selected \in Int /\ aborted \in BOOLEAN /\ unanswered \in BOOLEAN /\ stale \in BOOLEAN
  BY <1>1, HandlersKnow
<1> DEFINE new == Head(c2s).items
<1>3. new \in Seq(Item)
  BY <1>2, MessageFields
<1>4. (list' = list \o new /\ Answer(Chunks(new))) \/ (list' = list /\ Answer(<<>>))
  BY DEF PlaylistAppend
<1> HIDE DEF new
<1>5. /\ Chunks(new) \in Seq(Message) /\ Leads(~stale', list, Chunks(new), list \o new) /\ list \o new \in Seq(Item)
      /\ <<>> \in Seq(Message) /\ Leads(~stale', list, <<>>, list)
  BY <1>2, <1>3, LeadsChunks, LeadsNothing, ConcatProperties, EmptySeq
<1>6. CASE list' = list \o new /\ Answer(Chunks(new))
  BY <1>1, <1>2, <1>5, <1>6, Handled
<1>7. CASE list' = list /\ Answer(<<>>)
  BY <1>1, <1>2, <1>5, <1>7, Handled
<1>8. QED
  BY <1>4, <1>6, <1>7

(* Removing, moving and clearing keep their reply for after the unlock.    *)
LEMMA UnlockedStep ==
  ASSUME CopyInv, RequestInv, NEW op \in {"Remove", "Move", "Clear"}, Handle(op),
         AnswerUnlocked(Head(c2s)), list' = Applied(list, Head(c2s)), selected' = selected, aborted' \in BOOLEAN
  PROVE  CopyInv'
<1> DEFINE m == Head(c2s)
<1>1. /\ Known = list /\ list \in Seq(Item) /\ m \in Message
      /\ selected \in Int /\ unanswered \in BOOLEAN /\ stale \in BOOLEAN
  BY HandlersKnow
<1>2. reply' = <<m>> /\ UNCHANGED <<buffer, composed, s2c>> /\ UNCHANGED <<unanswered, stale>>
  BY DEF AnswerUnlocked
<1> HIDE DEF m
<1>3. <<m>> \in Seq(Message) /\ Len(<<m>>) = 1 /\ (Alone' => Leads(~stale', list, <<m>>, Applied(list, m)))
  <2>1. ASSUME Alone', ~stale' PROVE Fits(list, m)
    <3>1. Calm
      BY <1>2, <2>1 DEF Calm, Alone, Handle, view
    <3>2. m.op = "Move" => m.pos \in Index(list)
      BY <3>1, FirstFits DEF Handle, m, CopyInv, TypeInv
    <3>3. m.op # "Select"
      BY DEF Handle, m
    <3>4. QED
      BY <3>2, <3>3 DEF Fits
  <2>2. ASSUME Alone' PROVE Leads(~stale', list, <<m>>, Applied(list, m))
    BY <1>1, <2>1, <2>2, LeadsOne
  <2>3. <<m>> \in Seq(Message) /\ Len(<<m>>) = 1
    BY <1>1
  <2>4. QED
    BY <2>2, <2>3
<1>4. list' = Applied(list, m) /\ list' \in Seq(Item)
  BY <1>1, AppliedType DEF m
<1>5. QED
  BY <1>1, <1>2, <1>3, <1>4, Handled

(* The three of them.                                                      *)
LEMMA RemoveMoveClearStep == ASSUME CopyInv, RequestInv, PlaylistRemove \/ PlaylistMove \/ PlaylistClear PROVE CopyInv'
<1> DEFINE m == Head(c2s)
<1>1. CASE PlaylistRemove
  <2>1. Handle("Remove") /\ AnswerUnlocked(m) /\ selected' = selected /\ aborted' = aborted
        /\ list' = IF m.pos \in Index(list) THEN RemoveAt(list, m.pos + 1) ELSE list
    BY <1>1 DEF PlaylistRemove, Locked
  <2>2. list' = Applied(list, m)
    BY <2>1 DEF Handle, Applied
  <2>3. aborted' \in BOOLEAN
    BY <2>1 DEF CopyInv, TypeInv
  <2>4. QED
    BY <2>1, <2>2, <2>3, UnlockedStep
<1>2. CASE PlaylistMove
  <2>1. Handle("Move") /\ AnswerUnlocked(m) /\ selected' = selected /\ list' = Moved(list, m.pos, m.dir)
        /\ aborted' \in BOOLEAN
    BY <1>2 DEF PlaylistMove, Locked
  <2>2. m \in Message /\ m.op = "Move" /\ list \in Seq(Item)
    BY <2>1, HandlersKnow
  <2>3. list' = Applied(list, m)
    BY <2>1, <2>2, MovedIsApplied
  <2>4. QED
    BY <2>1, <2>3, UnlockedStep
<1>3. CASE PlaylistClear
  <2>1. Handle("Clear") /\ AnswerUnlocked(m) /\ selected' = selected /\ aborted' = aborted /\ list' = <<>>
    BY <1>3 DEF PlaylistClear, Locked
  <2>2. list' = Applied(list, m)
    BY <2>1 DEF Handle, Applied
  <2>3. aborted' \in BOOLEAN
    BY <2>1 DEF CopyInv, TypeInv
  <2>4. QED
    BY <2>1, <2>2, <2>3, UnlockedStep
<1>4. QED
  BY <1>1, <1>2, <1>3

(* Composing a kept reply, and news.                                       *)
LEMMA ComposeStep == ASSUME CopyInv, ReplyCompose \/ NewsCompose PROVE CopyInv'
<1>1. /\ UNCHANGED <<list, selected, aborted, reply, c2s, s2c, up, mirror, cursor, waitReply>>
      /\ UNCHANGED <<edited, unanswered, early, stale>>
  BY DEF ReplyCompose, NewsCompose, server, pipes, view
<1>2. /\ TypeInv /\ AskedInv /\ BufferInv /\ GoneInv /\ Following
  BY DEF CopyInv
<1>3. /\ buffer' \in Seq(Message) /\ Len(buffer') <= 1 /\ (composed' => reply # <<>>)
      /\ composed' \in BOOLEAN /\ news' \in BOOLEAN /\ clobbered' \in BOOLEAN
      /\ (clobbered => clobbered') /\ BufferInv'
  <2>1. CASE ReplyCompose
    <3>1. reply # <<>> /\ ~composed /\ buffer' = reply /\ composed' = TRUE /\ clobbered' = (clobbered \/ news)
          /\ news' = news /\ reply' = reply
      BY <2>1 DEF ReplyCompose
    <3>2. BufferInv'
      BY <1>2, <3>1 DEF BufferInv, TypeInv
    <3>3. QED
      BY <1>2, <3>1, <3>2 DEF TypeInv
  <2>2. CASE NewsCompose
    <3>1. ~news /\ news' = TRUE /\ buffer' = <<ItemInfo>> /\ clobbered' = (clobbered \/ composed)
          /\ composed' = composed /\ reply' = reply
      BY <2>2 DEF NewsCompose
    <3>2. BufferInv'
      BY <1>2, <3>1 DEF BufferInv, TypeInv, ItemInfo
    <3>3. <<ItemInfo>> \in Seq(Message) /\ Len(<<ItemInfo>>) = 1
      BY Messages
    <3>4. QED
      BY <1>2, <3>1, <3>2, <3>3 DEF TypeInv
  <2>3. QED
    BY <2>1, <2>2
<1>4. TypeInv'
  BY <1>1, <1>2, <1>3 DEF TypeInv
<1>5. Unsynced' = Unsynced /\ Known' = Known /\ (Alone' => Alone)
  BY <1>1, <1>3 DEF Unsynced, Known, Alone, Sync
<1>6. AskedInv' /\ GoneInv'
  BY <1>1, <1>2, <1>5 DEF AskedInv, GoneInv, Sync
<1>7. Following'
  BY <1>1, <1>2, <1>5 DEF Following
<1>8. QED
  BY <1>3, <1>4, <1>6, <1>7 DEF CopyInv

(* Sending a kept reply: what was kept, unless the buffer was overwritten. *)
LEMMA ReplySendStep == ASSUME CopyInv, ReplySend PROVE CopyInv'
<1>1. /\ UNCHANGED <<list, selected, aborted, news, c2s, up, mirror, cursor, waitReply>>
      /\ UNCHANGED <<edited, clobbered, unanswered, early, stale>>
      /\ composed /\ reply' = <<>> /\ composed' = FALSE /\ s2c' = (IF up THEN s2c \o buffer ELSE s2c)
      /\ buffer' = IF news THEN buffer ELSE <<>>
  BY DEF ReplySend, server, view, history, Deliver
<1>2. /\ TypeInv /\ AskedInv /\ BufferInv /\ GoneInv /\ Following
  BY DEF CopyInv
<1>3. s2c' \in Seq(Message) /\ <<>> \in Seq(Message) /\ Len(<<>>) = 0
  <2>1. s2c \o buffer \in Seq(Message) /\ s2c \in Seq(Message)
    BY <1>2, ConcatProperties DEF TypeInv
  <2>2. QED
    BY <1>1, <2>1, EmptySeq
<1>4. /\ buffer' \in Seq(Message) /\ Len(buffer') <= 1 /\ reply' \in Seq(Message) /\ Len(reply') <= 1
      /\ composed' \in BOOLEAN /\ (composed' => reply' # <<>>)
  <2>1. buffer' \in Seq(Message) /\ Len(buffer') <= 1
    BY <1>1, <1>2, <1>3 DEF TypeInv
  <2>2. reply' \in Seq(Message) /\ Len(reply') <= 1
    BY <1>1, <1>3
  <2>3. composed' \in BOOLEAN /\ ~composed'
    BY <1>1
  <2>4. QED
    BY <2>1, <2>2, <2>3
<1>5. TypeInv'
  BY <1>1, <1>2, <1>3, <1>4 DEF TypeInv
<1>6. BufferInv' /\ GoneInv'
  BY <1>1, <1>2 DEF BufferInv, GoneInv, ItemInfo
<1>7. Unsynced' = Unsynced /\ Known' = Known /\ Alone' = Alone
  BY <1>1 DEF Unsynced, Known, Alone, Sync
<1>8. AskedInv'
  BY <1>1, <1>2, <1>7 DEF AskedInv, Sync
<1>9. Following'
  <2>1. Alone' => s2c' \o reply' = s2c \o reply
    <3>1. Alone' => up /\ buffer = reply
      BY <1>1, <1>2 DEF Alone, BufferInv
    <3>2. s2c' \o <<>> = s2c'
      BY <1>3, ConcatEmptySeq
    <3>3. QED
      BY <1>1, <3>1, <3>2
  <2>2. QED
    BY <1>1, <1>2, <1>7, <2>1 DEF Following
<1>10. QED
  BY <1>5, <1>6, <1>8, <1>9 DEF CopyInv

(* Sending news, before a kept reply.                                      *)
LEMMA NewsSendStep == ASSUME CopyInv, NewsSend PROVE CopyInv'
<1>1. /\ UNCHANGED <<list, selected, aborted, reply, composed, c2s, up, mirror, cursor, waitReply>>
      /\ UNCHANGED <<edited, clobbered, unanswered, early, stale>>
      /\ news /\ news' = FALSE /\ s2c' = (IF up THEN s2c \o buffer ELSE s2c)
      /\ buffer' = IF composed THEN buffer ELSE <<>>
  BY DEF NewsSend, server, view, history, Deliver
<1>2. /\ TypeInv /\ AskedInv /\ BufferInv /\ GoneInv /\ Following
  BY DEF CopyInv
<1>3. s2c' \in Seq(Message) /\ <<>> \in Seq(Message) /\ Len(<<>>) = 0
  <2>1. s2c \o buffer \in Seq(Message) /\ s2c \in Seq(Message)
    BY <1>2, ConcatProperties DEF TypeInv
  <2>2. QED
    BY <1>1, <2>1, EmptySeq
<1>4. buffer' \in Seq(Message) /\ Len(buffer') <= 1
  BY <1>1, <1>2, <1>3 DEF TypeInv
<1>5. TypeInv'
  BY <1>1, <1>2, <1>3, <1>4 DEF TypeInv
<1>6. BufferInv' /\ GoneInv'
  BY <1>1, <1>2 DEF BufferInv, GoneInv, ItemInfo
<1>7. Unsynced' = Unsynced /\ Known' = Known /\ Alone' = Alone
  BY <1>1 DEF Unsynced, Known, Alone, Sync
<1>8. AskedInv'
  BY <1>1, <1>2, <1>7 DEF AskedInv, Sync
<1>9. Following'
  <2>1. SUFFICES ASSUME Alone PROVE Leads(~stale, mirror, s2c' \o reply, Known)
    BY <1>1, <1>7 DEF Following
  <2>2. s2c \in Seq(Message) /\ reply \in Seq(Message)
    BY <1>2 DEF TypeInv
  <2>3. PICK t \in Seq(Item) : Leads(~stale, mirror, s2c, t) /\ Leads(~stale, t, reply, Known)
    BY <1>2, <2>1, <2>2, LeadsCut DEF Following
  <2>4. ItemInfo \in Message /\ ItemInfo.op = "ItemInfo"
    BY Messages DEF ItemInfo
  <2>5. <<ItemInfo>> \in Seq(Message) /\ Leads(~stale, t, <<ItemInfo>>, t)
    BY <2>4, Harmless
  <2>6. s2c' = s2c \o <<ItemInfo>>
    BY <1>1, <1>2, <2>1 DEF Alone, BufferInv
  <2>7. Leads(~stale, mirror, s2c \o <<ItemInfo>>, t)
    BY <2>2, <2>3, <2>5, LeadsConcat
  <2>8. QED
    BY <1>3, <2>2, <2>3, <2>6, <2>7, LeadsConcat
<1>10. QED
  BY <1>5, <1>6, <1>8, <1>9 DEF CopyInv

(* A slot applies the first message of the pipe to the copy.               *)
LEMMA Shown ==
  ASSUME CopyInv, up, s2c # <<>>, s2c' = Tail(s2c), mirror' = Applied(mirror, Head(s2c)),
         UNCHANGED <<list, selected, buffer, reply, composed, news, up>>,
         UNCHANGED <<edited, clobbered, unanswered, early, stale>>,
         aborted' \in BOOLEAN, aborted => aborted', cursor' \in Int, waitReply' \in BOOLEAN,
         c2s' = c2s \/ Request(Select(cursor'))
  PROVE  CopyInv'
<1>1. /\ TypeInv /\ AskedInv /\ BufferInv /\ GoneInv /\ Following
  BY DEF CopyInv
<1>2. s2c \in Seq(Message) /\ reply \in Seq(Message) /\ mirror \in Seq(Item) /\ c2s \in Seq(Message)
  BY <1>1 DEF TypeInv
<1>3. Head(s2c) \in Message /\ s2c' \in Seq(Message)
  BY <1>2, HeadTailProperties
<1>4. mirror' \in Seq(Item)
  BY <1>2, <1>3, AppliedType
<1>5. c2s' \in Seq(Message) /\ AskedInv' /\ Unsynced' = Unsynced
  <2>1. CASE c2s' = c2s
    BY <1>1, <1>2, <2>1 DEF AskedInv, Unsynced, Sync
  <2>2. CASE Request(Select(cursor'))
    <3>1. Select(cursor') \in Message /\ Select(cursor').op # "Sync"
      BY Messages DEF Select
    <3>2. QED
      BY <1>1, <2>2, <3>1, Requested
  <2>3. QED
    BY <2>1, <2>2
<1>6. TypeInv'
  BY <1>1, <1>3, <1>4, <1>5 DEF TypeInv
<1>7. BufferInv' /\ GoneInv'
  BY <1>1 DEF BufferInv, GoneInv, ItemInfo
<1>8. Known' = Known /\ (Alone' => Alone)
  BY <1>1, <1>5, <1>6 DEF Known, Alone, TypeInv
<1>9. Following'
  <2>1. SUFFICES ASSUME Alone PROVE Leads(~stale, mirror', s2c' \o reply, Known)
    BY <1>8 DEF Following
  <2>2. QED
    BY <1>1, <1>2, <2>1, LeadsRest DEF Following
<1>10. QED
  BY <1>5, <1>6, <1>7, <1>9 DEF CopyInv

(* All slots.                                                              *)
LEMMA ShowStep == ASSUME CopyInv, Show PROVE CopyInv'
<1> DEFINE m == Head(s2c)
<1>1. /\ mirror \in Seq(Item) /\ cursor \in Int /\ waitReply \in BOOLEAN /\ aborted \in BOOLEAN
      /\ s2c \in Seq(Message)
  BY DEF CopyInv, TypeInv
<1>2. /\ up /\ s2c # <<>> /\ s2c' = Tail(s2c)
      /\ UNCHANGED <<list, selected, buffer, reply, composed, news, up>>
      /\ UNCHANGED <<edited, clobbered, unanswered, early, stale>>
      /\ ~aborted
  BY DEF Show, SlotSelect, SlotPlay, SlotAppend, SlotRemove, SlotMove, SlotClear, IgnoreNews,
         Receive, server, session, history
<1>3. m \in Message
  BY <1>1, <1>2, HeadTailProperties
<1>4. mirror' = Applied(mirror, m)
  <2>1. CASE SlotSelect
    BY <2>1 DEF SlotSelect, Receive, Applied
  <2>2. CASE SlotPlay
    BY <2>2 DEF SlotPlay, Receive, Applied
  <2>3. CASE SlotAppend
    BY <2>3 DEF SlotAppend, Receive, Applied
  <2>4. CASE SlotRemove
    BY <2>4 DEF SlotRemove
  <2>5. CASE SlotMove
    BY <2>5 DEF SlotMove
  <2>6. CASE SlotClear
    BY <2>6 DEF SlotClear, Receive, Applied
  <2>7. CASE IgnoreNews
    BY <2>7 DEF IgnoreNews, Receive, Applied
  <2>8. QED
    BY <2>1, <2>2, <2>3, <2>4, <2>5, <2>6, <2>7 DEF Show
<1>5. mirror' \in Seq(Item) /\ Len(mirror') \in Nat
  <2>1. mirror' \in Seq(Item)
    BY <1>1, <1>3, <1>4, AppliedType
  <2>2. QED
    BY <2>1, LenProperties
<1>6. /\ cursor' \in Int /\ waitReply' \in BOOLEAN /\ aborted' \in BOOLEAN
      /\ (c2s' = c2s \/ Request(Select(cursor')))
  <2>1. CASE SlotSelect
    <3>1. m.pos \in Int
      BY <1>3, <2>1, MessageFields DEF SlotSelect, Receive
    <3>2. QED
      BY <1>1, <2>1, <3>1 DEF SlotSelect, Receive, server
  <2>2. CASE SlotPlay \/ SlotAppend \/ IgnoreNews
    <3>1. /\ cursor' = cursor /\ (waitReply' = waitReply \/ waitReply' = FALSE)
          /\ c2s' = c2s /\ aborted' = aborted
      BY <2>2 DEF SlotPlay, SlotAppend, IgnoreNews, Receive, server
    <3>2. waitReply' \in BOOLEAN
      BY <1>1, <3>1
    <3>3. QED
      BY <1>1, <3>1, <3>2
  <2>3. CASE SlotRemove
    <3>1. /\ cursor' \in {Len(mirror') - 1, cursor} /\ waitReply' = FALSE /\ Request(Select(cursor'))
          /\ aborted' = aborted
      BY <2>3 DEF SlotRemove, Receive, server
    <3>2. cursor' \in Int
      BY <1>1, <1>5, <3>1
    <3>3. waitReply' \in BOOLEAN
      BY <3>1
    <3>4. QED
      BY <1>1, <3>1, <3>2, <3>3
  <2>4. CASE SlotMove
    <3>1. m.pos \in Int
      BY <1>3, <2>4, MessageFields DEF SlotMove
    <3>2. /\ cursor' \in {m.pos + 1, m.pos - 1, cursor} /\ waitReply' = FALSE /\ Request(Select(cursor'))
          /\ aborted' \in BOOLEAN
      BY <1>1, <2>4 DEF SlotMove
    <3>3. cursor' \in Int
      BY <1>1, <3>1, <3>2
    <3>4. waitReply' \in BOOLEAN
      BY <3>2
    <3>5. QED
      BY <3>2, <3>3, <3>4
  <2>5. CASE SlotClear
    <3>1. cursor' = 0 /\ waitReply' = FALSE /\ Request(Select(cursor')) /\ aborted' = aborted
      BY <2>5 DEF SlotClear, Receive, server
    <3>2. cursor' \in Int
      BY <3>1
    <3>3. waitReply' \in BOOLEAN
      BY <3>1
    <3>4. QED
      BY <1>1, <3>1, <3>2, <3>3
  <2>6. QED
    BY <2>1, <2>2, <2>3, <2>4, <2>5 DEF Show
<1>7. QED
  BY <1>2, <1>4, <1>6, Shown

(* Coming and going, and what others do.                                   *)
LEMMA ComeAndGo == ASSUME CopyInv, Connect \/ Quit \/ LoseRest \/ OthersEdit PROVE CopyInv'
<1>1. /\ TypeInv /\ AskedInv /\ BufferInv /\ GoneInv /\ Following
  BY DEF CopyInv
<1>2. <<>> \in Seq(Message) /\ <<>> \in Seq(Item) /\ Len(<<>>) = 0
  BY EmptySeq
<1>3. CASE Connect
  <2>1. /\ ~up /\ reply = <<>> /\ ~news /\ c2s' = [i \in 1 .. Syncs |-> Sync(i = 1)]
        /\ UNCHANGED <<list, selected, aborted, buffer, reply, composed, news, s2c, mirror, cursor, waitReply>>
        /\ up' = TRUE
        /\ edited' = FALSE /\ clobbered' = FALSE /\ unanswered' = FALSE /\ early' = FALSE /\ stale' = FALSE
    BY <1>3 DEF Connect, NoHistory, server, session
  <2>2. s2c = <<>> /\ mirror = <<>> /\ ~composed
    BY <1>1, <2>1 DEF GoneInv, TypeInv
  <2>3. Syncs \in Nat \ {0}
    BY BoundsAssumption
  <2>4. /\ c2s' \in Seq(Message) /\ Len(c2s') = Syncs /\ c2s'[1] = Sync(TRUE)
        /\ \A k \in 2 .. Syncs : c2s'[k] = Sync(FALSE)
    <3>1. \A i \in 1 .. Syncs : Sync(i = 1) \in Message
      BY Messages
    <3>2. 1 \in 1 .. Syncs /\ (1 = 1) = TRUE /\ \A k \in 2 .. Syncs : k \in 1 .. Syncs /\ (k = 1) = FALSE
      BY <2>3
    <3>3. /\ c2s' \in Seq(Message) /\ Len(c2s') = Syncs
          /\ \A k \in 1 .. Syncs : c2s'[k] = Sync(k = 1)
      BY <2>1, <2>3, <3>1
    <3>4. QED
      BY <3>2, <3>3
  <2>5. Sync(FALSE) # Sync(TRUE)
    BY DEF Sync
  <2>6. c2s' # <<>>
    BY <1>2, <2>3, <2>4
  <2>7. Unsynced'
    BY <2>4, <2>6 DEF Unsynced, Sync
  <2>8. \A k \in 2 .. Len(c2s') : c2s'[k] # Sync(TRUE)'
    BY <2>4, <2>5 DEF Sync
  <2>9. AskedInv'
    BY <2>1, <2>8 DEF AskedInv
  <2>10. TypeInv'
    BY <1>1, <2>1, <2>4 DEF TypeInv
  <2>11. BufferInv' /\ GoneInv'
    BY <2>1, <2>2 DEF BufferInv, GoneInv
  <2>12. Following'
    <3>1. s2c' \o reply' = <<>> /\ mirror' = <<>> /\ Known' = <<>>
      <4>1. <<>> \o <<>> = <<>>
        BY <1>2, ConcatEmptySeq
      <4>2. QED
        BY <2>1, <2>2, <2>7, <4>1 DEF Known
    <3>2. Leads(~stale', <<>>, <<>>, <<>>)
      BY <1>2, LeadsNothing
    <3>3. QED
      BY <3>1, <3>2 DEF Following
  <2>13. QED
    BY <2>9, <2>10, <2>11, <2>12 DEF CopyInv
<1>4. CASE Quit
  <2>1. /\ up' = FALSE /\ mirror' = <<>> /\ cursor' = 0 /\ waitReply' = FALSE /\ s2c' = <<>>
        /\ UNCHANGED <<list, selected, aborted, buffer, reply, composed, news, c2s>>
        /\ UNCHANGED <<edited, clobbered, unanswered, early, stale>>
    BY <1>4 DEF Quit, server, session, history
  <2>2. TypeInv'
    <3>1. cursor' \in Int
      BY <2>1
    <3>2. up' \in BOOLEAN /\ waitReply' \in BOOLEAN
      BY <2>1
    <3>3. QED
      BY <1>1, <1>2, <2>1, <3>1, <3>2 DEF TypeInv
  <2>3. BufferInv' /\ GoneInv' /\ AskedInv'
    BY <1>1, <2>1 DEF BufferInv, GoneInv, AskedInv, Unsynced, Sync, ItemInfo
  <2>4. Following'
    BY <2>1 DEF Following, Alone
  <2>5. QED
    BY <2>2, <2>3, <2>4 DEF CopyInv
<1>5. CASE LoseRest
  <2>1. /\ ~up /\ c2s' = <<>>
        /\ UNCHANGED <<list, selected, aborted, buffer, reply, composed, news, s2c>>
        /\ UNCHANGED <<up, mirror, cursor, waitReply, edited, clobbered, unanswered, early, stale>>
    BY <1>5 DEF LoseRest, server, session, view, history
  <2>2. TypeInv'
    BY <1>1, <1>2, <2>1 DEF TypeInv
  <2>3. AskedInv'
    BY <1>2, <2>1 DEF AskedInv, Unsynced
  <2>4. BufferInv' /\ GoneInv'
    BY <1>1, <2>1 DEF BufferInv, GoneInv, ItemInfo
  <2>5. Following'
    BY <2>1 DEF Following, Alone
  <2>6. QED
    BY <2>2, <2>3, <2>4, <2>5 DEF CopyInv
<1>6. CASE OthersEdit
  <2>1. /\ selected' \in {selected} \cup Index(list') /\ edited' = TRUE
        /\ UNCHANGED <<aborted, buffer, reply, composed, news, c2s, s2c>>
        /\ UNCHANGED <<up, mirror, cursor, waitReply, clobbered, unanswered, early, stale>>
    BY <1>6 DEF OthersEdit, session, pipes, view
  <2>2. list' \in Seq(Item)
    <3>1. list \in Seq(Item)
      BY <1>1 DEF TypeInv
    <3>2. CASE \E i \in Index(list) : list' = RemoveAt(list, i + 1)
      <4>1. PICK i \in Index(list) : list' = RemoveAt(list, i + 1)
        BY <3>2
      <4>2. i + 1 \in 1 .. Len(list)
        BY <3>1, LenProperties DEF Index
      <4>3. QED
        BY <3>1, <4>1, <4>2, RemoveAtType
    <3>3. CASE \E i \in Index(list), dir \in {-1, 1} : list' = Moved(list, i, dir)
      <4>1. PICK i \in Index(list), dir \in {-1, 1} : list' = Moved(list, i, dir)
        BY <3>3
      <4> DEFINE m == Move(i, dir)
      <4>2. i \in Int
        BY <3>1, LenProperties DEF Index
      <4>3. m \in Message /\ m.op = "Move" /\ m.pos = i /\ m.dir = dir
        BY <4>2, Messages DEF Move
      <4> HIDE DEF m
      <4>4. Moved(list, i, dir) = Applied(list, m)
        BY <3>1, <4>3, MovedIsApplied
      <4>5. QED
        BY <3>1, <4>1, <4>3, <4>4, AppliedType
    <3>4. CASE \E i \in Item \ ToSet(list) : list' = Append(list, i)
      BY <3>1, <3>4, AppendProperties
    <3>5. CASE list' = <<>>
      BY <1>2, <3>5
    <3>6. QED
      BY <1>6, <3>2, <3>3, <3>4, <3>5 DEF OthersEdit
  <2>3. selected' \in Int
    <3>1. Len(list') \in Nat
      BY <2>2, LenProperties
    <3>2. QED
      BY <1>1, <2>1, <3>1 DEF TypeInv, Index
  <2>4. TypeInv'
    BY <1>1, <2>1, <2>2, <2>3 DEF TypeInv
  <2>5. BufferInv' /\ GoneInv' /\ AskedInv'
    BY <1>1, <2>1 DEF BufferInv, GoneInv, AskedInv, Unsynced, Sync, ItemInfo
  <2>6. Following'
    BY <2>1 DEF Following, Alone
  <2>7. QED
    BY <2>4, <2>5, <2>6 DEF CopyInv
<1>7. QED
  BY <1>3, <1>4, <1>5, <1>6

(* A finite set can be put in a sequence.                                  *)
LEMMA SequenceOfItems == SetToSeq(Item) \in Seq(Item)
<1> DEFINE n == Cardinality(Item)
<1>1. n \in Nat /\ \E f : f \in Bijection(1 .. n, Item)
  BY ItemAssumption, FS_CardinalityType DEF ExistsBijection
<1>2. PICK f : f \in Bijection(1 .. n, Item)
  BY <1>1
<1>3. f \in [1 .. n -> Item] /\ IsInjective(f)
  BY <1>2 DEF Bijection, Injection, IsInjective
<1>4. SetToSeq(Item) \in [1 .. n -> Item]
  BY <1>3 DEF SetToSeq
<1> HIDE DEF n
<1>5. QED
  BY <1>1, <1>4
-----------------------------------------------------------------------------
(* Counting.                                                               *)

(* How many messages of some kinds a pipe holds.                           *)
Number(pipe, ops) == Cardinality({k \in DOMAIN pipe : pipe[k].op \in ops})

(* None of the kinds, none counted.                                        *)
LEMMA NumberNone ==
  ASSUME NEW Whatever, NEW ops, NEW some \in Seq(Whatever)
  PROVE  /\ Number(some, ops) \in Nat
         /\ (Number(some, ops) = 0 <=> \A k \in 1 .. Len(some) : some[k].op \notin ops)
<1> DEFINE G == {k \in DOMAIN some : some[k].op \in ops}
<1>1. DOMAIN some = 1 .. Len(some) /\ Len(some) \in Nat
  BY LenProperties
<1>2. IsFiniteSet(G)
  <2>1. IsFiniteSet(1 .. Len(some)) /\ G \subseteq 1 .. Len(some)
    BY <1>1, FS_Interval
  <2>2. QED
    BY <2>1, FS_Subset
<1>3. Cardinality(G) \in Nat /\ (Cardinality(G) = 0 <=> G = {})
  BY <1>2, FS_CardinalityType, FS_EmptySet
<1>4. G = {} <=> \A k \in 1 .. Len(some) : some[k].op \notin ops
  BY <1>1
<1>5. QED
  BY <1>3, <1>4 DEF Number

(* Counts add up.                                                          *)
LEMMA NumberConcat ==
  ASSUME NEW Whatever, NEW ops, NEW a \in Seq(Whatever), NEW b \in Seq(Whatever)
  PROVE  Number(a \o b, ops) = Number(a, ops) + Number(b, ops)
<1> DEFINE n == Len(a)
           m == Len(b)
           A == {k \in DOMAIN a : a[k].op \in ops}
           B == {k \in DOMAIN b : b[k].op \in ops}
           C == {k \in DOMAIN (a \o b) : (a \o b)[k].op \in ops}
           D == {k + n : k \in B}
<1>1. n \in Nat /\ m \in Nat /\ DOMAIN a = 1 .. n /\ DOMAIN b = 1 .. m
  BY LenProperties
<1>2. /\ DOMAIN (a \o b) = 1 .. n + m
      /\ \A k \in 1 .. n + m : (a \o b)[k] = IF k <= n THEN a[k] ELSE b[k - n]
  <2>1. a \o b \in Seq(Whatever) /\ Len(a \o b) = n + m
    BY ConcatProperties
  <2>2. QED
    BY <2>1, ConcatProperties, LenProperties
<1> HIDE DEF n, m
<1>3. A \subseteq 1 .. n /\ B \subseteq 1 .. m
  BY <1>1
<1>4. IsFiniteSet(A) /\ IsFiniteSet(B)
  <2>1. IsFiniteSet(1 .. n) /\ IsFiniteSet(1 .. m)
    BY <1>1, FS_Interval
  <2>2. QED
    BY <1>3, <2>1, FS_Subset
<1>5. C = A \cup D
  <2>1. ASSUME NEW k \in C PROVE k \in A \cup D
    <3>1. k \in 1 .. n + m /\ (a \o b)[k].op \in ops
      BY <1>2
    <3>2. CASE k <= n
      <4>1. k \in 1 .. n
        BY <1>1, <3>1, <3>2
      <4>2. QED
        BY <1>1, <1>2, <3>1, <3>2, <4>1
    <3>3. CASE ~(k <= n)
      <4>1. k - n \in 1 .. m /\ k = (k - n) + n
        BY <1>1, <3>1, <3>3
      <4>2. k - n \in B
        BY <1>1, <1>2, <3>1, <3>3, <4>1
      <4>3. QED
        BY <4>1, <4>2
    <3>4. QED
      BY <3>2, <3>3
  <2>2. ASSUME NEW k \in A PROVE k \in C
    <3>1. k \in 1 .. n + m /\ k <= n
      BY <1>1, <1>3
    <3>2. QED
      BY <1>2, <3>1
  <2>3. ASSUME NEW k \in D PROVE k \in C
    <3>1. PICK j \in B : k = j + n
      OBVIOUS
    <3>2. k \in 1 .. n + m /\ ~(k <= n) /\ k - n = j
      BY <1>1, <1>3, <3>1
    <3>3. QED
      BY <1>2, <3>1, <3>2
  <2>4. QED
    BY <2>1, <2>2, <2>3
<1>6. A \cap D = {}
  BY <1>1, <1>3
<1>7. IsFiniteSet(D) /\ Cardinality(D) = Cardinality(B)
  <2> DEFINE f == [k \in B |-> k + n]
  <2>1. f \in Bijection(B, D)
    <3>1. f \in [B -> D]
      OBVIOUS
    <3>2. \A j, k \in B : f[j] = f[k] => j = k
      BY <1>1, <1>3
    <3>3. \A k \in D : \E j \in B : f[j] = k
      OBVIOUS
    <3>4. QED
      BY <3>1, <3>2, <3>3 DEF Bijection, Injection, Surjection, IsInjective
  <2> HIDE DEF f
  <2>2. ExistsBijection(B, D)
    BY <2>1 DEF ExistsBijection
  <2>3. QED
    BY <1>4, <2>2, FS_Bijection
<1> HIDE DEF A, B, C, D
<1>8. Cardinality(A \cup D) = Cardinality(A) + Cardinality(D)
  <2>1. Cardinality(A \cup D) = Cardinality(A) + Cardinality(D) - Cardinality(A \cap D)
    BY <1>4, <1>7, FS_Union
  <2>2. Cardinality(A \cap D) = 0
    BY <1>6, FS_EmptySet
  <2>3. Cardinality(A) \in Nat /\ Cardinality(D) \in Nat
    BY <1>4, <1>7, FS_CardinalityType
  <2>4. QED
    BY <2>1, <2>2, <2>3
<1>9. QED
  BY <1>5, <1>7, <1>8 DEF Number, A, B, C

(* One message counts for one, or for none.                                *)
LEMMA NumberOne ==
  ASSUME NEW Whatever, NEW ops, NEW m \in Whatever
  PROVE  Number(<<m>>, ops) = IF m.op \in ops THEN 1 ELSE 0
<1>1. DOMAIN <<m>> = {1} /\ <<m>>[1] = m
  OBVIOUS
<1>2. CASE m.op \in ops
  <2>1. {k \in DOMAIN <<m>> : <<m>>[k].op \in ops} = {1}
    BY <1>1, <1>2
  <2>2. QED
    BY <1>2, <2>1, FS_Singleton DEF Number
<1>3. CASE m.op \notin ops
  <2>1. {k \in DOMAIN <<m>> : <<m>>[k].op \in ops} = {}
    BY <1>1, <1>3
  <2>2. QED
    BY <1>3, <2>1, FS_EmptySet DEF Number
<1>4. QED
  BY <1>2, <1>3

(* Adding a message at the end, and taking the first one.                  *)
LEMMA NumberEnds ==
  ASSUME NEW Whatever, NEW ops
  PROVE
  /\ Number(<<>>, ops) = 0
  /\ \A some \in Seq(Whatever), m \in Whatever : Number(Append(some, m), ops) = Number(some, ops) + Number(<<m>>, ops)
  /\ \A some \in Seq(Whatever) \ {<<>>} : Number(some, ops) = Number(<<Head(some)>>, ops) + Number(Tail(some), ops)
<1>1. Number(<<>>, ops) = 0
  <2>1. <<>> \in Seq(Whatever) /\ Len(<<>>) = 0
    BY EmptySeq
  <2>2. \A k \in 1 .. 0 : FALSE
    OBVIOUS
  <2>3. \A k \in 1 .. Len(<<>>) : <<>>[k].op \notin ops
    BY <2>1, <2>2
  <2>4. QED
    BY <2>1, <2>3, NumberNone
<1>2. ASSUME NEW some \in Seq(Whatever), NEW m \in Whatever
      PROVE  Number(Append(some, m), ops) = Number(some, ops) + Number(<<m>>, ops)
  <2>1. Append(some, m) = some \o <<m>>
    BY AppendIsConcat
  <2>2. <<m>> \in Seq(Whatever)
    OBVIOUS
  <2>3. QED
    BY <2>1, <2>2, NumberConcat
<1>3. ASSUME NEW some \in Seq(Whatever) \ {<<>>}
      PROVE  Number(some, ops) = Number(<<Head(some)>>, ops) + Number(Tail(some), ops)
  <2>1. /\ Head(some) \in Whatever /\ Tail(some) \in Seq(Whatever)
        /\ some = <<Head(some)>> \o Tail(some)
    BY HeadAndTail
  <2>2. <<Head(some)>> \in Seq(Whatever)
    BY <2>1
  <2>3. Number(<<Head(some)>> \o Tail(some), ops) = Number(<<Head(some)>>, ops) + Number(Tail(some), ops)
    BY <2>1, <2>2, NumberConcat
  <2>4. QED
    BY <2>1, <2>3
<1>4. QED
  BY <1>1, <1>2, <1>3

-----------------------------------------------------------------------------
(* Counting what a view waits for.                                         *)

(* It is the number of gated requests and replies.                         *)
LEMMA GatedNumber == \A pipe : GatedIn(pipe) = Number(pipe, Gated)
BY DEF GatedIn, Number

(* Nothing gated, nothing counted.                                         *)
LEMMA CountNone ==
  ASSUME NEW some \in Seq(Message)
  PROVE  /\ GatedIn(some) \in Nat
         /\ (GatedIn(some) = 0 <=> \A k \in 1 .. Len(some) : some[k].op \notin Gated)
BY NumberNone, GatedNumber

(* Counts add up.                                                          *)
LEMMA CountConcat ==
  ASSUME NEW a \in Seq(Message), NEW b \in Seq(Message)
  PROVE  GatedIn(a \o b) = GatedIn(a) + GatedIn(b)
BY NumberConcat, GatedNumber

(* One message counts for one, or for none.                                *)
LEMMA CountOne ==
  ASSUME NEW m \in Message
  PROVE  GatedIn(<<m>>) = IF m.op \in Gated THEN 1 ELSE 0
BY NumberOne, GatedNumber

(* Adding a message at the end, and taking the first one.                  *)
LEMMA CountEnds ==
  /\ GatedIn(<<>>) = 0
  /\ \A some \in Seq(Message), m \in Message : GatedIn(Append(some, m)) = GatedIn(some) + GatedIn(<<m>>)
  /\ \A some \in Seq(Message) \ {<<>>} : GatedIn(some) = GatedIn(<<Head(some)>>) + GatedIn(Tail(some))
<1>1. GatedIn(<<>>) = 0
  BY NumberEnds, GatedNumber
<1>2. ASSUME NEW some \in Seq(Message), NEW m \in Message
      PROVE  GatedIn(Append(some, m)) = GatedIn(some) + GatedIn(<<m>>)
  BY NumberEnds, GatedNumber
<1>3. ASSUME NEW some \in Seq(Message) \ {<<>>}
      PROVE  GatedIn(some) = GatedIn(<<Head(some)>>) + GatedIn(Tail(some))
  BY NumberEnds, GatedNumber
<1>4. QED
  BY <1>1, <1>2, <1>3

(* Appended items are not waited for.                                      *)
LEMMA CountChunks ==
  ASSUME NEW new \in Seq(Item)
  PROVE  Chunks(new) \in Seq(Message) /\ GatedIn(Chunks(new)) = 0
<1>1. Chunks(new) \in Seq(Message)
  <2>1. <<>> \in Seq(Item)
    BY EmptySeq
  <2>2. QED
    BY <2>1, LeadsChunks
<1>2. DOMAIN Chunks(new) = 1 .. Len(Chunks(new))
  BY <1>1, LenProperties
<1>3. \A k \in DOMAIN Chunks(new) : Chunks(new)[k].op = "Append"
  BY DEF Chunks, Append_
<1>4. \A k \in 1 .. Len(Chunks(new)) : Chunks(new)[k].op \notin Gated
  BY <1>2, <1>3 DEF Gated
<1>5. QED
  BY <1>1, <1>4, CountNone
(* A key: one request more if the view waited for none, and waits now.     *)
LEMMA KeysCount == ASSUME TypeInv, CountInv, Keys PROVE CountInv'
<1>1. /\ c2s \in Seq(Message) /\ s2c \in Seq(Message) /\ reply \in Seq(Message)
      /\ cursor \in Int /\ Len(mirror) \in Nat
  BY LenProperties DEF TypeInv
<1>2. GatedIn(c2s) \in Nat /\ GatedIn(reply) \in Nat /\ GatedIn(s2c) \in Nat
  BY <1>1, CountNone
<1>3. UNCHANGED <<reply, s2c, up, clobbered, unanswered>> /\ up
  BY DEF Keys, Scroll, ReqPlay, ReqRemove, ReqMove, ReqClear, ReqGated, SlotReqUserOpen, Key, session
<1>4. ASSUME NEW m \in Message, m.op \notin Gated, Request(m), waitReply' = waitReply PROVE CountInv'
  <2>1. GatedIn(c2s') = GatedIn(c2s) + 0
    BY <1>1, <1>4, CountEnds, CountOne DEF Request
  <2>2. Outstanding' = Outstanding
    BY <1>2, <1>3, <2>1 DEF Outstanding, GatedIn
  <2>3. QED
    BY <1>3, <1>4, <2>2 DEF CountInv
<1>5. ASSUME NEW m \in Message, m.op \in Gated, ReqGated(m) PROVE CountInv'
  <2>1. ~waitReply /\ waitReply' = TRUE /\ c2s' = Append(c2s, m)
    BY <1>5 DEF ReqGated, Request
  <2>2. GatedIn(c2s') = GatedIn(c2s) + 1
    BY <1>1, <1>5, <2>1, CountEnds, CountOne
  <2>3. Outstanding' = Outstanding + 1
    BY <1>2, <1>3, <2>2 DEF Outstanding, GatedIn
  <2>4. ~clobbered => Outstanding = 0
    BY <1>3, <2>1 DEF CountInv
  <2>5. ~clobbered => Outstanding' = 1
    BY <2>3, <2>4
  <2>6. QED
    BY <1>3, <2>1, <2>5 DEF CountInv
<1>6. CASE Scroll
  <2>1. cursor' \in Int /\ Request(Select(cursor')) /\ waitReply' = waitReply
    BY <1>1, <1>6 DEF Scroll
  <2>2. Select(cursor') \in Message /\ Select(cursor').op \notin Gated
    BY <2>1, Messages DEF Select, Gated
  <2>3. QED
    BY <1>4, <2>1, <2>2
<1>7. CASE ReqPlay
  BY <1>1, <1>5, <1>7, Messages DEF ReqPlay, Play, Gated
<1>8. CASE ReqRemove
  BY <1>1, <1>5, <1>8, Messages DEF ReqRemove, Remove_, Gated
<1>9. CASE ReqMove
  BY <1>1, <1>5, <1>9, Messages DEF ReqMove, Move, Gated
<1>10. CASE ReqClear
  BY <1>5, <1>10, Messages DEF ReqClear, Clear, Gated
<1>11. CASE SlotReqUserOpen
  <2>1. PICK i \in Item : Request(Append_(<<i>>))
    BY <1>11 DEF SlotReqUserOpen
  <2>2. Append_(<<i>>) \in Message /\ Append_(<<i>>).op \notin Gated
    <3>1. <<i>> \in Seq(Item)
      OBVIOUS
    <3>2. QED
      BY <3>1, Messages DEF Append_, Gated
  <2>3. waitReply' = waitReply
    BY <1>11 DEF SlotReqUserOpen
  <2>4. QED
    BY <1>4, <2>1, <2>2, <2>3
<1>12. QED
  BY <1>6, <1>7, <1>8, <1>9, <1>10, <1>11 DEF Keys

(* A handler that answers: with what it is asked for, or, if it is not     *)
(* waited for, with nothing that is.                                       *)
LEMMA AnswerCount ==
  ASSUME TypeInv, CountInv, NEW op, Handle(op), NEW some \in Seq(Message), Answer(some),
         \/ GatedIn(some) = GatedIn(<<Head(c2s)>>)
         \/ GatedIn(some) = 0 /\ (unanswered' \/ ~up),
         unanswered => unanswered'
  PROVE  CountInv'
<1>1. /\ c2s \in Seq(Message) \ {<<>>} /\ c2s' = Tail(c2s) /\ reply = <<>> /\ s2c \in Seq(Message)
      /\ UNCHANGED <<up, waitReply, clobbered>>
  BY DEF Handle, TypeInv, view
<1>2. reply' = <<>> /\ s2c' = IF up THEN s2c \o some ELSE s2c
  BY <1>1 DEF Answer, Deliver
<1>3. Head(c2s) \in Message /\ c2s' \in Seq(Message)
  BY <1>1, HeadAndTail
<1>4. <<Head(c2s)>> \in Seq(Message)
  BY <1>3
<1>5. /\ GatedIn(c2s) = GatedIn(<<Head(c2s)>>) + GatedIn(c2s')
      /\ GatedIn(<<Head(c2s)>>) \in Nat /\ GatedIn(c2s') \in Nat /\ GatedIn(some) \in Nat
      /\ GatedIn(s2c) \in Nat /\ GatedIn(reply) = 0 /\ GatedIn(reply') = 0
  BY <1>1, <1>2, <1>3, <1>4, CountEnds, CountNone
<1>6. GatedIn(s2c') = IF up THEN GatedIn(s2c) + GatedIn(some) ELSE GatedIn(s2c)
  BY <1>1, <1>2, CountConcat
<1>7. Outstanding' = GatedIn(c2s') + GatedIn(reply') + GatedIn(s2c')
  BY DEF Outstanding, GatedIn
<1>8. /\ Outstanding \in Nat /\ Outstanding' \in Nat /\ Outstanding' <= Outstanding
      /\ (up /\ ~unanswered' => Outstanding' = Outstanding)
  BY <1>5, <1>6, <1>7 DEF Outstanding
<1>9. QED
  BY <1>1, <1>8 DEF CountInv

(* One that keeps its reply.                                               *)
LEMMA KeptCount ==
  ASSUME TypeInv, CountInv, NEW op, Handle(op), AnswerUnlocked(Head(c2s))
  PROVE  CountInv'
<1>1. /\ c2s \in Seq(Message) \ {<<>>} /\ c2s' = Tail(c2s) /\ reply = <<>> /\ s2c \in Seq(Message)
      /\ UNCHANGED <<up, waitReply, clobbered>>
  BY DEF Handle, TypeInv, view
<1>2. reply' = <<Head(c2s)>> /\ s2c' = s2c /\ unanswered' = unanswered
  BY <1>1 DEF AnswerUnlocked
<1>3. Head(c2s) \in Message /\ c2s' \in Seq(Message)
  BY <1>1, HeadAndTail
<1>4. <<Head(c2s)>> \in Seq(Message)
  BY <1>3
<1>5. /\ GatedIn(c2s) = GatedIn(<<Head(c2s)>>) + GatedIn(c2s')
      /\ GatedIn(<<Head(c2s)>>) \in Nat /\ GatedIn(c2s') \in Nat /\ GatedIn(reply) = 0
      /\ GatedIn(s2c) \in Nat
  BY <1>1, <1>3, <1>4, CountEnds, CountNone
<1>6. Outstanding' = GatedIn(c2s') + GatedIn(<<Head(c2s)>>) + GatedIn(s2c)
  BY <1>2 DEF Outstanding, GatedIn
<1>7. Outstanding' = Outstanding
  BY <1>5, <1>6 DEF Outstanding
<1>8. QED
  BY <1>1, <1>2, <1>7 DEF CountInv

(* All handlers, and the sending of what they kept.                        *)
LEMMA ServeCount == ASSUME CopyInv, CountInv, Serve PROVE CountInv'
<1>1. /\ c2s \in Seq(Message) /\ s2c \in Seq(Message) /\ reply \in Seq(Message)
      /\ list \in Seq(Item) /\ selected \in Int /\ unanswered \in BOOLEAN /\ TypeInv /\ BufferInv
  BY DEF CopyInv, TypeInv
<1>2. ASSUME NEW op, Handle(op) PROVE Head(c2s) \in Message /\ Head(c2s).op = op
  BY <1>1, <1>2, HeadAndTail DEF Handle
<1>3. <<>> \in Seq(Message) /\ GatedIn(<<>>) = 0
  BY EmptySeq, CountEnds
<1>4. CASE PlaylistSync
  <2> DEFINE chunks == IF Head(c2s).own THEN Chunks(list) ELSE <<>>
             last == <<Select(selected)>>
  <2>1. Handle("Sync") /\ Answer(chunks \o last) /\ unanswered' = unanswered
    BY <1>4 DEF PlaylistSync, Locked
  <2>2. chunks \in Seq(Message) /\ GatedIn(chunks) = 0
    BY <1>1, <1>3, CountChunks
  <2>3. last \in Seq(Message) /\ GatedIn(last) = 0
    <3>1. Select(selected) \in Message /\ Select(selected).op \notin Gated
      BY <1>1, Messages DEF Select, Gated
    <3>2. QED
      BY <3>1, CountOne
  <2> HIDE DEF chunks, last
  <2>4. chunks \o last \in Seq(Message) /\ GatedIn(chunks \o last) = 0
    BY <2>2, <2>3, CountConcat, ConcatProperties
  <2>5. GatedIn(<<Head(c2s)>>) = 0
    <3>1. Head(c2s) \in Message /\ Head(c2s).op = "Sync"
      BY <1>2, <2>1
    <3>2. QED
      BY <3>1, CountOne DEF Gated
  <2>6. QED
    BY <1>1, <2>1, <2>4, <2>5, AnswerCount
<1>5. CASE PlaylistSelect
  <2>1. Handle("Select") /\ unanswered' = unanswered /\ UNCHANGED <<buffer, reply, composed, s2c>>
    BY <1>5 DEF PlaylistSelect
  <2>2. Answer(<<>>)
    <3>1. s2c \o <<>> = s2c
      BY <1>1, ConcatEmptySeq
    <3>2. QED
      BY <2>1, <3>1 DEF Answer, Deliver
  <2>3. GatedIn(<<Head(c2s)>>) = 0
    <3>1. Head(c2s) \in Message /\ Head(c2s).op = "Select"
      BY <1>2, <2>1
    <3>2. QED
      BY <3>1, CountOne DEF Gated
  <2>4. QED
    BY <1>1, <1>3, <2>1, <2>2, <2>3, AnswerCount
<1>6. CASE PlaylistPlay
  <2> DEFINE play == Play(Head(c2s).pos)
  <2>1. Handle("Play")
    BY <1>6 DEF PlaylistPlay, Locked
  <2>2. Head(c2s) \in Message /\ Head(c2s).op = "Play"
    BY <1>2, <2>1
  <2>3. GatedIn(<<Head(c2s)>>) = 1
    BY <2>2, CountOne DEF Gated
  <2>4. play \in Message /\ GatedIn(<<play>>) = 1 /\ <<play>> \in Seq(Message)
    <3>1. play \in Message /\ play.op \in Gated
      BY <2>2, MessageFields, Messages DEF Play, Gated
    <3>2. QED
      BY <3>1, CountOne
  <2> HIDE DEF play
  <2>5. <<ItemInfo, play>> \in Seq(Message) /\ GatedIn(<<ItemInfo, play>>) = 1
    <3>1. ItemInfo \in Message /\ ItemInfo.op \notin Gated
      BY Messages DEF ItemInfo, Gated
    <3>2. <<ItemInfo>> \in Seq(Message) /\ GatedIn(<<ItemInfo>>) = 0
      BY <3>1, CountOne
    <3>3. <<ItemInfo, play>> = <<ItemInfo>> \o <<play>>
      OBVIOUS
    <3>4. <<ItemInfo>> \o <<play>> \in Seq(Message)
      BY <2>4, <3>2, ConcatProperties
    <3>5. GatedIn(<<ItemInfo>> \o <<play>>) = GatedIn(<<ItemInfo>>) + GatedIn(<<play>>)
      BY <2>4, <3>2, CountConcat
    <3>6. GatedIn(<<ItemInfo>> \o <<play>>) = 1
      BY <2>4, <3>2, <3>5
    <3>7. QED
      BY <3>3, <3>4, <3>6
  <2>6. \/ (Answer(<<ItemInfo, play>>) \/ Answer(<<play>>)) /\ unanswered' = unanswered
        \/ Answer(<<>>) /\ unanswered' = (unanswered \/ up)
    BY <1>6 DEF PlaylistPlay, play
  <2>7. CASE Answer(<<ItemInfo, play>>) /\ unanswered' = unanswered
    BY <1>1, <2>1, <2>3, <2>5, <2>7, AnswerCount
  <2>8. CASE Answer(<<play>>) /\ unanswered' = unanswered
    BY <1>1, <2>1, <2>3, <2>4, <2>8, AnswerCount
  <2>9. CASE Answer(<<>>) /\ unanswered' = (unanswered \/ up)
    BY <1>1, <1>3, <2>1, <2>9, AnswerCount
  <2>10. QED
    BY <2>6, <2>7, <2>8, <2>9
<1>7. CASE PlaylistAppend
  <2> DEFINE new == Head(c2s).items
  <2>1. Handle("Append") /\ unanswered' = unanswered
    BY <1>7 DEF PlaylistAppend, Locked
  <2>2. Head(c2s) \in Message /\ Head(c2s).op = "Append"
    BY <1>2, <2>1
  <2>3. GatedIn(<<Head(c2s)>>) = 0 /\ new \in Seq(Item)
    BY <2>2, CountOne, MessageFields DEF Gated
  <2>4. Answer(Chunks(new)) \/ Answer(<<>>)
    BY <1>7 DEF PlaylistAppend
  <2> HIDE DEF new
  <2>5. Chunks(new) \in Seq(Message) /\ GatedIn(Chunks(new)) = 0
    BY <2>3, CountChunks
  <2>6. CASE Answer(Chunks(new))
    BY <1>1, <2>1, <2>3, <2>5, <2>6, AnswerCount
  <2>7. CASE Answer(<<>>)
    BY <1>1, <1>3, <2>1, <2>3, <2>7, AnswerCount
  <2>8. QED
    BY <2>4, <2>6, <2>7
<1>8. CASE PlaylistRemove \/ PlaylistMove \/ PlaylistClear
  <2>1. PICK op \in {"Remove", "Move", "Clear"} : Handle(op) /\ AnswerUnlocked(Head(c2s))
    BY <1>8 DEF PlaylistRemove, PlaylistMove, PlaylistClear, Locked
  <2>2. QED
    BY <1>1, <2>1, KeptCount
<1>9. CASE ReplyCompose
  <2>1. UNCHANGED <<c2s, s2c, reply, up, waitReply, unanswered>> /\ (clobbered => clobbered')
    BY <1>9 DEF ReplyCompose, pipes, view
  <2>2. QED
    BY <2>1 DEF CountInv, Outstanding, GatedIn
<1>10. CASE ReplySend
  <2>1. /\ composed /\ reply' = <<>> /\ s2c' = (IF up THEN s2c \o buffer ELSE s2c)
        /\ UNCHANGED <<c2s, up, waitReply, unanswered, clobbered>>
    BY <1>10 DEF ReplySend, Deliver, view, history
  <2>2. ~clobbered => buffer = reply
    BY <1>1, <2>1 DEF BufferInv
  <2>3. GatedIn(c2s) \in Nat /\ GatedIn(reply) \in Nat /\ GatedIn(s2c) \in Nat
    BY <1>1, CountNone
  <2>4. ~clobbered => GatedIn(s2c') = IF up THEN GatedIn(s2c) + GatedIn(reply) ELSE GatedIn(s2c)
    BY <1>1, <2>1, <2>2, CountConcat
  <2>5. Outstanding' = GatedIn(c2s) + GatedIn(reply') + GatedIn(s2c') /\ GatedIn(reply') = 0
    BY <1>3, <2>1 DEF Outstanding, GatedIn
  <2>6. ~clobbered => /\ Outstanding \in Nat /\ Outstanding' \in Nat /\ Outstanding' <= Outstanding
                      /\ (up => Outstanding' = Outstanding)
    BY <2>3, <2>4, <2>5 DEF Outstanding
  <2>7. QED
    BY <2>1, <2>6 DEF CountInv
<1>11. CASE NewsSend
  <2>1. /\ news /\ reply' = reply /\ s2c' = (IF up THEN s2c \o buffer ELSE s2c)
        /\ UNCHANGED <<c2s, up, waitReply, unanswered, clobbered>>
    BY <1>11 DEF NewsSend, Deliver, view, history
  <2>2. ~clobbered => buffer = <<ItemInfo>>
    BY <1>1, <2>1 DEF BufferInv
  <2>3. <<ItemInfo>> \in Seq(Message) /\ GatedIn(<<ItemInfo>>) = 0
    <3>1. ItemInfo \in Message /\ ItemInfo.op \notin Gated
      BY Messages DEF ItemInfo, Gated
    <3>2. QED
      BY <3>1, CountOne
  <2>4. GatedIn(s2c) \in Nat
    BY <1>1, CountNone
  <2>5. ~clobbered => GatedIn(s2c') = GatedIn(s2c)
    <3>1. GatedIn(s2c \o <<ItemInfo>>) = GatedIn(s2c) + GatedIn(<<ItemInfo>>)
      BY <1>1, <2>3, CountConcat
    <3>2. GatedIn(s2c \o <<ItemInfo>>) = GatedIn(s2c)
      BY <2>3, <2>4, <3>1
    <3>3. QED
      BY <2>1, <2>2, <3>2
  <2>6. ~clobbered => Outstanding' = Outstanding
    BY <2>1, <2>5 DEF Outstanding, GatedIn
  <2>7. QED
    BY <2>1, <2>6 DEF CountInv
<1>12. QED
  BY <1>4, <1>5, <1>6, <1>7, <1>8, <1>9, <1>10, <1>11 DEF Serve

(* A slot takes what is waited for, and ends the waiting.                  *)
LEMMA ShowCount == ASSUME TypeInv, CountInv, Show PROVE CountInv'
<1>1. /\ c2s \in Seq(Message) /\ reply \in Seq(Message) /\ s2c \in Seq(Message) \ {<<>>} /\ up
      /\ s2c' = Tail(s2c) /\ UNCHANGED <<reply, up, clobbered, unanswered>>
  BY DEF TypeInv, Show, SlotSelect, SlotPlay, SlotAppend, SlotRemove, SlotMove, SlotClear, IgnoreNews,
         Receive, session, history
<1>2. Head(s2c) \in Message /\ s2c' \in Seq(Message)
  BY <1>1, HeadAndTail
<1>3. /\ GatedIn(s2c) = GatedIn(<<Head(s2c)>>) + GatedIn(s2c')
      /\ GatedIn(s2c') \in Nat /\ GatedIn(c2s) \in Nat /\ GatedIn(reply) \in Nat
      /\ GatedIn(<<Head(s2c)>>) = IF Head(s2c).op \in Gated THEN 1 ELSE 0
  BY <1>1, <1>2, CountEnds, CountNone, CountOne
<1>4. IF Head(s2c).op \in Gated THEN waitReply' = FALSE ELSE waitReply' = waitReply
  BY DEF Show, SlotSelect, SlotPlay, SlotAppend, SlotRemove, SlotMove, SlotClear, IgnoreNews, Receive, Gated
<1>5. c2s' = c2s \/ (cursor' \in Int /\ Request(Select(cursor')))
  <2>1. cursor \in Int /\ mirror \in Seq(Item)
    BY DEF TypeInv
  <2>2. CASE SlotSelect \/ SlotPlay \/ SlotAppend \/ IgnoreNews
    BY <2>2 DEF SlotSelect, SlotPlay, SlotAppend, IgnoreNews
  <2>3. CASE SlotRemove
    <3>1. mirror' \in Seq(Item)
      BY <1>2, <2>1, <2>3, AppliedType DEF SlotRemove
    <3>2. Len(mirror') \in Nat
      BY <3>1, LenProperties
    <3>3. QED
      BY <2>1, <2>3, <3>2 DEF SlotRemove
  <2>4. CASE SlotMove
    <3>1. Head(s2c).pos \in Int
      BY <1>2, <2>4, MessageFields DEF SlotMove
    <3>2. QED
      BY <2>1, <2>4, <3>1 DEF SlotMove
  <2>5. CASE SlotClear
    BY <2>5 DEF SlotClear
  <2>6. QED
    BY <2>2, <2>3, <2>4, <2>5 DEF Show
<1>6. GatedIn(c2s') = GatedIn(c2s)
  <2>1. CASE c2s' = c2s
    BY <2>1
  <2>2. CASE cursor' \in Int /\ Request(Select(cursor'))
    <3>1. Select(cursor') \in Message /\ Select(cursor').op \notin Gated
      BY <2>2, Messages DEF Select, Gated
    <3>2. GatedIn(c2s') = GatedIn(c2s) + 0
      BY <1>1, <2>2, <3>1, CountEnds, CountOne DEF Request
    <3>3. QED
      BY <1>3, <3>2
  <2>3. QED
    BY <1>5, <2>1, <2>2
<1>7. Outstanding' = GatedIn(c2s') + GatedIn(reply) + GatedIn(s2c')
  BY <1>1 DEF Outstanding, GatedIn
<1>8. /\ Outstanding \in Nat /\ Outstanding' \in Nat
      /\ (Head(s2c).op \in Gated => Outstanding = Outstanding' + 1)
      /\ (Head(s2c).op \notin Gated => Outstanding' = Outstanding)
  BY <1>3, <1>6, <1>7 DEF Outstanding
<1>9. CASE Head(s2c).op \in Gated
  <2>1. ~clobbered => Outstanding <= 1
    BY DEF CountInv
  <2>2. ~clobbered => Outstanding' = 0
    <3>1. Outstanding \in Nat /\ Outstanding' \in Nat /\ Outstanding = Outstanding' + 1
      BY <1>8, <1>9
    <3>2. \A m, n \in Nat : m = n + 1 /\ m <= 1 => n = 0
      OBVIOUS
    <3>3. QED
      BY <2>1, <3>1, <3>2
  <2>3. ~waitReply' /\ up' /\ (clobbered' => clobbered) /\ (clobbered => clobbered')
    BY <1>1, <1>4, <1>9
  <2>4. ~clobbered' => Outstanding' = 0
    BY <2>2, <2>3
  <2>5. QED
    BY <2>3, <2>4 DEF CountInv
<1>10. CASE Head(s2c).op \notin Gated
  <2>1. Outstanding' = Outstanding
    BY <1>8, <1>10
  <2>2. /\ waitReply' = waitReply /\ up' = up
        /\ clobbered' = clobbered /\ unanswered' = unanswered
    BY <1>1, <1>4, <1>10
  <2>3. QED
    BY <2>1, <2>2 DEF CountInv
<1>11. QED
  BY <1>9, <1>10

(* Coming and going.                                                       *)
LEMMA GoCount == ASSUME CopyInv, CountInv, NewsCompose \/ Connect \/ Quit \/ LoseRest \/ OthersEdit PROVE CountInv'
<1>1. /\ c2s \in Seq(Message) /\ s2c \in Seq(Message) /\ reply \in Seq(Message) /\ GoneInv
  BY DEF CopyInv, TypeInv
<1>2. GatedIn(c2s) \in Nat /\ GatedIn(s2c) \in Nat /\ GatedIn(reply) \in Nat /\ GatedIn(<<>>) = 0
  BY <1>1, CountNone, CountEnds
<1>3. CASE NewsCompose \/ OthersEdit
  <2>1. UNCHANGED <<c2s, s2c, reply, up, waitReply, unanswered>> /\ (clobbered => clobbered')
    <3>1. CASE NewsCompose
      BY <3>1 DEF NewsCompose, pipes, view
    <3>2. CASE OthersEdit
      BY <3>2 DEF OthersEdit, pipes, view, session
    <3>3. QED
      BY <1>3, <3>1, <3>2
  <2>2. QED
    BY <2>1 DEF CountInv, Outstanding, GatedIn
<1>4. CASE Connect
  <2>1. /\ ~up /\ reply' = <<>> /\ s2c' = s2c /\ waitReply' = waitReply /\ up' = TRUE
        /\ c2s' = [i \in 1 .. Syncs |-> Sync(i = 1)]
    BY <1>4 DEF Connect, session
  <2>2. s2c' = <<>> /\ ~waitReply'
    BY <1>1, <2>1 DEF GoneInv, CountInv
  <2>3. c2s' \in Seq(Message) /\ \A k \in 1 .. Len(c2s') : c2s'[k].op \notin Gated
    <3>1. \A i \in 1 .. Syncs : Sync(i = 1) \in Message /\ Sync(i = 1).op = "Sync"
      BY Messages DEF Sync
    <3>2. Syncs \in Nat
      BY BoundsAssumption
    <3>3. c2s' \in Seq(Message) /\ Len(c2s') = Syncs
      BY <2>1, <3>1, <3>2
    <3>4. QED
      BY <2>1, <3>1, <3>3 DEF Gated
  <2>4. GatedIn(c2s') = 0
    BY <2>3, CountNone
  <2>5. Outstanding' = 0
    BY <1>2, <2>1, <2>2, <2>4 DEF Outstanding, GatedIn
  <2>6. QED
    BY <2>1, <2>2, <2>5 DEF CountInv
<1>5. CASE Quit
  <2>1. ~up' /\ ~waitReply' /\ s2c' = <<>> /\ UNCHANGED <<c2s, reply, clobbered>>
    BY <1>5 DEF Quit, session, history
  <2>2. Outstanding' = GatedIn(c2s) + GatedIn(reply) + GatedIn(<<>>)
    BY <2>1 DEF Outstanding, GatedIn
  <2>3. Outstanding \in Nat /\ Outstanding' <= Outstanding
    BY <1>2, <2>2 DEF Outstanding
  <2>4. ~clobbered => Outstanding' <= 1
    BY <1>2, <2>2, <2>3 DEF CountInv
  <2>5. QED
    BY <2>1, <2>4 DEF CountInv
<1>6. CASE LoseRest
  <2>1. ~up /\ c2s' = <<>> /\ UNCHANGED <<s2c, reply, up, waitReply, clobbered>>
    BY <1>6 DEF LoseRest, session, view, history
  <2>2. Outstanding' = GatedIn(<<>>) + GatedIn(reply) + GatedIn(s2c)
    BY <2>1 DEF Outstanding, GatedIn
  <2>3. Outstanding \in Nat /\ Outstanding' <= Outstanding
    BY <1>2, <2>2 DEF Outstanding
  <2>4. ~clobbered => Outstanding' <= 1
    BY <1>2, <2>2, <2>3 DEF CountInv
  <2>5. QED
    BY <2>1, <2>4 DEF CountInv
<1>7. QED
  BY <1>3, <1>4, <1>5, <1>6
-----------------------------------------------------------------------------
(* What is moved, and the cursor.                                          *)

(* Only Remove and Clear make a list shorter.                              *)
LEMMA AppliedGrows ==
  ASSUME NEW s \in Seq(Item), NEW m \in Message, m.op \notin {"Remove", "Clear"}
  PROVE  Len(s) <= Len(Applied(s, m)) /\ (m.op # "Append" => Len(Applied(s, m)) = Len(s))
<1>1. Len(s) \in Nat
  BY LenProperties
<1>2. CASE m.op = "Append"
  <2>1. m.items \in Seq(Item)
    BY <1>2, MessageFields
  <2>2. Len(s \o m.items) = Len(s) + Len(m.items) /\ Len(m.items) \in Nat
    BY <2>1, ConcatProperties, LenProperties
  <2>3. QED
    BY <1>1, <1>2, <2>2 DEF Applied
<1>3. CASE m.op = "Move"
  <2> DEFINE newPos == IF m.dir > 0 THEN m.pos + 1 ELSE m.pos - 1
  <2>1. newPos \in Index(s) /\ m.pos \in Index(s) => Len(Swap(s, m.pos, newPos)) = Len(s)
    BY SwapType
  <2>2. Applied(s, m) = IF newPos \in Index(s) /\ m.pos \in Index(s) THEN Swap(s, m.pos, newPos) ELSE s
    BY <1>3 DEF Applied
  <2>3. QED
    BY <1>1, <2>1, <2>2
<1>4. CASE m.op \notin {"Append", "Move"}
  BY <1>1, <1>4 DEF Applied
<1>5. QED
  BY <1>2, <1>3, <1>4

(* While nothing on its way takes items, the copy is not longer than what  *)
(* it becomes.                                                             *)
LEMMA LeadsGrows ==
  ASSUME NEW strict, NEW some \in Seq(Message), NEW s \in Seq(Item), NEW t, Leads(strict, s, some, t),
         \A k \in 1 .. Len(some) : some[k].op \notin {"Remove", "Clear"}
  PROVE  Len(s) <= Len(t)
<1>1. PICK c : Copies(strict, c, s, some) /\ c[Len(some)] = t
  BY DEF Leads
<1> DEFINE n == Len(some)
           T == {k \in 0 .. n : ~(Len(s) <= Len(c[k]))}
<1>2. n \in Nat
  BY LenProperties
<1>3. /\ c \in [0 .. n -> Seq(Item)] /\ c[0] = s /\ c[n] = t
      /\ \A k \in 1 .. n : c[k] = Applied(c[k - 1], some[k])
  BY <1>1 DEF Copies
<1>4. \A k \in 1 .. n : some[k] \in Message /\ some[k].op \notin {"Remove", "Clear"}
  OBVIOUS
<1> HIDE DEF n
<1>5. \A k \in 0 .. n : Len(c[k]) \in Nat
  BY <1>3, LenProperties
<1>6. Len(s) \in Nat
  BY LenProperties
<1>7. T = {}
  <2>1. SUFFICES ASSUME T # {} PROVE FALSE
    OBVIOUS
  <2>2. T \subseteq Nat
    BY <1>2
  <2>3. PICK k \in T : \A l \in T : k <= l
    BY <2>1, <2>2, SmallestOf
  <2>4. k \in 0 .. n /\ ~(Len(s) <= Len(c[k]))
    OBVIOUS
  <2>5. k # 0
    BY <1>3, <1>6, <2>4
  <2>6. k - 1 \in 0 .. n /\ ~(k <= k - 1) /\ k \in 1 .. n
    BY <1>2, <2>4, <2>5
  <2>7. Len(s) <= Len(c[k - 1])
    BY <2>3, <2>6
  <2>8. Len(c[k - 1]) <= Len(c[k])
    <3>1. c[k - 1] \in Seq(Item) /\ some[k] \in Message /\ some[k].op \notin {"Remove", "Clear"}
      BY <1>3, <1>4, <2>6
    <3>2. QED
      BY <1>3, <2>6, <3>1, AppliedGrows
  <2>9. QED
    BY <1>5, <1>6, <2>4, <2>6, <2>7, <2>8
<1>8. n \in 0 .. n
  BY <1>2
<1>9. QED
  BY <1>3, <1>7, <1>8

(* A request taken, added or left, of a list that is not shorter.          *)
LEMMA RequestsKept ==
  ASSUME TypeInv, RequestInv, Calm' => Calm, Calm' => Len(list) <= Len(list'), list' \in Seq(Item),
         \/ c2s' = c2s
         \/ c2s # <<>> /\ c2s' = Tail(c2s)
         \/ \E m \in Message : /\ Request(m)
                               /\ (Calm' /\ m.op = "Move" => m.pos \in Index(list))
  PROVE  RequestInv'
<1> SUFFICES ASSUME Calm', NEW k \in 1 .. Len(c2s'), c2s'[k].op = "Move"
             PROVE  c2s'[k].pos \in Index(list')
  BY DEF RequestInv, Index
<1>1. /\ c2s \in Seq(Message) /\ Len(c2s) \in Nat /\ Len(list) \in Nat /\ Len(list') \in Nat
      /\ Len(list) <= Len(list')
  BY LenProperties DEF TypeInv
<1>2. Index(list) \subseteq Index(list')
  BY <1>1 DEF Index
<1>3. \A j \in 1 .. Len(c2s) : c2s[j].op = "Move" => c2s[j].pos \in Index(list)
  BY DEF RequestInv
<1>4. CASE c2s' = c2s
  BY <1>2, <1>3, <1>4
<1>5. CASE c2s # <<>> /\ c2s' = Tail(c2s)
  <2>1. Len(c2s') = Len(c2s) - 1 /\ \A i \in 1 .. Len(c2s') : c2s'[i] = c2s[i + 1]
    BY <1>1, <1>5, HeadTailProperties
  <2>2. k + 1 \in 1 .. Len(c2s)
    BY <1>1, <2>1
  <2>3. QED
    BY <1>2, <1>3, <2>1, <2>2
<1>6. CASE \E m \in Message : Request(m) /\ (Calm' /\ m.op = "Move" => m.pos \in Index(list))
  <2>1. PICK m \in Message : Request(m) /\ (Calm' /\ m.op = "Move" => m.pos \in Index(list))
    BY <1>6
  <2>2. /\ Len(c2s') = Len(c2s) + 1 /\ c2s'[Len(c2s) + 1] = m
        /\ \A i \in 1 .. Len(c2s) : c2s'[i] = c2s[i]
    BY <1>1, <2>1, AppendProperties DEF Request
  <2>3. k \in 1 .. Len(c2s) \/ k = Len(c2s) + 1
    BY <1>1, <2>2
  <2>4. QED
    BY <1>2, <1>3, <2>1, <2>2, <2>3
<1>7. QED
  BY <1>4, <1>5, <1>6

(* A key moves an item of the copy, and the list is at least as long: no   *)
(* reply is under way that would take items from the copy.                 *)
LEMMA KeysRequest == ASSUME IInv, Keys PROVE RequestInv' /\ CursorInv'
<1>1. /\ TypeInv /\ Following /\ CountInv /\ CursorInv /\ RequestInv
      /\ c2s \in Seq(Message) /\ s2c \in Seq(Message) /\ reply \in Seq(Message)
      /\ cursor \in Int /\ mirror \in Seq(Item) /\ list \in Seq(Item) /\ Len(mirror) \in Nat /\ Len(list) \in Nat
  BY LenProperties DEF IInv, CopyInv, TypeInv
<1>2. up /\ ~aborted /\ UNCHANGED <<list, mirror, up, aborted, edited, clobbered, stale>>
  BY DEF Keys, Scroll, ReqPlay, ReqRemove, ReqMove, ReqClear, ReqGated, SlotReqUserOpen, Key, server
<1>3. Calm' = Calm
  BY <1>2 DEF Calm
<1>4. ASSUME NEW m \in Message, Request(m), Calm /\ m.op = "Move" => m.pos \in Index(list)
      PROVE  RequestInv'
  <2>1. Len(list) <= Len(list') /\ list' \in Seq(Item)
    BY <1>1, <1>2
  <2>2. QED
    BY <1>1, <1>3, <1>4, <2>1, RequestsKept
<1>5. cursor' = cursor => CursorInv'
  BY <1>1, <1>2, <1>3 DEF CursorInv, Index
<1>6. CASE Scroll
  <2>1. /\ mirror # <<>> /\ Request(Select(cursor'))
        /\ cursor' \in {IF cursor > 0 THEN cursor - 1 ELSE cursor,
                        IF cursor < Len(mirror) - 1 THEN cursor + 1 ELSE cursor,
                        0, Len(mirror) - 1}
    BY <1>6 DEF Scroll
  <2>2. cursor' \in Int /\ Len(mirror) > 0
    <3>1. Len(mirror) \in Nat \ {0}
      BY <1>1, <2>1, EmptySeq
    <3>2. QED
      BY <1>1, <2>1, <3>1
  <2>3. Calm => cursor' \in Index(mirror) \cup {0}
    BY <1>1, <1>2, <2>1, <2>2 DEF CursorInv, Index
  <2>4. CursorInv'
    BY <1>2, <1>3, <2>3 DEF CursorInv, Index
  <2>5. Select(cursor') \in Message /\ Select(cursor').op # "Move"
    BY <2>2, Messages DEF Select
  <2>6. QED
    BY <1>4, <2>1, <2>4, <2>5
<1>7. ASSUME NEW m \in Message, ReqGated(m), m.op = "Move" => m.pos = cursor
      PROVE  RequestInv' /\ CursorInv'
  <2>1. Request(m) /\ mirror # <<>> /\ ~waitReply /\ cursor' = cursor
    BY <1>7 DEF ReqGated
  <2>2. ASSUME Calm, m.op = "Move" PROVE m.pos \in Index(list)
    <3>1. Alone /\ ~clobbered
      BY <1>2, <2>2 DEF Alone, Calm
    <3>2. GatedIn(reply) = 0 /\ GatedIn(s2c) = 0
      <4>1. Outstanding = 0
        BY <1>1, <1>2, <2>1, <3>1 DEF CountInv
      <4>2. GatedIn(c2s) \in Nat /\ GatedIn(reply) \in Nat /\ GatedIn(s2c) \in Nat
        BY <1>1, CountNone
      <4>3. QED
        BY <4>1, <4>2 DEF Outstanding
    <3>3. s2c \o reply \in Seq(Message) /\ GatedIn(s2c \o reply) = 0
      BY <1>1, <3>2, CountConcat, ConcatProperties
    <3>4. Len(mirror) <= Len(Known)
      <4>1. \A k \in 1 .. Len(s2c \o reply) : (s2c \o reply)[k].op \notin {"Remove", "Clear"}
        BY <3>3, CountNone DEF Gated
      <4>2. QED
        BY <1>1, <3>1, <3>3, <4>1, LeadsGrows DEF Following
    <3>5. Len(Known) <= Len(list)
      <4>1. CASE Unsynced
        <5>1. Known = <<>> /\ Len(<<>>) = 0
          BY <4>1, EmptySeq DEF Known
        <5>2. QED
          BY <1>1, <5>1
      <4>2. CASE ~Unsynced
        BY <1>1, <4>2 DEF Known
      <4>3. QED
        BY <4>1, <4>2
    <3>6. Len(Known) \in Nat
      <4>1. Known \in Seq(Item)
        BY <1>1, EmptySeq DEF Known
      <4>2. QED
        BY <4>1, LenProperties
    <3>7. cursor \in Index(mirror)
      <4>1. Len(mirror) \in Nat \ {0}
        BY <1>1, <2>1, EmptySeq
      <4>2. QED
        BY <1>1, <1>2, <2>2, <4>1 DEF CursorInv, Index
    <3>8. QED
      BY <1>1, <1>7, <2>2, <3>4, <3>5, <3>6, <3>7 DEF Index
  <2>3. QED
    BY <1>4, <1>5, <2>1, <2>2
<1>8. CASE ReqPlay
  BY <1>1, <1>7, <1>8, Messages DEF ReqPlay, Play
<1>9. CASE ReqRemove
  BY <1>1, <1>7, <1>9, Messages DEF ReqRemove, Remove_
<1>10. CASE ReqMove
  BY <1>1, <1>7, <1>10, Messages DEF ReqMove, Move
<1>11. CASE ReqClear
  BY <1>7, <1>11, Messages DEF ReqClear, Clear
<1>12. CASE SlotReqUserOpen
  <2>1. PICK i \in Item : Request(Append_(<<i>>))
    BY <1>12 DEF SlotReqUserOpen
  <2>2. Append_(<<i>>) \in Message /\ Append_(<<i>>).op # "Move"
    <3>1. <<i>> \in Seq(Item)
      OBVIOUS
    <3>2. QED
      BY <3>1, Messages DEF Append_
  <2>3. cursor' = cursor
    BY <1>12 DEF SlotReqUserOpen
  <2>4. QED
    BY <1>4, <1>5, <2>1, <2>2, <2>3
<1>13. QED
  BY <1>6, <1>8, <1>9, <1>10, <1>11, <1>12 DEF Keys

(* The session's steps: no item is taken while there is one to be moved.   *)
LEMMA ServeRequest == ASSUME IInv, Serve PROVE RequestInv' /\ CursorInv'
<1>1. /\ TypeInv /\ CountInv /\ CursorInv /\ RequestInv
      /\ c2s \in Seq(Message) /\ s2c \in Seq(Message) /\ reply \in Seq(Message)
      /\ list \in Seq(Item) /\ Len(list) \in Nat /\ aborted \in BOOLEAN
  BY LenProperties DEF IInv, CopyInv, TypeInv
<1>2. UNCHANGED <<up, mirror, cursor, edited>> /\ ~aborted /\ (clobbered => clobbered') /\ (stale => stale')
  <2>1. CASE PlaylistSync \/ PlaylistSelect \/ PlaylistPlay \/ PlaylistAppend
    <3>1. PICK op : Handle(op)
      BY <2>1 DEF PlaylistSync, PlaylistSelect, PlaylistPlay, PlaylistAppend, Locked
    <3>2. UNCHANGED <<up, mirror, cursor, edited, clobbered>> /\ ~aborted
      BY <3>1 DEF Handle, view
    <3>3. stale => stale'
      BY <2>1 DEF PlaylistSync, PlaylistSelect, PlaylistPlay, PlaylistAppend, server
    <3>4. clobbered => clobbered'
      BY <3>2
    <3>5. QED
      BY <3>2, <3>3, <3>4
  <2>2. CASE PlaylistRemove \/ PlaylistMove \/ PlaylistClear
    BY <2>2 DEF PlaylistRemove, PlaylistMove, PlaylistClear, AnswerUnlocked, Locked, Handle, view
  <2>3. CASE ReplyCompose
    BY <2>3 DEF ReplyCompose, view
  <2>4. CASE ReplySend \/ NewsSend
    BY <2>4 DEF ReplySend, NewsSend, view, history
  <2>5. QED
    BY <2>1, <2>2, <2>3, <2>4 DEF Serve
<1>3. Calm' => Calm
  BY <1>2 DEF Calm
<1>4. CursorInv'
  BY <1>1, <1>2, <1>3 DEF CursorInv, Index
<1>5. CASE PlaylistSync \/ PlaylistSelect \/ PlaylistPlay
  <2>1. list' = list /\ c2s # <<>> /\ c2s' = Tail(c2s)
    BY <1>5 DEF PlaylistSync, PlaylistSelect, PlaylistPlay, Locked, Handle, server
  <2>2. RequestInv'
    BY <1>1, <1>3, <2>1, RequestsKept
  <2>3. QED
    BY <1>4, <2>2
<1>6. CASE PlaylistAppend
  <2>1. /\ c2s # <<>> /\ c2s' = Tail(c2s) /\ Head(c2s).op = "Append"
        /\ (list' = list \/ list' = list \o Head(c2s).items)
    BY <1>6 DEF PlaylistAppend, Locked, Handle
  <2>2. list' \in Seq(Item) /\ Len(list) <= Len(list')
    <3>1. Head(c2s).items \in Seq(Item)
      BY <1>1, <2>1, HeadAndTail, MessageFields
    <3>2. /\ list \o Head(c2s).items \in Seq(Item) /\ Len(Head(c2s).items) \in Nat
          /\ Len(list \o Head(c2s).items) = Len(list) + Len(Head(c2s).items)
      BY <1>1, <3>1, ConcatProperties, LenProperties
    <3>3. CASE list' = list
      BY <1>1, <3>3
    <3>4. CASE list' = list \o Head(c2s).items
      BY <1>1, <3>2, <3>4
    <3>5. QED
      BY <2>1, <3>3, <3>4
  <2>3. RequestInv'
    BY <1>1, <1>3, <2>1, <2>2, RequestsKept
  <2>4. QED
    BY <1>4, <2>3
<1>7. CASE PlaylistRemove \/ PlaylistMove \/ PlaylistClear
  <2>1. c2s # <<>> /\ c2s' = Tail(c2s) /\ Head(c2s).op \in Gated
    BY <1>7 DEF PlaylistRemove, PlaylistMove, PlaylistClear, Locked, Handle, Gated
  <2>2. Head(c2s) \in Message /\ c2s' \in Seq(Message)
    BY <1>1, <2>1, HeadAndTail
  <2>3. /\ GatedIn(c2s) = 1 + GatedIn(c2s') /\ GatedIn(c2s') \in Nat
        /\ GatedIn(reply) \in Nat /\ GatedIn(s2c) \in Nat
    BY <1>1, <2>1, <2>2, CountEnds, CountOne, CountNone
  <2>4. Calm' => GatedIn(c2s') = 0
    BY <1>1, <1>3, <2>3 DEF Calm, CountInv, Outstanding
  <2>5. Calm' => \A k \in 1 .. Len(c2s') : c2s'[k].op # "Move"
    BY <2>2, <2>4, CountNone DEF Gated
  <2>6. RequestInv'
    BY <2>5 DEF RequestInv
  <2>7. QED
    BY <1>4, <2>6
<1>8. CASE ReplyCompose \/ ReplySend \/ NewsSend
  <2>1. list' = list /\ c2s' = c2s
    BY <1>8 DEF ReplyCompose, ReplySend, NewsSend, server, pipes
  <2>2. RequestInv'
    BY <1>1, <1>3, <2>1, RequestsKept
  <2>3. QED
    BY <1>4, <2>2
<1>9. QED
  BY <1>5, <1>6, <1>7, <1>8 DEF Serve

(* A slot leaves the cursor on an item: what it is told fits the copy.     *)
LEMMA ShowRequest == ASSUME IInv, Show PROVE RequestInv' /\ CursorInv'
<1> DEFINE m == Head(s2c)
<1>1. /\ TypeInv /\ Following /\ CursorInv /\ RequestInv
      /\ c2s \in Seq(Message) /\ s2c \in Seq(Message) /\ reply \in Seq(Message)
      /\ list \in Seq(Item) /\ mirror \in Seq(Item) /\ cursor \in Int
      /\ Len(list) \in Nat /\ Len(mirror) \in Nat
  BY LenProperties DEF IInv, CopyInv, TypeInv
<1>2. /\ up /\ ~aborted /\ s2c # <<>> /\ up' = up
      /\ UNCHANGED <<list, edited, clobbered, stale>>
  BY DEF Show, SlotSelect, SlotPlay, SlotAppend, SlotRemove, SlotMove, SlotClear, IgnoreNews,
         Receive, server, history
<1>3. (Calm' => Calm) /\ (Calm => Alone /\ ~stale)
  BY <1>2 DEF Calm, Alone
<1>4. m \in Message
  BY <1>1, <1>2, HeadAndTail
<1>5. Calm => Fits(mirror, m)
  <2>1. ASSUME Calm PROVE Fits(mirror, m)
    <3>1. Leads(~stale, mirror, s2c \o reply, Known)
      BY <1>1, <1>3, <2>1 DEF Following
    <3>2. ~stale => Fits(mirror, Head(s2c))
      BY <1>1, <1>2, <3>1, LeadsRest
    <3>3. QED
      BY <1>3, <2>1, <3>2
  <2>2. QED
    BY <2>1
<1>6. Calm => cursor \in Index(mirror) \cup {0}
  BY <1>1, <1>2 DEF CursorInv
<1>7. Len(mirror) <= Len(Applied(mirror, m)) \/ m.op \in {"Remove", "Clear"}
  BY <1>1, <1>4, AppliedGrows
<1> HIDE DEF m
<1>8. /\ cursor' \in Int /\ (Calm' => cursor' \in Index(mirror') \cup {0})
      /\ (c2s' = c2s \/ Request(Select(cursor')))
  <2>1. CASE SlotSelect
    <3>1. cursor' = m.pos /\ mirror' = mirror /\ m.op = "Select" /\ c2s' = c2s
      BY <2>1 DEF SlotSelect, Receive, m
    <3>2. m.pos \in Int
      BY <1>4, <3>1, MessageFields
    <3>3. QED
      BY <1>3, <1>5, <3>1, <3>2 DEF Fits
  <2>2. CASE SlotPlay \/ IgnoreNews
    <3>1. cursor' = cursor /\ mirror' = mirror /\ c2s' = c2s
      BY <2>2 DEF SlotPlay, IgnoreNews
    <3>2. QED
      BY <1>1, <1>3, <1>6, <3>1
  <2>3. CASE SlotAppend
    <3>1. cursor' = cursor /\ mirror' = mirror \o m.items /\ c2s' = c2s /\ m.op = "Append"
      BY <2>3 DEF SlotAppend, Receive, m
    <3>2. Len(mirror) <= Len(mirror') /\ Len(mirror') \in Nat
      <4>1. m.items \in Seq(Item)
        BY <1>4, <3>1, MessageFields
      <4>2. Len(mirror \o m.items) = Len(mirror) + Len(m.items) /\ Len(m.items) \in Nat
        BY <1>1, <4>1, ConcatProperties, LenProperties
      <4>3. QED
        BY <1>1, <3>1, <4>2
    <3>3. QED
      BY <1>1, <1>3, <1>6, <3>1, <3>2 DEF Index
  <2>4. CASE SlotRemove
    <3>1. /\ m.op = "Remove" /\ mirror' = Applied(mirror, m) /\ Request(Select(cursor'))
          /\ cursor' = IF m.pos \in Index(mirror) /\ mirror' # <<>> /\ cursor >= Len(mirror') - 1
                       THEN Len(mirror') - 1 ELSE cursor
      BY <2>4 DEF SlotRemove, Receive, m
    <3>2. mirror' \in Seq(Item) /\ Len(mirror') \in Nat /\ (mirror' # <<>> => Len(mirror') # 0)
      <4>1. mirror' \in Seq(Item)
        BY <1>1, <1>4, <3>1, AppliedType
      <4>2. QED
        BY <4>1, EmptySeq, LenProperties
    <3>3. CASE m.pos \in Index(mirror)
      <4>1. Len(mirror') = Len(mirror) - 1
        <5>1. mirror' = RemoveAt(mirror, m.pos + 1)
          BY <3>1, <3>3 DEF Applied
        <5>2. m.pos + 1 \in 1 .. Len(mirror)
          BY <1>1, <3>3 DEF Index
        <5>3. QED
          BY <1>1, <5>1, <5>2, RemoveAtType
      <4>2. Len(mirror') = 0 => mirror' = <<>>
        BY <3>2, EmptySeq
      <4>3. cursor' \in Int
        BY <1>1, <3>1, <3>2
      <4>4. Calm' => cursor' \in Index(mirror') \cup {0}
        <5>1. CASE mirror' # <<>> /\ cursor >= Len(mirror') - 1
          BY <3>1, <3>2, <3>3, <5>1 DEF Index
        <5>2. CASE ~(mirror' # <<>> /\ cursor >= Len(mirror') - 1)
          <6>1. cursor' = cursor
            BY <3>1, <5>2
          <6>2. Len(mirror') = 0 \/ cursor < Len(mirror') - 1
            BY <1>1, <3>2, <4>2, <5>2
          <6>3. QED
            BY <1>1, <1>3, <1>6, <3>2, <4>1, <6>1, <6>2 DEF Index
        <5>3. QED
          BY <5>1, <5>2
      <4>5. QED
        BY <3>1, <4>3, <4>4
    <3>4. CASE m.pos \notin Index(mirror)
      <4>1. mirror' = mirror /\ cursor' = cursor
        BY <3>1, <3>4 DEF Applied
      <4>2. QED
        BY <1>1, <1>3, <1>6, <3>1, <4>1
    <3>5. QED
      BY <3>3, <3>4
  <2>5. CASE SlotMove
    <3> DEFINE newPos == IF m.dir > 0 THEN m.pos + 1 ELSE m.pos - 1
    <3>1. /\ m.op = "Move" /\ mirror' = Applied(mirror, m) /\ Request(Select(cursor'))
          /\ cursor' = IF newPos \in Index(mirror) THEN newPos ELSE cursor
      BY <2>5 DEF SlotMove, m
    <3>2. Len(mirror') = Len(mirror)
      BY <1>1, <1>4, <3>1, AppliedGrows
    <3>3. m.pos \in Int
      BY <1>4, <3>1, MessageFields
    <3>4. newPos \in Int
      BY <3>3
    <3> HIDE DEF newPos
    <3>5. QED
      BY <1>1, <1>3, <1>6, <3>1, <3>2, <3>4 DEF Index
  <2>6. CASE SlotClear
    <3>1. cursor' = 0 /\ Request(Select(cursor'))
      BY <2>6 DEF SlotClear
    <3>2. QED
      BY <3>1
  <2>7. QED
    BY <2>1, <2>2, <2>3, <2>4, <2>5, <2>6 DEF Show
<1>9. CursorInv'
  BY <1>2, <1>8 DEF CursorInv, Index
<1>10. RequestInv'
  <2>1. Len(list) <= Len(list') /\ list' \in Seq(Item)
    BY <1>1, <1>2
  <2>2. CASE c2s' = c2s
    BY <1>1, <1>3, <2>1, <2>2, RequestsKept
  <2>3. CASE Request(Select(cursor'))
    <3>1. Select(cursor') \in Message /\ Select(cursor').op # "Move"
      BY <1>8, Messages DEF Select
    <3>2. QED
      BY <1>1, <1>3, <2>1, <2>3, <3>1, RequestsKept
  <2>4. QED
    BY <1>8, <2>2, <2>3
<1>11. QED
  BY <1>9, <1>10

(* Coming and going, news and edits of others.                             *)
LEMMA GoRequest ==
  ASSUME IInv, NewsCompose \/ Connect \/ Quit \/ LoseRest \/ OthersEdit
  PROVE  RequestInv' /\ CursorInv'
<1>1. TypeInv /\ GoneInv /\ CursorInv /\ RequestInv /\ Len(list) \in Nat /\ list \in Seq(Item)
  BY LenProperties DEF IInv, CopyInv, TypeInv
<1>2. CASE NewsCompose
  <2>1. /\ UNCHANGED <<list, aborted, c2s, up, mirror, cursor, edited, stale>>
        /\ (clobbered => clobbered')
    BY <1>2 DEF NewsCompose, server, pipes, view
  <2>2. Calm' => Calm
    BY <2>1 DEF Calm
  <2>3. QED
    BY <1>1, <2>1, <2>2 DEF CursorInv, RequestInv, Index
<1>3. CASE Connect
  <2>1. /\ ~up /\ c2s' = [i \in 1 .. Syncs |-> Sync(i = 1)] /\ UNCHANGED <<mirror, cursor>>
    BY <1>3 DEF Connect
  <2>2. \A k \in 1 .. Len(c2s') : c2s'[k].op # "Move"
    <3>1. Syncs \in Nat
      BY BoundsAssumption
    <3>2. Len(c2s') = Syncs
      BY <2>1, <3>1
    <3>3. QED
      BY <2>1, <3>1, <3>2 DEF Sync
  <2>3. cursor' = 0
    BY <1>1, <2>1 DEF CursorInv
  <2>4. QED
    BY <2>2, <2>3 DEF RequestInv, CursorInv
<1>4. CASE Quit
  <2>1. ~up' /\ cursor' = 0 /\ UNCHANGED <<list, c2s, aborted, edited, clobbered, stale>>
    BY <1>4 DEF Quit, server, history
  <2>2. QED
    BY <1>1, <2>1 DEF RequestInv, CursorInv, Calm, Index
<1>5. CASE LoseRest
  <2>1. c2s' = <<>> /\ UNCHANGED <<list, up, cursor, mirror, aborted, edited, clobbered, stale>>
    BY <1>5 DEF LoseRest, server, view, history
  <2>2. 1 .. Len(c2s') = {}
    <3>1. Len(<<>>) = 0
      BY EmptySeq
    <3>2. QED
      BY <2>1, <3>1
  <2>3. QED
    BY <1>1, <2>1, <2>2 DEF RequestInv, CursorInv, Calm, Index
<1>6. CASE OthersEdit
  <2>1. edited' = TRUE /\ up' = up /\ cursor' = cursor
    BY <1>6 DEF OthersEdit, view
  <2>2. QED
    BY <1>1, <2>1 DEF RequestInv, CursorInv, Calm
<1>7. QED
  BY <1>2, <1>3, <1>4, <1>5, <1>6
-----------------------------------------------------------------------------
(* The selection.                                                          *)

(* What pipes hold.                                                        *)
LEMMA Elements ==
  /\ ToSet(<<>>) = {}
  /\ \A some \in Seq(Message), m \in Message : ToSet(Append(some, m)) = ToSet(some) \cup {m}
  /\ \A some \in Seq(Message) \ {<<>>} : ToSet(some) = {Head(some)} \cup ToSet(Tail(some))
  /\ \A a, b \in Seq(Message) : ToSet(a \o b) = ToSet(a) \cup ToSet(b)
  /\ \A m : ToSet(<<m>>) = {m}
<1>1. ToSet(<<>>) = {} /\ \A m : ToSet(<<m>>) = {m}
  BY DEF ToSet
<1>2. ASSUME NEW a \in Seq(Message), NEW b \in Seq(Message) PROVE ToSet(a \o b) = ToSet(a) \cup ToSet(b)
  <2>1. /\ Len(a) \in Nat /\ Len(b) \in Nat /\ DOMAIN a = 1 .. Len(a) /\ DOMAIN b = 1 .. Len(b)
        /\ DOMAIN (a \o b) = 1 .. Len(a) + Len(b)
        /\ \A k \in 1 .. Len(a) + Len(b) : (a \o b)[k] = IF k <= Len(a) THEN a[k] ELSE b[k - Len(a)]
    <3>1. a \o b \in Seq(Message) /\ Len(a \o b) = Len(a) + Len(b)
      BY ConcatProperties
    <3>2. QED
      BY <3>1, ConcatProperties, LenProperties
  <2>2. ASSUME NEW k \in DOMAIN (a \o b) PROVE (a \o b)[k] \in ToSet(a) \cup ToSet(b)
    <3>1. CASE k <= Len(a)
      <4>1. k \in DOMAIN a /\ (a \o b)[k] = a[k]
        BY <2>1, <3>1
      <4>2. QED
        BY <4>1 DEF ToSet
    <3>2. CASE ~(k <= Len(a))
      <4>1. k - Len(a) \in DOMAIN b /\ (a \o b)[k] = b[k - Len(a)]
        BY <2>1, <3>2
      <4>2. QED
        BY <4>1 DEF ToSet
    <3>3. QED
      BY <3>1, <3>2
  <2>3. ASSUME NEW k \in DOMAIN a PROVE a[k] \in ToSet(a \o b)
    <3>1. k \in DOMAIN (a \o b) /\ (a \o b)[k] = a[k]
      BY <2>1
    <3>2. QED
      BY <3>1 DEF ToSet
  <2>4. ASSUME NEW k \in DOMAIN b PROVE b[k] \in ToSet(a \o b)
    <3>1. /\ Len(a) + k \in DOMAIN (a \o b) /\ ~(Len(a) + k <= Len(a)) /\ (Len(a) + k) - Len(a) = k
      BY <2>1
    <3>2. (a \o b)[Len(a) + k] = b[k]
      BY <2>1, <3>1
    <3>3. QED
      BY <3>1, <3>2 DEF ToSet
  <2>5. QED
    BY <2>2, <2>3, <2>4 DEF ToSet
<1>3. ASSUME NEW some \in Seq(Message), NEW m \in Message
      PROVE  ToSet(Append(some, m)) = ToSet(some) \cup {m}
  <2>1. Append(some, m) = some \o <<m>> /\ <<m>> \in Seq(Message)
    BY AppendIsConcat
  <2>2. QED
    BY <1>1, <1>2, <2>1
<1>4. ASSUME NEW some \in Seq(Message) \ {<<>>} PROVE ToSet(some) = {Head(some)} \cup ToSet(Tail(some))
  <2>1. /\ Head(some) \in Message /\ Tail(some) \in Seq(Message)
        /\ some = <<Head(some)>> \o Tail(some)
    BY HeadAndTail
  <2>2. <<Head(some)>> \in Seq(Message)
    BY <2>1
  <2>3. ToSet(<<Head(some)>> \o Tail(some)) = ToSet(<<Head(some)>>) \cup ToSet(Tail(some))
    BY <1>2, <2>1, <2>2
  <2>4. QED
    BY <1>1, <2>1, <2>3
<1>5. QED
  BY <1>1, <1>2, <1>3, <1>4

(* What one more message makes of what a pipe holds.                       *)
LEMMA OneMore ==
  ASSUME NEW a \in Seq(Message), NEW m \in Message
  PROVE  a \o <<m>> \in Seq(Message) /\ ToSet(a \o <<m>>) = ToSet(a) \cup {m}
<1>1. a \o <<m>> = Append(a, m) /\ Append(a, m) \in Seq(Message)
  BY AppendIsConcat, AppendProperties
<1>2. ToSet(Append(a, m)) = ToSet(a) \cup {m}
  BY Elements
<1>3. QED
  BY <1>1, <1>2

(* What two parts of a pipe hold.                                          *)
LEMMA Joined ==
  ASSUME NEW a \in Seq(Message), NEW b \in Seq(Message)
  PROVE  a \o b \in Seq(Message) /\ ToSet(a \o b) = ToSet(a) \cup ToSet(b)
<1>1. a \o b \in Seq(Message)
  BY ConcatProperties
<1>2. ToSet(a \o b) = ToSet(a) \cup ToSet(b)
  BY Elements
<1>3. QED
  BY <1>1, <1>2

(* A selection that is asked for last is the one that counts.              *)
LEMMA ChosenLast ==
  ASSUME TypeInv, cursor' \in Int, Request(Select(cursor'))
  PROVE  Chosen'
<1>1. /\ c2s \in Seq(Message) /\ Len(c2s) \in Nat /\ Select(cursor') \in Message
      /\ Select(cursor').op = "Select" /\ Select(cursor').pos = cursor'
  BY Messages, LenProperties DEF TypeInv, Select
<1>2. Len(c2s') = Len(c2s) + 1 /\ c2s'[Len(c2s) + 1] = Select(cursor')
  BY <1>1, AppendProperties DEF Request
<1>3. Len(c2s) + 1 \in 1 .. Len(c2s') /\ (Len(c2s) + 1) + 1 .. Len(c2s') = {}
  BY <1>1, <1>2
<1>4. \E k \in 1 .. Len(c2s') : /\ c2s'[k].op = "Select" /\ c2s'[k].pos = cursor'
                                /\ \A j \in k + 1 .. Len(c2s') : c2s'[j].op # "Select"
  BY <1>1, <1>2, <1>3
<1>5. QED
  BY <1>4 DEF Chosen

(* Other requests do not touch it.                                         *)
LEMMA ChosenKept ==
  ASSUME TypeInv, Chosen, selected' = selected, cursor' = cursor,
         \/ c2s' = c2s
         \/ c2s # <<>> /\ c2s' = Tail(c2s) /\ Head(c2s).op # "Select"
         \/ \E m \in Message : m.op # "Select" /\ Request(m)
  PROVE  Chosen'
<1>1. c2s \in Seq(Message) /\ Len(c2s) \in Nat
  BY LenProperties DEF TypeInv
<1>2. CASE c2s' = c2s
  BY <1>2 DEF Chosen
<1>3. CASE c2s # <<>> /\ c2s' = Tail(c2s) /\ Head(c2s).op # "Select"
  <2>1. /\ Len(c2s) \in Nat \ {0} /\ Len(c2s') = Len(c2s) - 1 /\ Head(c2s) = c2s[1]
        /\ \A i \in 1 .. Len(c2s') : c2s'[i] = c2s[i + 1]
    BY <1>1, <1>3, EmptySeq, HeadTailProperties
  <2>2. \A i \in 1 .. Len(c2s') : i + 1 \in 1 .. Len(c2s)
    BY <2>1
  <2>3. CASE selected = cursor /\ \A k \in 1 .. Len(c2s) : c2s[k].op # "Select"
    BY <2>1, <2>2, <2>3 DEF Chosen
  <2>4. CASE \E k \in 1 .. Len(c2s) : /\ c2s[k].op = "Select" /\ c2s[k].pos = cursor
                                      /\ \A j \in k + 1 .. Len(c2s) : c2s[j].op # "Select"
    <3>1. PICK k \in 1 .. Len(c2s) : /\ c2s[k].op = "Select" /\ c2s[k].pos = cursor
                                     /\ \A j \in k + 1 .. Len(c2s) : c2s[j].op # "Select"
      BY <2>4
    <3>2. k # 1
      BY <1>3, <2>1, <3>1
    <3>3. k - 1 \in 1 .. Len(c2s') /\ (k - 1) + 1 = k
      BY <2>1, <3>2
    <3>4. c2s'[k - 1] = c2s[k]
      BY <2>1, <3>3
    <3>5. ASSUME NEW j \in (k - 1) + 1 .. Len(c2s') PROVE c2s'[j].op # "Select"
      <4>1. j \in 1 .. Len(c2s') /\ j + 1 \in k + 1 .. Len(c2s)
        BY <2>1, <3>3
      <4>2. QED
        BY <2>1, <3>1, <4>1
    <3>6. \E i \in 1 .. Len(c2s') : /\ c2s'[i].op = "Select" /\ c2s'[i].pos = cursor'
                                    /\ \A j \in i + 1 .. Len(c2s') : c2s'[j].op # "Select"
      BY <3>1, <3>3, <3>4, <3>5
    <3>7. QED
      BY <3>6 DEF Chosen
  <2>5. QED
    BY <2>3, <2>4 DEF Chosen
<1>4. CASE \E m \in Message : m.op # "Select" /\ Request(m)
  <2>1. PICK m \in Message : m.op # "Select" /\ Request(m)
    BY <1>4
  <2>2. /\ Len(c2s') = Len(c2s) + 1 /\ c2s'[Len(c2s) + 1] = m
        /\ \A i \in 1 .. Len(c2s) : c2s'[i] = c2s[i]
    BY <1>1, <2>1, AppendProperties DEF Request
  <2>3. \A i \in 1 .. Len(c2s') : i \in 1 .. Len(c2s) \/ i = Len(c2s) + 1
    BY <1>1, <2>2
  <2>4. CASE selected = cursor /\ \A k \in 1 .. Len(c2s) : c2s[k].op # "Select"
    BY <2>1, <2>2, <2>3, <2>4 DEF Chosen
  <2>5. CASE \E k \in 1 .. Len(c2s) : /\ c2s[k].op = "Select" /\ c2s[k].pos = cursor
                                      /\ \A j \in k + 1 .. Len(c2s) : c2s[j].op # "Select"
    <3>1. PICK k \in 1 .. Len(c2s) : /\ c2s[k].op = "Select" /\ c2s[k].pos = cursor
                                     /\ \A j \in k + 1 .. Len(c2s) : c2s[j].op # "Select"
      BY <2>5
    <3>2. k \in 1 .. Len(c2s') /\ c2s'[k] = c2s[k]
      BY <1>1, <2>2
    <3>3. ASSUME NEW j \in k + 1 .. Len(c2s') PROVE c2s'[j].op # "Select"
      <4>1. j \in k + 1 .. Len(c2s) \/ j = Len(c2s) + 1
        BY <1>1, <2>2
      <4>2. j \in k + 1 .. Len(c2s) => j \in 1 .. Len(c2s)
        BY <1>1
      <4>3. QED
        BY <2>1, <2>2, <3>1, <4>1, <4>2
    <3>4. QED
      BY <3>1, <3>2, <3>3 DEF Chosen
  <2>6. QED
    BY <2>4, <2>5 DEF Chosen
<1>5. QED
  BY <1>2, <1>3, <1>4

(* Keys count from when the first selection has come.                      *)
LEMMA KeysSelect == ASSUME IInv, Keys PROVE ReplyInv' /\ SelectInv'
<1>1. /\ TypeInv /\ ReplyInv /\ SelectInv /\ c2s \in Seq(Message) /\ s2c \in Seq(Message)
      /\ cursor \in Int /\ Len(mirror) \in Nat
  BY LenProperties DEF IInv, CopyInv, TypeInv
<1>2. /\ UNCHANGED <<selected, up, aborted, edited, clobbered, stale, reply, s2c>>
      /\ early' = (early \/ Pending("Sync", c2s) \/ Pending("Select", s2c))
  BY DEF Keys, Scroll, ReqPlay, ReqRemove, ReqMove, ReqClear, ReqGated, SlotReqUserOpen, Key, server, session
<1>3. ReplyInv'
  BY <1>1, <1>2 DEF ReplyInv, Shift
<1>4. SUFFICES ASSUME Alone', ~early', ~stale' PROVE ~Unsettled' /\ (~Shifting' => Chosen')
  BY <1>3 DEF SelectInv
<1>5. ~early /\ ~Pending("Sync", c2s) /\ ~Pending("Select", s2c)
  BY <1>2, <1>4
<1>6. ~Unsettled
  BY <1>5 DEF Unsettled, Pending, ToSet
<1>7. ~Shifting => Chosen
  BY <1>1, <1>2, <1>4, <1>5, <1>6 DEF SelectInv, Alone
<1>8. ASSUME NEW m \in Message, m.op # "Sync", Request(m) PROVE ~Unsettled' /\ (Shifting \/ m.op \in Shift => Shifting')
  <2>1. ToSet(c2s') = ToSet(c2s) \cup {m}
    BY <1>1, <1>8, Elements DEF Request
  <2>2. ToSet(s2c') = ToSet(s2c) /\ ToSet(reply') = ToSet(reply)
    BY <1>2
  <2>3. QED
    BY <1>6, <1>8, <2>1, <2>2 DEF Unsettled, Shifting, Shift, ToSet
<1>9. ASSUME NEW m \in Message, m.op \notin {"Sync", "Select"}, Request(m), cursor' = cursor
      PROVE  ~Unsettled' /\ (~Shifting' => Chosen')
  BY <1>1, <1>2, <1>7, <1>8, <1>9, ChosenKept
<1>10. CASE Scroll
  <2>1. cursor' \in Int /\ Request(Select(cursor'))
    BY <1>1, <1>10 DEF Scroll
  <2>2. Select(cursor') \in Message /\ Select(cursor').op # "Sync"
    BY <2>1, Messages DEF Select
  <2>3. QED
    BY <1>1, <1>8, <2>1, <2>2, ChosenLast
<1>11. CASE ReqPlay
  BY <1>1, <1>9, <1>11, Messages DEF ReqPlay, ReqGated, Play
<1>12. CASE ReqRemove
  BY <1>1, <1>9, <1>12, Messages DEF ReqRemove, ReqGated, Remove_
<1>13. CASE ReqMove
  BY <1>1, <1>9, <1>13, Messages DEF ReqMove, ReqGated, Move
<1>14. CASE ReqClear
  BY <1>9, <1>14, Messages DEF ReqClear, ReqGated, Clear
<1>15. CASE SlotReqUserOpen
  <2>1. PICK i \in Item : Request(Append_(<<i>>))
    BY <1>15 DEF SlotReqUserOpen
  <2>2. Append_(<<i>>) \in Message /\ Append_(<<i>>).op \notin {"Sync", "Select"}
    <3>1. <<i>> \in Seq(Item)
      OBVIOUS
    <3>2. QED
      BY <3>1, Messages DEF Append_
  <2>3. cursor' = cursor
    BY <1>15 DEF SlotReqUserOpen
  <2>4. QED
    BY <1>9, <2>1, <2>2, <2>3
<1>16. QED
  BY <1>10, <1>11, <1>12, <1>13, <1>14, <1>15 DEF Keys

(* A handler of anything but a sync and a selection: what it answers asks  *)
(* for no selection.                                                       *)
LEMMA OthersSelect ==
  ASSUME IInv, NEW op \in {"Play", "Append", "Remove", "Move", "Clear"}, Handle(op),
         selected' = selected, stale => stale',
         \/ op \notin Shift /\ reply' = <<>>
         \/ op \in Shift /\ reply' = <<Head(c2s)>>,
         NEW some \in Seq(Message), \A m \in ToSet(some) : m.op # "Select",
         s2c' = s2c \/ s2c' = s2c \o some
  PROVE  ReplyInv' /\ SelectInv'
<1>1. /\ TypeInv /\ ReplyInv /\ SelectInv /\ c2s \in Seq(Message) \ {<<>>} /\ s2c \in Seq(Message)
      /\ c2s' = Tail(c2s) /\ Head(c2s).op = op /\ reply = <<>> /\ ~aborted
      /\ UNCHANGED <<up, mirror, cursor, waitReply, edited, clobbered, early>>
  BY DEF IInv, CopyInv, TypeInv, Handle, view
<1>2. /\ ToSet(c2s) = {Head(c2s)} \cup ToSet(c2s')
      /\ ToSet(s2c \o some) = ToSet(s2c) \cup ToSet(some)
      /\ ToSet(reply) = {} /\ (op \notin Shift => ToSet(reply') = {}) /\ (op \in Shift => ToSet(reply') = {Head(c2s)})
  BY <1>1, Elements
<1>3. ReplyInv'
  BY <1>1, <1>2 DEF ReplyInv, Shift
<1>4. SUFFICES ASSUME Alone', ~early', ~stale' PROVE ~Unsettled' /\ (~Shifting' => Chosen')
  BY <1>3 DEF SelectInv
<1>5. Alone /\ ~early /\ ~stale
  BY <1>1, <1>4 DEF Alone
<1>6. ~Unsettled
  <2>1. Head(c2s) \in ToSet(c2s) /\ Head(c2s).op # "Sync"
    BY <1>1, <1>2
  <2>2. QED
    BY <1>1, <1>5, <2>1 DEF SelectInv
<1>7. ~Unsettled'
  <2>1. \A m \in ToSet(c2s') : m.op # "Sync"
    BY <1>2, <1>6 DEF Unsettled
  <2>2. ToSet(s2c') = ToSet(s2c) \/ ToSet(s2c') = ToSet(s2c) \cup ToSet(some)
    BY <1>2
  <2>3. \A m \in ToSet(s2c') : m.op # "Select"
    BY <1>6, <2>2 DEF Unsettled
  <2>4. QED
    BY <2>1, <2>3 DEF Unsettled, ToSet
<1>8. ASSUME ~Shifting' PROVE Chosen'
  <2>1. \A m \in ToSet(c2s') \cup ToSet(reply') \cup ToSet(s2c') : m.op \notin Shift
    BY <1>8 DEF Shifting, ToSet, Shift
  <2>2. op \notin Shift
    BY <1>1, <1>2, <2>1
  <2>3. ToSet(s2c) \subseteq ToSet(s2c')
    BY <1>2
  <2>4. ~Shifting
    BY <1>1, <1>2, <2>1, <2>2, <2>3 DEF Shifting
  <2>5. Chosen
    BY <1>1, <1>5, <1>6, <2>4 DEF SelectInv
  <2>6. QED
    BY <1>1, <2>5, ChosenKept
<1>9. QED
  BY <1>7, <1>8
(* A selection is in the list when it counts, and is taken over.           *)
LEMMA SelectTaken == ASSUME IInv, PlaylistSelect PROVE ReplyInv' /\ SelectInv'
<1>1. /\ TypeInv /\ Following /\ CursorInv /\ ReplyInv /\ SelectInv
      /\ c2s \in Seq(Message) /\ s2c \in Seq(Message) /\ list \in Seq(Item) /\ mirror \in Seq(Item)
      /\ cursor \in Int /\ Len(c2s) \in Nat /\ Len(list) \in Nat /\ Len(mirror) \in Nat
  BY LenProperties DEF IInv, CopyInv, TypeInv
<1>2. /\ c2s # <<>> /\ Head(c2s).op = "Select" /\ c2s' = Tail(c2s) /\ reply = <<>> /\ ~aborted
      /\ UNCHANGED <<up, mirror, cursor, waitReply, edited, clobbered, early>>
      /\ UNCHANGED <<list, aborted, reply, s2c, stale>>
      /\ selected' = IF Head(c2s).pos \in Index(list) \/ list = <<>> THEN Head(c2s).pos ELSE selected
  BY DEF PlaylistSelect, Handle, view
<1>3. ReplyInv'
  BY <1>1, <1>2 DEF ReplyInv, Shift
<1>4. SUFFICES ASSUME Alone', ~early', ~stale' PROVE ~Unsettled' /\ (~Shifting' => Chosen')
  BY <1>3 DEF SelectInv
<1>5. Alone /\ ~early /\ ~stale /\ Calm /\ up
  BY <1>2, <1>4 DEF Alone, Calm
<1>6. ToSet(c2s) = {Head(c2s)} \cup ToSet(c2s') /\ ToSet(s2c') = ToSet(s2c) /\ ToSet(reply') = ToSet(reply)
  BY <1>1, <1>2, Elements
<1>7. ~Unsettled
  <2>1. Head(c2s) \in ToSet(c2s) /\ Head(c2s).op # "Sync"
    BY <1>2, <1>6
  <2>2. QED
    BY <1>1, <1>5, <2>1 DEF SelectInv
<1>8. ~Unsettled'
  <2>1. \A m \in ToSet(c2s') : m.op # "Sync"
    BY <1>6, <1>7 DEF Unsettled
  <2>2. \A m \in ToSet(s2c') : m.op # "Select"
    BY <1>6, <1>7 DEF Unsettled
  <2>3. QED
    BY <2>1, <2>2 DEF Unsettled, ToSet
<1>9. ASSUME ~Shifting' PROVE Chosen'
  <2>1. \A m \in ToSet(c2s') \cup ToSet(reply') \cup ToSet(s2c') : m.op \notin Shift
    BY <1>9 DEF Shifting, ToSet, Shift
  <2>2. ~Shifting
    BY <1>2, <1>6, <2>1 DEF Shifting, Shift
  <2>3. Chosen
    BY <1>1, <1>5, <1>7, <2>2 DEF SelectInv
  <2>4. /\ Head(c2s) = c2s[1] /\ Len(c2s') = Len(c2s) - 1 /\ 1 \in 1 .. Len(c2s)
        /\ \A i \in 1 .. Len(c2s') : c2s'[i] = c2s[i + 1]
    <3>1. Len(c2s) \in Nat \ {0}
      BY <1>1, <1>2, EmptySeq
    <3>2. QED
      BY <1>1, <1>2, <3>1, HeadTailProperties
  <2>5. PICK k \in 1 .. Len(c2s) : /\ c2s[k].op = "Select" /\ c2s[k].pos = cursor
                                   /\ \A j \in k + 1 .. Len(c2s) : c2s[j].op # "Select"
    BY <1>2, <2>3, <2>4 DEF Chosen
  <2>6. CASE k = 1
    <3>1. Head(c2s).pos = cursor
      BY <2>4, <2>5, <2>6
    <3>2. Len(mirror) <= Len(list)
      <4>1. Known = list
        <5>1. ~Unsynced
          <6>1. \A m \in ToSet(c2s) : m.op # "Sync"
            BY <1>7 DEF Unsettled
          <6>2. c2s # <<>> => c2s[1] \in ToSet(c2s)
            BY <2>4, <1>6
          <6>3. QED
            BY <6>1, <6>2 DEF Unsynced, Sync
        <5>2. QED
          BY <5>1 DEF Known
      <4>2. s2c \o reply = s2c
        BY <1>1, <1>2, ConcatEmptySeq
      <4>3. Leads(~stale, mirror, s2c, list)
        BY <1>1, <1>5, <4>1, <4>2 DEF Following
      <4>4. \A j \in 1 .. Len(s2c) : s2c[j].op \notin {"Remove", "Clear"}
        <5>1. \A j \in 1 .. Len(s2c) : s2c[j] \in ToSet(s2c)
          <6>1. DOMAIN s2c = 1 .. Len(s2c)
            BY <1>1, LenProperties
          <6>2. QED
            BY <6>1 DEF ToSet
        <5>2. QED
          BY <2>2, <5>1 DEF Shifting, Shift
      <4>5. QED
        BY <1>1, <4>3, <4>4, LeadsGrows
    <3>3. cursor \in Index(list) \/ list = <<>>
      <4>1. cursor \in Index(mirror) \cup {0}
        BY <1>1, <1>5 DEF CursorInv
      <4>2. list # <<>> => Len(list) # 0
        BY <1>1, EmptySeq
      <4>3. QED
        BY <1>1, <3>2, <4>1, <4>2 DEF Index
    <3>4. selected' = cursor'
      BY <1>2, <3>1, <3>3
    <3>5. ASSUME NEW j \in 1 .. Len(c2s') PROVE c2s'[j].op # "Select"
      <4>1. j + 1 \in k + 1 .. Len(c2s)
        BY <1>1, <2>4, <2>6
      <4>2. QED
        BY <2>4, <2>5, <4>1
    <3>6. QED
      BY <3>4, <3>5 DEF Chosen
  <2>7. CASE k # 1
    <3>1. k - 1 \in 1 .. Len(c2s') /\ (k - 1) + 1 = k
      BY <1>1, <2>4, <2>7
    <3>2. c2s'[k - 1] = c2s[k]
      BY <2>4, <3>1
    <3>3. ASSUME NEW j \in (k - 1) + 1 .. Len(c2s') PROVE c2s'[j].op # "Select"
      <4>1. j \in 1 .. Len(c2s') /\ j + 1 \in k + 1 .. Len(c2s)
        BY <1>1, <2>4, <3>1
      <4>2. QED
        BY <2>4, <2>5, <4>1
    <3>4. \E i \in 1 .. Len(c2s') : /\ c2s'[i].op = "Select" /\ c2s'[i].pos = cursor'
                                    /\ \A j \in i + 1 .. Len(c2s') : c2s'[j].op # "Select"
      BY <1>2, <2>5, <3>1, <3>2, <3>3
    <3>5. QED
      BY <3>4 DEF Chosen
  <2>8. QED
    BY <2>6, <2>7
<1>10. QED
  BY <1>8, <1>9

(* A sync repeats the selection, which nobody has changed since.           *)
LEMMA SyncSelect == ASSUME IInv, PlaylistSync PROVE ReplyInv' /\ SelectInv'
<1> DEFINE chunks == IF Head(c2s).own THEN Chunks(list) ELSE <<>>
           m == Select(selected)
<1>1. /\ TypeInv /\ ReplyInv /\ SelectInv /\ c2s \in Seq(Message) \ {<<>>} /\ s2c \in Seq(Message)
      /\ list \in Seq(Item) /\ selected \in Int
      /\ c2s' = Tail(c2s) /\ Head(c2s).op = "Sync" /\ reply = <<>> /\ reply' = <<>> /\ ~aborted
      /\ UNCHANGED <<selected, up, mirror, cursor, waitReply, edited, clobbered, early>>
      /\ (stale => stale') /\ s2c' = IF up THEN s2c \o (chunks \o <<m>>) ELSE s2c
  BY DEF IInv, CopyInv, TypeInv, PlaylistSync, Locked, Handle, Answer, Deliver, view, server
<1>2. ReplyInv'
  BY <1>1, Elements DEF ReplyInv, Shift
<1>3. SUFFICES ASSUME Alone', ~early', ~stale'
               PROVE  /\ Unsettled' /\ ~waitReply' /\ reply' = <<>>
                      /\ \A x \in ToSet(c2s') : x.op = "Sync"
                      /\ \A x \in ToSet(s2c') : x.op = "Select" => x.pos = selected
  <2>1. ToSet(c2s)' = ToSet(c2s') /\ ToSet(s2c)' = ToSet(s2c')
    BY DEF ToSet
  <2>2. QED
    BY <1>1, <1>2, <1>3, <2>1 DEF SelectInv
<1>4. Alone /\ ~early /\ ~stale /\ up
  BY <1>1, <1>3 DEF Alone
<1>5. ToSet(c2s) = {Head(c2s)} \cup ToSet(c2s')
  BY <1>1, Elements
<1>6. Unsettled
  BY <1>1, <1>5 DEF Unsettled
<1>7. /\ ~waitReply /\ (\A x \in ToSet(c2s) : x.op = "Sync")
      /\ \A x \in ToSet(s2c) : x.op = "Select" => x.pos = selected
  BY <1>1, <1>4, <1>6 DEF SelectInv
<1>8. chunks \in Seq(Message) /\ \A x \in ToSet(chunks) : x.op = "Append"
  <2>1. CASE Head(c2s).own
    <3>1. Chunks(list) \in Seq(Message)
      BY <1>1, CountChunks
    <3>2. \A k \in DOMAIN Chunks(list) : Chunks(list)[k].op = "Append"
      BY DEF Chunks, Append_
    <3>3. QED
      BY <2>1, <3>1, <3>2 DEF ToSet
  <2>2. CASE ~Head(c2s).own
    BY <2>2, EmptySeq, Elements
  <2>3. QED
    BY <2>1, <2>2
<1>9. m \in Message /\ m.op = "Select" /\ m.pos = selected
  BY <1>1, Messages DEF Select
<1> HIDE DEF chunks, m
<1>10. ToSet(s2c') = ToSet(s2c) \cup (ToSet(chunks) \cup {m})
  <2>1. chunks \o <<m>> \in Seq(Message) /\ ToSet(chunks \o <<m>>) = ToSet(chunks) \cup {m}
    BY <1>8, <1>9, OneMore
  <2>2. ToSet(s2c \o (chunks \o <<m>>)) = ToSet(s2c) \cup ToSet(chunks \o <<m>>)
    BY <1>1, <2>1, Joined
  <2>3. s2c' = s2c \o (chunks \o <<m>>)
    BY <1>1, <1>4
  <2>4. QED
    BY <2>1, <2>2, <2>3
<1>11. Unsettled'
  BY <1>9, <1>10 DEF Unsettled, ToSet
<1>12. \A x \in ToSet(s2c') : x.op = "Select" => x.pos = selected
  BY <1>7, <1>8, <1>9, <1>10
<1>13. QED
  BY <1>1, <1>5, <1>7, <1>11, <1>12

(* All of the session.                                                     *)
LEMMA ServeSelect == ASSUME IInv, Serve PROVE ReplyInv' /\ SelectInv'
<1>1. /\ TypeInv /\ BufferInv /\ ReplyInv /\ SelectInv /\ c2s \in Seq(Message) /\ s2c \in Seq(Message)
      /\ reply \in Seq(Message)
  BY DEF IInv, CopyInv, TypeInv
<1>2. <<>> \in Seq(Message) /\ ToSet(<<>>) = {}
  BY EmptySeq, Elements
<1>3. ASSUME NEW op, Handle(op) PROVE Head(c2s) \in Message /\ Head(c2s).op = op /\ reply = <<>>
  BY <1>1, <1>3, HeadAndTail DEF Handle
<1>4. CASE PlaylistPlay
  <2> DEFINE play == Play(Head(c2s).pos)
  <2>1. Handle("Play") /\ selected' = selected /\ (stale => stale')
    BY <1>4 DEF PlaylistPlay, Locked, server
  <2>2. Head(c2s) \in Message /\ Head(c2s).op = "Play" /\ reply = <<>>
    BY <1>3, <2>1
  <2>3. /\ play \in Message /\ play.op = "Play" /\ ItemInfo \in Message /\ ItemInfo.op = "ItemInfo"
    BY <2>2, MessageFields, Messages DEF Play, ItemInfo
  <2> HIDE DEF play
  <2>4. PICK some \in {<<ItemInfo, play>>, <<play>>, <<>>} : Answer(some)
    BY <1>4 DEF PlaylistPlay, play
  <2>5. some \in Seq(Message) /\ \A m \in ToSet(some) : m.op # "Select"
    <3>1. <<play>> \in Seq(Message) /\ <<ItemInfo, play>> \in Seq(Message)
      BY <2>3
    <3>2. \A m \in ToSet(<<play>>) : m = play
      BY Elements
    <3>3. \A m \in ToSet(<<ItemInfo, play>>) : m = ItemInfo \/ m = play
      BY DEF ToSet
    <3>4. CASE some = <<>>
      BY <1>2, <3>4
    <3>5. CASE some = <<play>>
      BY <2>3, <3>1, <3>2, <3>5
    <3>6. CASE some = <<ItemInfo, play>>
      BY <2>3, <3>1, <3>3, <3>6
    <3>7. QED
      BY <2>4, <3>4, <3>5, <3>6
  <2>6. reply' = <<>> /\ (s2c' = s2c \/ s2c' = s2c \o some)
    BY <2>2, <2>4 DEF Answer, Deliver
  <2>7. "Play" \notin Shift
    BY DEF Shift
  <2>8. QED
    BY <2>1, <2>5, <2>6, <2>7, OthersSelect
<1>5. CASE PlaylistAppend
  <2> DEFINE new == Head(c2s).items
  <2>1. Handle("Append") /\ selected' = selected /\ (stale => stale')
    BY <1>5 DEF PlaylistAppend, Locked
  <2>2. Head(c2s) \in Message /\ Head(c2s).op = "Append" /\ reply = <<>>
    BY <1>3, <2>1
  <2>3. new \in Seq(Item)
    BY <2>2, MessageFields
  <2>4. PICK some \in {Chunks(new), <<>>} : Answer(some)
    BY <1>5 DEF PlaylistAppend
  <2> HIDE DEF new
  <2>5. some \in Seq(Message) /\ \A m \in ToSet(some) : m.op # "Select"
    <3>1. Chunks(new) \in Seq(Message)
      BY <2>3, CountChunks
    <3>2. \A k \in DOMAIN Chunks(new) : Chunks(new)[k].op = "Append"
      BY DEF Chunks, Append_
    <3>3. \A m \in ToSet(Chunks(new)) : m.op # "Select"
      BY <3>2 DEF ToSet
    <3>4. QED
      BY <1>2, <2>4, <3>1, <3>3
  <2>6. reply' = <<>> /\ (s2c' = s2c \/ s2c' = s2c \o some)
    BY <2>2, <2>4 DEF Answer, Deliver
  <2>7. "Append" \notin Shift
    BY DEF Shift
  <2>8. QED
    BY <2>1, <2>5, <2>6, <2>7, OthersSelect
<1>6. CASE PlaylistRemove \/ PlaylistMove \/ PlaylistClear
  <2>1. PICK op \in {"Remove", "Move", "Clear"} : Handle(op)
    BY <1>6 DEF PlaylistRemove, PlaylistMove, PlaylistClear, Locked
  <2>2. AnswerUnlocked(Head(c2s)) /\ selected' = selected
    BY <1>6 DEF PlaylistRemove, PlaylistMove, PlaylistClear
  <2>3. reply' = <<Head(c2s)>> /\ s2c' = s2c /\ stale' = stale
    BY <2>2 DEF AnswerUnlocked
  <2>4. op \in Shift
    BY DEF Shift
  <2>5. stale => stale'
    BY <2>3
  <2>6. QED
    BY <1>2, <2>1, <2>2, <2>3, <2>4, <2>5, OthersSelect
<1>7. CASE ReplyCompose
  <2>1. /\ UNCHANGED <<selected, aborted, reply, c2s, s2c, up, cursor, waitReply, edited, early, stale>>
        /\ (clobbered => clobbered')
    BY <1>7 DEF ReplyCompose, server, pipes, view
  <2>2. Alone' => Alone
    BY <2>1 DEF Alone
  <2>3. QED
    BY <1>1, <2>1, <2>2 DEF ReplyInv, SelectInv, Unsettled, Shifting, Chosen, ToSet, Shift
<1>8. CASE ReplySend
  <2>1. /\ composed /\ reply' = <<>> /\ s2c' = (IF up THEN s2c \o buffer ELSE s2c)
        /\ UNCHANGED <<selected, aborted, c2s, up, cursor, waitReply, edited, clobbered, early, stale>>
    BY <1>8 DEF ReplySend, Deliver, server, view, history
  <2>2. ReplyInv'
    BY <1>2, <2>1 DEF ReplyInv, Shift
  <2>3. SUFFICES ASSUME Alone', ~early', ~stale' PROVE ~Unsettled' /\ Shifting'
    BY <2>2 DEF SelectInv
  <2>4. Alone /\ ~early /\ ~stale /\ reply # <<>> /\ s2c' = s2c \o reply
    BY <1>1, <2>1, <2>3 DEF Alone, BufferInv, TypeInv
  <2>5. ~Unsettled
    BY <1>1, <2>4 DEF SelectInv
  <2>6. ToSet(s2c') = ToSet(s2c) \cup ToSet(reply) /\ Head(reply) \in ToSet(reply)
    BY <1>1, <2>4, Elements
  <2>7. \A m \in ToSet(reply) : m.op \in Shift
    BY <1>1 DEF ReplyInv
  <2>8. \A m \in ToSet(s2c') : m.op # "Select"
    BY <2>5, <2>6, <2>7 DEF Unsettled, Shift
  <2>9. ~Unsettled'
    BY <2>1, <2>5, <2>8 DEF Unsettled, ToSet
  <2>10. Shifting'
    BY <2>6, <2>7 DEF Shifting, ToSet, Shift
  <2>11. QED
    BY <2>9, <2>10
<1>9. CASE NewsSend
  <2>1. /\ news /\ reply' = reply /\ s2c' = (IF up THEN s2c \o buffer ELSE s2c)
        /\ UNCHANGED <<selected, aborted, c2s, up, cursor, waitReply, edited, clobbered, early, stale>>
    BY <1>9 DEF NewsSend, Deliver, server, view, history
  <2>2. ReplyInv'
    BY <1>1, <2>1 DEF ReplyInv, Shift
  <2>3. SUFFICES ASSUME Alone', ~early', ~stale'
                 PROVE  /\ (Unsettled' => /\ ~waitReply /\ reply = <<>>
                                          /\ \A m \in ToSet(c2s) : m.op = "Sync"
                                          /\ \A m \in ToSet(s2c') : m.op = "Select" => m.pos = selected)
                        /\ (~Unsettled' /\ ~Shifting' => Chosen')
    <3>1. ToSet(c2s)' = ToSet(c2s) /\ ToSet(s2c)' = ToSet(s2c')
      BY <2>1 DEF ToSet
    <3>2. QED
      BY <2>1, <2>2, <2>3, <3>1 DEF SelectInv
  <2>4. Alone /\ ~early /\ ~stale /\ s2c' = s2c \o <<ItemInfo>>
    BY <1>1, <2>1, <2>3 DEF Alone, BufferInv
  <2>5. ItemInfo \in Message /\ ItemInfo.op = "ItemInfo" /\ <<ItemInfo>> \in Seq(Message)
    BY Messages DEF ItemInfo
  <2>6. ToSet(s2c') = ToSet(s2c) \cup {ItemInfo}
    <3>1. ToSet(s2c \o <<ItemInfo>>) = ToSet(s2c) \cup {ItemInfo}
      BY <1>1, <2>5, OneMore
    <3>2. QED
      BY <2>4, <3>1
  <2>7. Unsettled' <=> Unsettled
    BY <2>1, <2>5, <2>6 DEF Unsettled, ToSet
  <2>8. ~Shifting' => ~Shifting
    BY <2>1, <2>6 DEF Shifting, ToSet, Shift
  <2>9. Chosen => Chosen'
    BY <2>1 DEF Chosen
  <2>10. QED
    BY <1>1, <2>4, <2>5, <2>6, <2>7, <2>8, <2>9 DEF SelectInv
<1>10. QED
  BY <1>4, <1>5, <1>6, <1>7, <1>8, <1>9, SyncSelect, SelectTaken DEF Serve

(* The slots: the first selection to come is the server's; a reply that    *)
(* moves the cursor has the server told.                                   *)
LEMMA ShowSelect == ASSUME IInv, Show PROVE ReplyInv' /\ SelectInv'
<1> DEFINE m == Head(s2c)
<1>1. /\ TypeInv /\ CountInv /\ ReplyInv /\ SelectInv /\ c2s \in Seq(Message) /\ reply \in Seq(Message)
      /\ s2c \in Seq(Message) \ {<<>>} /\ up /\ s2c' = Tail(s2c) /\ ~aborted
      /\ UNCHANGED <<selected, reply, up, edited, clobbered, early, stale>>
  BY DEF IInv, CopyInv, TypeInv, Show, SlotSelect, SlotPlay, SlotAppend, SlotRemove, SlotMove, SlotClear,
         IgnoreNews, Receive, server, session, history
<1>2. ReplyInv'
  BY <1>1 DEF ReplyInv, Shift
<1>3. SUFFICES ASSUME Alone', ~early', ~stale'
               PROVE  /\ (Unsettled' => /\ ~waitReply' /\ reply = <<>>
                                        /\ \A x \in ToSet(c2s') : x.op = "Sync"
                                        /\ \A x \in ToSet(s2c') : x.op = "Select" => x.pos = selected)
                      /\ (~Unsettled' /\ ~Shifting' => Chosen')
  <2>1. ToSet(c2s)' = ToSet(c2s') /\ ToSet(s2c)' = ToSet(s2c')
    BY DEF ToSet
  <2>2. QED
    BY <1>1, <1>2, <1>3, <2>1 DEF SelectInv
<1>4. Alone /\ ~early /\ ~stale /\ ~clobbered
  BY <1>1, <1>3 DEF Alone
<1>5. m \in Message /\ s2c' \in Seq(Message) /\ ToSet(s2c) = {m} \cup ToSet(s2c')
  BY <1>1, HeadAndTail, Elements
<1> HIDE DEF m
<1>6. CASE SlotSelect
  <2>1. m.op = "Select" /\ cursor' = m.pos /\ c2s' = c2s /\ waitReply' = waitReply
    BY <1>6 DEF SlotSelect, Receive, m
  <2>2. Unsettled
    BY <1>5, <2>1 DEF Unsettled
  <2>3. /\ ~waitReply /\ reply = <<>> /\ (\A x \in ToSet(c2s) : x.op = "Sync")
        /\ \A x \in ToSet(s2c) : x.op = "Select" => x.pos = selected
    BY <1>1, <1>4, <2>2 DEF SelectInv
  <2>4. \A k \in 1 .. Len(c2s') : c2s'[k].op # "Select"
    <3>1. DOMAIN c2s = 1 .. Len(c2s)
      BY <1>1, LenProperties
    <3>2. QED
      BY <2>1, <2>3, <3>1 DEF ToSet
  <2>5. selected' = cursor'
    BY <1>1, <1>5, <2>1, <2>3
  <2>6. Chosen'
    BY <2>4, <2>5 DEF Chosen
  <2>7. QED
    BY <1>5, <2>1, <2>3, <2>6
<1>7. CASE SlotPlay \/ SlotAppend \/ IgnoreNews
  <2>1. /\ m.op \in {"Play", "Append", "ItemInfo"} /\ cursor' = cursor /\ c2s' = c2s
        /\ (waitReply' = waitReply \/ waitReply' = FALSE)
    BY <1>7 DEF SlotPlay, SlotAppend, IgnoreNews, Receive, m
  <2>2. Unsettled' <=> Unsettled
    BY <1>5, <2>1 DEF Unsettled, ToSet
  <2>3. ~Shifting' => ~Shifting
    BY <1>1, <1>5, <2>1 DEF Shifting, ToSet, Shift
  <2>4. Chosen => Chosen'
    BY <1>1, <2>1 DEF Chosen
  <2>5. ~waitReply => ~waitReply'
    BY <2>1
  <2>6. QED
    BY <1>1, <1>4, <1>5, <2>1, <2>2, <2>3, <2>4, <2>5 DEF SelectInv
<1>8. CASE SlotRemove \/ SlotMove \/ SlotClear
  <2>1. m.op \in Shift /\ Request(Select(cursor'))
    BY <1>8 DEF SlotRemove, SlotMove, SlotClear, Receive, m, Shift
  <2>2. cursor' \in Int
    <3>1. TypeInv'
      BY ShowStep DEF IInv, CopyInv
    <3>2. QED
      BY <3>1 DEF TypeInv
  <2>3. Select(cursor') \in Message /\ Select(cursor').op = "Select"
    BY <2>2, Messages DEF Select
  <2>4. waitReply
    <3>1. GatedIn(s2c) # 0
      <4>1. GatedIn(<<m>>) = 1
        BY <1>5, <2>1, CountOne DEF Gated, Shift
      <4>2. GatedIn(s2c) = GatedIn(<<m>>) + GatedIn(s2c') /\ GatedIn(s2c') \in Nat
        BY <1>1, <1>5, CountEnds, CountNone DEF m
      <4>3. QED
        BY <4>1, <4>2
    <3>2. GatedIn(c2s) \in Nat /\ GatedIn(reply) \in Nat /\ GatedIn(s2c) \in Nat
      BY <1>1, CountNone
    <3>3. Outstanding # 0
      BY <3>1, <3>2 DEF Outstanding
    <3>4. QED
      BY <1>1, <1>4, <3>3 DEF CountInv
  <2>5. ~Unsettled
    BY <1>1, <1>4, <2>4 DEF SelectInv
  <2>6. ToSet(c2s') = ToSet(c2s) \cup {Select(cursor')}
    BY <1>1, <2>1, <2>3, Elements DEF Request
  <2>7. ~Unsettled'
    <3>1. \A x \in ToSet(c2s') : x.op # "Sync"
      BY <2>3, <2>5, <2>6 DEF Unsettled
    <3>2. \A x \in ToSet(s2c') : x.op # "Select"
      BY <1>5, <2>5 DEF Unsettled
    <3>3. QED
      BY <3>1, <3>2 DEF Unsettled, ToSet
  <2>8. Chosen'
    BY <1>1, <2>1, <2>2, ChosenLast
  <2>9. QED
    BY <2>7, <2>8
<1>9. QED
  BY <1>6, <1>7, <1>8 DEF Show

(* Coming and going.                                                       *)
LEMMA GoSelect ==
  ASSUME IInv, NewsCompose \/ Connect \/ Quit \/ LoseRest \/ OthersEdit
  PROVE  ReplyInv' /\ SelectInv'
<1>1. TypeInv /\ CountInv /\ GoneInv /\ ReplyInv /\ SelectInv
  BY DEF IInv, CopyInv
<1>2. CASE NewsCompose
  <2>1. /\ UNCHANGED <<selected, aborted, reply, c2s, s2c, up, cursor, waitReply, edited, early, stale>>
        /\ (clobbered => clobbered')
    BY <1>2 DEF NewsCompose, server, pipes, view
  <2>2. Alone' => Alone
    BY <2>1 DEF Alone
  <2>3. QED
    BY <1>1, <2>1, <2>2 DEF ReplyInv, SelectInv, Unsettled, Shifting, Chosen, ToSet, Shift
<1>3. CASE Connect
  <2>1. /\ ~up /\ reply = <<>> /\ c2s' = [i \in 1 .. Syncs |-> Sync(i = 1)]
        /\ UNCHANGED <<reply, s2c, waitReply>>
    BY <1>3 DEF Connect, session
  <2>2. s2c' = <<>> /\ ~waitReply'
    BY <1>1, <2>1 DEF GoneInv, CountInv
  <2>3. \A x \in ToSet(c2s') : x.op = "Sync"
    BY <2>1 DEF ToSet, Sync
  <2>4. c2s'[1] \in ToSet(c2s') /\ c2s'[1].op = "Sync"
    <3>1. 1 \in 1 .. Syncs
      BY BoundsAssumption
    <3>2. QED
      BY <2>1, <3>1 DEF ToSet, Sync
  <2>5. Unsettled'
    BY <2>4 DEF Unsettled, ToSet
  <2>6. ToSet(s2c') = {} /\ ToSet(reply') = {}
    BY <2>1, <2>2, Elements
  <2>7. ReplyInv'
    BY <2>6 DEF ReplyInv, ToSet, Shift
  <2>8. (\A x \in ToSet(c2s) : x.op = "Sync")' /\ (\A x \in ToSet(s2c) : x.op = "Select" => x.pos = selected)'
    BY <2>3, <2>6 DEF ToSet
  <2>9. QED
    BY <2>1, <2>2, <2>5, <2>7, <2>8 DEF SelectInv
<1>4. CASE Quit
  <2>1. ~up' /\ reply' = reply
    BY <1>4 DEF Quit, session
  <2>2. QED
    BY <1>1, <2>1 DEF ReplyInv, SelectInv, Alone, ToSet, Shift
<1>5. CASE LoseRest
  <2>1. ~up /\ up' = up /\ reply' = reply
    BY <1>5 DEF LoseRest, session, view
  <2>2. QED
    BY <1>1, <2>1 DEF ReplyInv, SelectInv, Alone, ToSet, Shift
<1>6. CASE OthersEdit
  <2>1. edited' = TRUE /\ reply' = reply
    BY <1>6 DEF OthersEdit, session
  <2>2. QED
    BY <1>1, <2>1 DEF ReplyInv, SelectInv, Alone, ToSet, Shift
<1>7. QED
  BY <1>2, <1>3, <1>4, <1>5, <1>6
-----------------------------------------------------------------------------
(* What plays.                                                             *)

(* What a session sends: settings are in their range.                      *)
Tell ==
  {m \in S!Message : /\ m.op = "Volume" => m.value \in 0 .. VolumeTop
                     /\ m.op = "PlayMode" => m.value \in 0 .. Modes - 1}

News(item) == [op |-> "ItemInfo", item |-> item]
Setting(op, value) == [op |-> op, value |-> value]

(* The last message of the kind of m, the last one received included.      *)
Latest(pipe, m, received) ==
  \/ received = m /\ \A k \in 1 .. Len(pipe) : pipe[k].op # m.op
  \/ \E k \in 1 .. Len(pipe) : pipe[k] = m /\ \A j \in k + 1 .. Len(pipe) : pipe[j].op # m.op

Asked(op) == \E k \in 1 .. Len(asks) : asks[k].op = op

PlayerTypes ==
  /\ running \in BOOLEAN /\ waitSync \in BOOLEAN /\ awaits \in BOOLEAN
  /\ missed \in BOOLEAN /\ foreign \in BOOLEAN
  /\ current \in Item /\ volume \in 0 .. VolumeTop /\ mode \in 0 .. Modes - 1
  /\ asks \in Seq(S!Message) /\ tells \in Seq(Tell)
  /\ link \in {"trying", "connected", "up"}
  /\ status \in [playing : BOOLEAN, item : Item \cup {NoItem}]
  /\ shown \in [playing : BOOLEAN, item : Item \cup {NoItem}]
  /\ shownVolume \in {S!Unknown} \cup 0 .. VolumeTop
  /\ shownMode \in {S!Unknown} \cup 0 .. Modes - 1

(* A setting that others leave alone is asked for, or the last told.       *)
VolumeTold ==
  link = "up" /\ ~foreign =>
    Asked("Volume") \/ Latest(tells, Setting("Volume", volume), Setting("Volume", shownVolume))

ModeTold ==
  link = "up" /\ ~foreign =>
    Asked("PlayMode") \/ Latest(tells, Setting("PlayMode", mode), Setting("PlayMode", shownMode))

(* The client has been told nothing, and asks as one that has not.         *)
Untold ==
  /\ status.playing = FALSE
  /\ \A k \in 1 .. Len(asks) : asks[k].op = "Sync" => asks[k].running = FALSE
  /\ \A k \in 1 .. Len(tells) : tells[k].op = "Sync" => tells[k].running = FALSE

ItemTold == ~missed => Untold \/ Latest(tells, News(current), News(status.item))

(* Before there is a connection nothing is asked for, or told.             *)
Trying == link = "trying" => asks = <<>> /\ tells = <<>> /\ status.playing = FALSE

PlayerInv == PlayerTypes /\ S!OneSync /\ VolumeTold /\ ModeTold /\ ItemTold /\ Trying

(* The fields of the messages.                                             *)
LEMMA PlayerMessages ==
  /\ \A m \in S!Message : /\ m.op = "Sync" => m.running \in BOOLEAN
                          /\ m.op \in {"Volume", "PlayMode"} => m.value \in Int /\ m = Setting(m.op, m.value)
                          /\ m.op = "ItemInfo" => m.item \in Item /\ m = News(m.item)
  /\ \A is \in BOOLEAN : [op |-> "Sync", running |-> is] \in S!Message
  /\ \A op \in {"Volume", "PlayMode"}, value \in Int : Setting(op, value) \in S!Message
  /\ \A op \in {"Pause", "Seek", "PlayNext", "Play"} : [op |-> op] \in S!Message
  /\ \A item \in Item : News(item) \in S!Message
<1>1. ASSUME NEW m \in S!Message
      PROVE  /\ m.op = "Sync" => m.running \in BOOLEAN
             /\ m.op \in {"Volume", "PlayMode"} => m.value \in Int /\ m = Setting(m.op, m.value)
             /\ m.op = "ItemInfo" => m.item \in Item /\ m = News(m.item)
  <2>1. CASE m \in [op : {"Sync"}, running : BOOLEAN]
    BY <2>1
  <2>2. CASE m \in [op : {"Volume", "PlayMode"}, value : Int]
    BY <2>2 DEF Setting
  <2>3. CASE m \in [op : {"Pause", "Seek", "PlayNext", "Play"}]
    BY <2>3
  <2>4. CASE m \in [op : {"ItemInfo"}, item : Item]
    BY <2>4 DEF News
  <2>5. QED
    BY <1>1, <2>1, <2>2, <2>3, <2>4 DEF S!Message
<1>2. QED
  BY <1>1 DEF S!Message, Setting, News

(* What a session sends.                                                   *)
LEMMA Tells ==
  /\ \A m \in Tell : /\ m \in S!Message
                     /\ m.op = "Volume" => m.value \in 0 .. VolumeTop
                     /\ m.op = "PlayMode" => m.value \in 0 .. Modes - 1
  /\ \A is \in BOOLEAN : [op |-> "Sync", running |-> is] \in Tell
  /\ \A value \in 0 .. VolumeTop : Setting("Volume", value) \in Tell
  /\ \A value \in 0 .. Modes - 1 : Setting("PlayMode", value) \in Tell
  /\ \A op \in {"Pause", "Seek", "PlayNext", "Play"} : [op |-> op] \in Tell
  /\ \A item \in Item : News(item) \in Tell
<1>1. \A is \in BOOLEAN : [op |-> "Sync", running |-> is] \in Tell
  BY PlayerMessages DEF Tell
<1>2. ASSUME NEW value \in 0 .. VolumeTop PROVE Setting("Volume", value) \in Tell
  <2>1. Setting("Volume", value) \in S!Message
    BY SettingsAssumption, PlayerMessages
  <2>2. QED
    BY <2>1 DEF Tell, Setting
<1>3. ASSUME NEW value \in 0 .. Modes - 1 PROVE Setting("PlayMode", value) \in Tell
  <2>1. Setting("PlayMode", value) \in S!Message
    BY SettingsAssumption, PlayerMessages
  <2>2. QED
    BY <2>1 DEF Tell, Setting
<1>4. ASSUME NEW op \in {"Pause", "Seek", "PlayNext", "Play"} PROVE [op |-> op] \in Tell
  BY PlayerMessages DEF Tell
<1>5. ASSUME NEW item \in Item PROVE News(item) \in Tell
  <2>1. News(item) \in S!Message
    BY PlayerMessages
  <2>2. QED
    BY <2>1 DEF Tell, News
<1>6. QED
  BY <1>1, <1>2, <1>3, <1>4, <1>5 DEF Tell

(* A pipe with one message more.                                           *)
LEMMA Grown ==
  ASSUME NEW Whatever, NEW pipe \in Seq(Whatever), NEW m \in Whatever
  PROVE  /\ Append(pipe, m) \in Seq(Whatever) /\ Len(pipe) \in Nat
         /\ Len(Append(pipe, m)) = Len(pipe) + 1 /\ Append(pipe, m)[Len(pipe) + 1] = m
         /\ \A k \in 1 .. Len(pipe) : Append(pipe, m)[k] = pipe[k]
BY AppendProperties, LenProperties

(* A pipe without its first.                                               *)
LEMMA Shrunk ==
  ASSUME NEW Whatever, NEW pipe \in Seq(Whatever), pipe # <<>>
  PROVE  /\ Len(pipe) \in Nat \ {0} /\ Head(pipe) = pipe[1] /\ Head(pipe) \in Whatever
         /\ Tail(pipe) \in Seq(Whatever) /\ Len(Tail(pipe)) = Len(pipe) - 1
         /\ \A k \in 1 .. Len(Tail(pipe)) : Tail(pipe)[k] = pipe[k + 1]
BY EmptySeq, HeadTailProperties

(* The replies of a handler, one after the other.                          *)
LEMMA Answers ==
  ASSUME NEW Whatever, NEW pipe \in Seq(Whatever), NEW i \in Whatever, NEW x \in Whatever
  PROVE  /\ pipe \o <<x>> = Append(pipe, x) /\ pipe \o (<<>> \o <<x>>) = Append(pipe, x)
         /\ pipe \o <<i, x>> = Append(Append(pipe, i), x)
         /\ pipe \o (<<i>> \o <<x>>) = Append(Append(pipe, i), x)
<1>1. <<x>> \in Seq(Whatever) /\ <<i>> \in Seq(Whatever)
  OBVIOUS
<1>2. pipe \o <<x>> = Append(pipe, x) /\ pipe \o <<i>> = Append(pipe, i)
  BY AppendIsConcat
<1>3. Append(pipe, i) \in Seq(Whatever)
  BY AppendProperties
<1>4. Append(pipe, i) \o <<x>> = Append(Append(pipe, i), x)
  BY <1>3, AppendIsConcat
<1>5. (pipe \o <<i>>) \o <<x>> = pipe \o (<<i>> \o <<x>>)
  BY <1>1, ConcatAssociative
<1>6. <<i>> \o <<x>> = <<i, x>>
  <2>1. <<i>> \o <<x>> = Append(<<i>>, x)
    BY <1>1, AppendIsConcat
  <2>2. Append(<<i>>, x) = <<i, x>>
    <3>1. /\ Append(<<i>>, x) \in Seq(Whatever) /\ Len(Append(<<i>>, x)) = 2
          /\ Append(<<i>>, x)[1] = i /\ Append(<<i>>, x)[2] = x
      BY <1>1, AppendProperties
    <3>2. <<i, x>> \in Seq(Whatever) /\ Len(<<i, x>>) = 2 /\ <<i, x>>[1] = i /\ <<i, x>>[2] = x
      OBVIOUS
    <3>3. \A k \in 1 .. 2 : k = 1 \/ k = 2
      OBVIOUS
    <3>4. QED
      BY <3>1, <3>2, <3>3, SeqEqual
  <2>3. QED
    BY <2>1, <2>2
<1>7. <<>> \o <<x>> = <<x>>
  BY <1>1, ConcatEmptySeq
<1>8. QED
  BY <1>2, <1>4, <1>5, <1>6, <1>7

(* How many syncs a pipe holds.                                            *)
LEMMA SyncCount ==
  ASSUME NEW Whatever, NEW pipe \in Seq(Whatever)
  PROVE  /\ S!Count("Sync", pipe) \in Nat
         /\ S!Count("Sync", <<>>) = 0
         /\ \A m \in Whatever :
              S!Count("Sync", Append(pipe, m)) = S!Count("Sync", pipe) + IF m.op = "Sync" THEN 1 ELSE 0
         /\ pipe # <<>> =>
              S!Count("Sync", pipe) = S!Count("Sync", Tail(pipe)) + IF Head(pipe).op = "Sync" THEN 1 ELSE 0
<1> DEFINE ops == {"Sync"}
<1>1. ASSUME NEW some PROVE S!Count("Sync", some) = Number(some, ops)
  <2>1. {k \in DOMAIN some : some[k].op = "Sync"} = {k \in DOMAIN some : some[k].op \in ops}
    OBVIOUS
  <2>2. QED
    BY <2>1 DEF S!Count, Number, S!Cardinality, Cardinality
<1>2. ASSUME NEW m \in Whatever PROVE Number(<<m>>, ops) = IF m.op = "Sync" THEN 1 ELSE 0
  <2>1. m.op \in ops <=> m.op = "Sync"
    OBVIOUS
  <2>2. Number(<<m>>, ops) = IF m.op \in ops THEN 1 ELSE 0
    BY NumberOne
  <2>3. QED
    BY <2>1, <2>2
<1> HIDE DEF ops
<1>3. Number(pipe, ops) \in Nat
  BY NumberNone
<1>4. Number(<<>>, ops) = 0
  BY NumberEnds
<1>5. ASSUME NEW m \in Whatever
      PROVE  Number(Append(pipe, m), ops) = Number(pipe, ops) + Number(<<m>>, ops)
  BY NumberEnds
<1>6. ASSUME pipe # <<>>
      PROVE  Number(pipe, ops) = Number(Tail(pipe), ops) + IF Head(pipe).op = "Sync" THEN 1 ELSE 0
  <2>1. Head(pipe) \in Whatever /\ Tail(pipe) \in Seq(Whatever)
    BY <1>6, Shrunk
  <2>2. Number(pipe, ops) = Number(<<Head(pipe)>>, ops) + Number(Tail(pipe), ops)
    BY <1>6, NumberEnds
  <2>3. Number(Tail(pipe), ops) \in Nat
    BY <2>1, NumberNone
  <2>4. QED
    BY <1>2, <2>1, <2>2, <2>3
<1>7. QED
  BY <1>1, <1>2, <1>3, <1>4, <1>5, <1>6
(* The last of a kind, when one more is sent.                              *)
LEMMA LatestGrows ==
  ASSUME NEW Whatever, NEW pipe \in Seq(Whatever), NEW x \in Whatever, NEW m, NEW received
  PROVE  /\ x = m => Latest(Append(pipe, x), m, received)
         /\ x.op # m.op /\ Latest(pipe, m, received) => Latest(Append(pipe, x), m, received)
<1> DEFINE q == Append(pipe, x)
<1>1. /\ Len(pipe) \in Nat /\ Len(q) = Len(pipe) + 1 /\ q[Len(pipe) + 1] = x
      /\ \A k \in 1 .. Len(pipe) : q[k] = pipe[k]
  BY Grown
<1> HIDE DEF q
<1>2. ASSUME x = m PROVE Latest(q, m, received)
  <2>1. Len(pipe) + 1 \in 1 .. Len(q) /\ (Len(pipe) + 1) + 1 .. Len(q) = {}
    BY <1>1
  <2>2. QED
    BY <1>1, <1>2, <2>1 DEF Latest
<1>3. ASSUME x.op # m.op, Latest(pipe, m, received) PROVE Latest(q, m, received)
  <2>1. \A k \in 1 .. Len(q) : k \in 1 .. Len(pipe) \/ k = Len(pipe) + 1
    BY <1>1
  <2>2. CASE received = m /\ \A k \in 1 .. Len(pipe) : pipe[k].op # m.op
    BY <1>1, <1>3, <2>1, <2>2 DEF Latest
  <2>3. CASE \E k \in 1 .. Len(pipe) : pipe[k] = m /\ \A j \in k + 1 .. Len(pipe) : pipe[j].op # m.op
    <3>1. PICK k \in 1 .. Len(pipe) : pipe[k] = m /\ \A j \in k + 1 .. Len(pipe) : pipe[j].op # m.op
      BY <2>3
    <3>2. k \in 1 .. Len(q) /\ q[k] = m
      BY <1>1, <3>1
    <3>3. ASSUME NEW j \in k + 1 .. Len(q) PROVE q[j].op # m.op
      <4>1. j \in k + 1 .. Len(pipe) \/ j = Len(pipe) + 1
        BY <1>1
      <4>2. CASE j \in k + 1 .. Len(pipe)
        <5>1. j \in 1 .. Len(pipe)
          BY <1>1, <4>2
        <5>2. QED
          BY <1>1, <3>1, <4>2, <5>1
      <4>3. CASE j = Len(pipe) + 1
        BY <1>1, <1>3, <4>3
      <4>4. QED
        BY <4>1, <4>2, <4>3
    <3>4. QED
      BY <3>2, <3>3 DEF Latest
  <2>4. QED
    BY <1>3, <2>2, <2>3 DEF Latest
<1>4. QED
  BY <1>2, <1>3 DEF q

(* The last of a kind, when one is received.                               *)
LEMMA LatestShrinks ==
  ASSUME NEW Whatever, NEW pipe \in Seq(Whatever), pipe # <<>>, NEW m, NEW received, Latest(pipe, m, received),
         NEW now, Head(pipe).op # m.op => now = received, Head(pipe).op = m.op => now = Head(pipe)
  PROVE  Latest(Tail(pipe), m, now)
<1> DEFINE q == Tail(pipe)
<1>1. /\ Len(pipe) \in Nat \ {0} /\ Head(pipe) = pipe[1] /\ Len(q) = Len(pipe) - 1
      /\ \A k \in 1 .. Len(q) : q[k] = pipe[k + 1]
  BY Shrunk
<1> HIDE DEF q
<1>2. 1 \in 1 .. Len(pipe) /\ \A k \in 1 .. Len(q) : k + 1 \in 1 .. Len(pipe)
  BY <1>1
<1>3. CASE received = m /\ \A k \in 1 .. Len(pipe) : pipe[k].op # m.op
  <2>1. now = m
    BY <1>1, <1>2, <1>3
  <2>2. \A k \in 1 .. Len(q) : q[k].op # m.op
    BY <1>1, <1>2, <1>3
  <2>3. QED
    BY <2>1, <2>2 DEF Latest, q
<1>4. CASE \E k \in 1 .. Len(pipe) : pipe[k] = m /\ \A j \in k + 1 .. Len(pipe) : pipe[j].op # m.op
  <2>1. PICK k \in 1 .. Len(pipe) : pipe[k] = m /\ \A j \in k + 1 .. Len(pipe) : pipe[j].op # m.op
    BY <1>4
  <2>2. CASE k = 1
    <3>1. now = m
      BY <1>1, <2>1, <2>2
    <3>2. ASSUME NEW j \in 1 .. Len(q) PROVE q[j].op # m.op
      <4>1. j + 1 \in k + 1 .. Len(pipe)
        BY <1>1, <2>2
      <4>2. QED
        BY <1>1, <2>1, <4>1
    <3>3. QED
      BY <3>1, <3>2 DEF Latest, q
  <2>3. CASE k # 1
    <3>1. k - 1 \in 1 .. Len(q) /\ (k - 1) + 1 = k
      BY <1>1, <2>3
    <3>2. q[k - 1] = m
      BY <1>1, <2>1, <3>1
    <3>3. ASSUME NEW j \in (k - 1) + 1 .. Len(q) PROVE q[j].op # m.op
      <4>1. j \in 1 .. Len(q) /\ j + 1 \in k + 1 .. Len(pipe)
        BY <1>1, <3>1
      <4>2. QED
        BY <1>1, <2>1, <4>1
    <3>4. QED
      BY <3>1, <3>2, <3>3 DEF Latest, q
  <2>4. QED
    BY <2>2, <2>3
<1>5. QED
  BY <1>3, <1>4 DEF Latest

(* What the parts of the invariant say of the next state.                  *)
LEMMA PrimedPlayer ==
  /\ VolumeTold' <=> (link' = "up" /\ ~foreign' =>
       Asked("Volume")' \/ Latest(tells', Setting("Volume", volume'), Setting("Volume", shownVolume')))
  /\ ModeTold' <=> (link' = "up" /\ ~foreign' =>
       Asked("PlayMode")' \/ Latest(tells', Setting("PlayMode", mode'), Setting("PlayMode", shownMode')))
  /\ ItemTold' <=> (~missed' => Untold' \/ Latest(tells', News(current'), News(status'.item)))
  /\ S!OneSync' <=> S!Count("Sync", asks') + S!Count("Sync", tells') = IF waitSync' THEN 1 ELSE 0
BY DEF VolumeTold, ModeTold, ItemTold, Latest, Setting, News, S!OneSync, S!Count

(* What is asked for stays asked for, until it is answered.                *)
LEMMA AskedKept ==
  ASSUME asks \in Seq(S!Message), NEW op, Asked(op),
         \/ asks' = asks
         \/ \E m \in S!Message : asks' = Append(asks, m)
         \/ asks # <<>> /\ asks' = Tail(asks) /\ Head(asks).op # op
  PROVE  Asked(op)'
<1>1. PICK k \in 1 .. Len(asks) : asks[k].op = op
  BY DEF Asked
<1>2. CASE asks' = asks
  BY <1>1, <1>2 DEF Asked
<1>3. CASE \E m \in S!Message : asks' = Append(asks, m)
  <2>1. PICK m \in S!Message : asks' = Append(asks, m)
    BY <1>3
  <2>2. Len(asks) \in Nat /\ Len(asks') = Len(asks) + 1 /\ asks'[k] = asks[k]
    BY <2>1, Grown
  <2>3. k \in 1 .. Len(asks')
    BY <2>2
  <2>4. QED
    BY <1>1, <2>2, <2>3 DEF Asked
<1>4. CASE asks # <<>> /\ asks' = Tail(asks) /\ Head(asks).op # op
  <2>1. /\ Len(asks) \in Nat \ {0} /\ Head(asks) = asks[1] /\ Len(asks') = Len(asks) - 1
        /\ \A j \in 1 .. Len(asks') : asks'[j] = asks[j + 1]
    BY <1>4, Shrunk
  <2>2. k # 1
    BY <1>1, <1>4, <2>1
  <2>3. k - 1 \in 1 .. Len(asks') /\ (k - 1) + 1 = k
    BY <2>1, <2>2
  <2>4. asks'[k - 1].op = op
    BY <1>1, <2>1, <2>3
  <2>5. QED
    BY <2>3, <2>4 DEF Asked
<1>5. QED
  BY <1>2, <1>3, <1>4
(* A request leaves the client as it is.                                   *)
LEMMA RequestKeeps ==
  ASSUME S!Requests
  PROVE  /\ asks # <<>> /\ asks' = Tail(asks) /\ link' = link /\ status' = status /\ waitSync' = waitSync
         /\ shown' = shown /\ shownVolume' = shownVolume /\ shownMode' = shownMode
         /\ awaits' = awaits /\ foreign' = foreign
<1>1. PICK op \in {"Pause", "Seek", "Volume", "PlayMode", "PlayNext", "Play", "Sync"} : S!Serve(op)
  BY DEF S!Requests, S!PlayerPause, S!PlayerSeek, S!PlayerVolume, S!PlayerPlayMode, S!PlayerPlayNext,
         S!PlaylistPlay, S!PlayerSync
<1>2. QED
  BY <1>1 DEF S!Serve, S!handler, S!view

(* A handler replies once, to what it was asked, and may send the news of  *)
(* what plays before that; what plays changes unseen only if it says so.   *)
Replied(x) ==
  /\ x.op = Head(asks).op /\ x.op # "ItemInfo"
  /\ x.op = "Sync" => running' = running /\ x.running = running
  /\ IF x.op = "Volume" THEN x = Setting("Volume", volume') ELSE volume' = volume
  /\ IF x.op = "PlayMode" THEN x = Setting("PlayMode", mode') ELSE mode' = mode
  /\ \/ /\ tells' = Append(tells, x)
        /\ ~missed' => ~missed /\ current' = current
        /\ x.op = "Sync" => Head(asks).running = TRUE \/ running = FALSE
     \/ tells' = Append(Append(tells, News(current')), x)

(* The server's variables are in their domains.                            *)
ServerTypes ==
  /\ running \in BOOLEAN /\ missed \in BOOLEAN /\ current \in Item
  /\ volume \in 0 .. VolumeTop /\ mode \in 0 .. Modes - 1

(* Every handler does so.                                                 *)
LEMMA RequestShape ==
  ASSUME PlayerTypes, S!Requests
  PROVE  ServerTypes' /\ \E x \in Tell : Replied(x)
<1>1. /\ asks \in Seq(S!Message) /\ tells \in Seq(Tell) /\ running \in BOOLEAN /\ missed \in BOOLEAN
      /\ current \in Item /\ volume \in 0 .. VolumeTop /\ mode \in 0 .. Modes - 1
      /\ volume \in Int /\ mode \in Int /\ VolumeTop \in Nat /\ Modes \in Nat /\ Modes > 0
  BY SettingsAssumption DEF PlayerTypes
<1>2. asks # <<>> /\ Head(asks) \in S!Message
  BY <1>1, RequestKeeps, Shrunk
<1>3. ASSUME NEW x \in Tell, tells' = tells \o <<x>> PROVE tells' = Append(tells, x)
  BY <1>1, <1>3, Answers
<1>4. ASSUME NEW i \in Tell, NEW x \in Tell,
             tells' = tells \o <<i, x>> \/ tells' = tells \o (<<i>> \o <<x>>)
      PROVE  tells' = Append(Append(tells, i), x)
  BY <1>1, <1>4, Answers
<1>5. CASE S!PlayerPause
  <2> DEFINE x == [op |-> "Pause"]
  <2>1. x \in Tell /\ x.op = "Pause"
    BY Tells
  <2>2. Head(asks).op = "Pause" /\ tells' = tells \o <<x>>
    BY <1>5 DEF S!PlayerPause, S!Serve, S!Answer
  <2>3. running' \in BOOLEAN /\ current' = current /\ volume' = volume /\ mode' = mode
    BY <1>1, <1>5 DEF S!PlayerPause
  <2>4. missed' = missed
    BY <1>5 DEF S!PlayerPause
  <2> HIDE DEF x
  <2>5. tells' = Append(tells, x)
    BY <1>3, <2>1, <2>2
  <2>6. Replied(x)
    BY <2>1, <2>2, <2>3, <2>4, <2>5 DEF Replied
  <2>7. QED
    BY <1>1, <2>1, <2>3, <2>4, <2>6 DEF ServerTypes
<1>6. CASE S!PlayerSeek
  <2> DEFINE x == [op |-> "Seek"]
  <2>1. x \in Tell /\ x.op = "Seek"
    BY Tells
  <2>2. Head(asks).op = "Seek" /\ tells' = tells \o <<x>>
    BY <1>6 DEF S!PlayerSeek, S!Serve, S!Answer
  <2>3. current' = current /\ volume' = volume /\ mode' = mode
    BY <1>6 DEF S!PlayerSeek, S!server
  <2>4. missed' = missed /\ running' = running
    BY <1>6 DEF S!PlayerSeek, S!server
  <2> HIDE DEF x
  <2>5. tells' = Append(tells, x)
    BY <1>3, <2>1, <2>2
  <2>6. Replied(x)
    BY <2>1, <2>2, <2>3, <2>4, <2>5 DEF Replied
  <2>7. QED
    BY <1>1, <2>1, <2>3, <2>4, <2>6 DEF ServerTypes
<1>7. CASE S!PlayerVolume
  <2> DEFINE x == Setting("Volume", volume')
  <2>1. Head(asks).op = "Volume" /\ tells' = tells \o <<x>>
    BY <1>7 DEF S!PlayerVolume, S!Serve, S!Answer, Setting
  <2>2. current' = current /\ mode' = mode
    BY <1>7 DEF S!PlayerVolume
  <2>3. missed' = missed /\ running' = running
    BY <1>7 DEF S!PlayerVolume
  <2>4. volume' \in 0 .. VolumeTop
    <3>1. Head(asks).value \in Int
      BY <1>2, <2>1, PlayerMessages
    <3>2. PICK vol \in Int : volume' = IF vol > VolumeTop THEN VolumeTop ELSE IF vol < 0 THEN 0 ELSE vol
      <4>1. volume + Head(asks).value \in Int
        BY <1>1, <3>1
      <4>2. QED
        BY <1>7, <4>1 DEF S!PlayerVolume
    <3>3. QED
      BY <1>1, <3>2
  <2>5. x \in Tell /\ x.op = "Volume"
    BY <2>4, Tells DEF Setting
  <2> HIDE DEF x
  <2>6. tells' = Append(tells, x)
    BY <1>3, <2>1, <2>5
  <2>7. x = Setting("Volume", volume')
    BY DEF x
  <2>8. Replied(x)
    BY <2>1, <2>2, <2>3, <2>5, <2>6, <2>7 DEF Replied
  <2>9. QED
    BY <1>1, <2>2, <2>3, <2>4, <2>5, <2>8 DEF ServerTypes
<1>8. CASE S!PlayerPlayMode
  <2> DEFINE x == Setting("PlayMode", mode')
  <2>1. Head(asks).op = "PlayMode" /\ tells' = tells \o <<x>>
    BY <1>8 DEF S!PlayerPlayMode, S!Serve, S!Answer, Setting
  <2>2. current' = current /\ volume' = volume
    BY <1>8 DEF S!PlayerPlayMode
  <2>3. missed' = missed /\ running' = running
    BY <1>8 DEF S!PlayerPlayMode
  <2>4. mode' \in 0 .. Modes - 1
    <3>1. Head(asks).value \in Int
      BY <1>2, <2>1, PlayerMessages
    <3>2. mode + Head(asks).value \in Int
      BY <1>1, <3>1
    <3>3. mode' = (mode + Head(asks).value) % Modes
      BY <1>8 DEF S!PlayerPlayMode
    <3>4. \A n \in Int : n % Modes \in 0 .. Modes - 1
      BY <1>1
    <3>5. QED
      BY <3>2, <3>3, <3>4
  <2>5. x \in Tell /\ x.op = "PlayMode"
    BY <2>4, Tells DEF Setting
  <2> HIDE DEF x
  <2>6. tells' = Append(tells, x)
    BY <1>3, <2>1, <2>5
  <2>7. x = Setting("PlayMode", mode')
    BY DEF x
  <2>8. Replied(x)
    BY <2>1, <2>2, <2>3, <2>5, <2>6, <2>7 DEF Replied
  <2>9. QED
    BY <1>1, <2>2, <2>3, <2>4, <2>5, <2>8 DEF ServerTypes
<1>9. CASE S!PlayerPlayNext
  <2> DEFINE x == [op |-> "PlayNext"]
             i == News(current')
  <2>1. x \in Tell /\ x.op = "PlayNext"
    BY Tells
  <2>2. Head(asks).op = "PlayNext" /\ volume' = volume /\ mode' = mode
    BY <1>9 DEF S!PlayerPlayNext, S!Serve
  <2>3. \/ /\ current' \in Item /\ running' \in BOOLEAN
           /\ tells' = tells \o <<i, x>> /\ missed' = FALSE
        \/ UNCHANGED <<current, running, missed>> /\ tells' = tells \o <<x>>
    BY <1>9 DEF S!PlayerPlayNext, S!Answer, S!Info, News
  <2>4. current' \in Item
    BY <1>1, <2>3
  <2>5. i \in Tell
    BY <2>4, Tells
  <2> HIDE DEF x, i
  <2>6. CASE current' \in Item /\ running' \in BOOLEAN /\ tells' = tells \o <<i, x>> /\ missed' = FALSE
    <3>1. tells' = Append(Append(tells, News(current')), x)
      BY <1>4, <2>1, <2>5, <2>6 DEF i
    <3>2. Replied(x)
      BY <2>1, <2>2, <3>1 DEF Replied
    <3>3. missed' \in BOOLEAN /\ running' \in BOOLEAN
      BY <2>6
    <3>4. QED
      BY <1>1, <2>1, <2>2, <2>4, <3>2, <3>3 DEF ServerTypes
  <2>7. CASE UNCHANGED <<current, running, missed>> /\ tells' = tells \o <<x>>
    <3>1. tells' = Append(tells, x)
      BY <1>3, <2>1, <2>7
    <3>2. missed' = missed /\ running' = running
      BY <2>7
    <3>3. Replied(x)
      BY <2>1, <2>2, <2>7, <3>1, <3>2 DEF Replied
    <3>4. QED
      BY <1>1, <2>1, <2>2, <2>4, <3>2, <3>3 DEF ServerTypes
  <2>8. QED
    BY <2>3, <2>6, <2>7
<1>10. CASE S!PlaylistPlay
  <2> DEFINE x == [op |-> "Play"]
             i == News(current')
  <2>1. x \in Tell /\ x.op = "Play"
    BY Tells
  <2>2. Head(asks).op = "Play" /\ volume' = volume /\ mode' = mode
    BY <1>10 DEF S!PlaylistPlay, S!Serve
  <2>3. \/ /\ current' \in Item /\ running' = TRUE
           /\ tells' = tells \o <<i, x>> /\ missed' = FALSE
        \/ /\ current' \in Item /\ running' = FALSE
           /\ tells' = tells \o <<x>> /\ missed' = (missed \/ current' # current)
    BY <1>10 DEF S!PlaylistPlay, S!Answer, S!Info, News
  <2>4. current' \in Item /\ running' \in BOOLEAN
    BY <2>3
  <2>5. i \in Tell
    BY <2>4, Tells
  <2> HIDE DEF x, i
  <2>6. CASE tells' = tells \o <<i, x>> /\ missed' = FALSE
    <3>1. tells' = Append(Append(tells, News(current')), x)
      BY <1>4, <2>1, <2>5, <2>6 DEF i
    <3>2. Replied(x)
      BY <2>1, <2>2, <3>1 DEF Replied
    <3>3. missed' \in BOOLEAN
      BY <2>6
    <3>4. QED
      BY <1>1, <2>1, <2>2, <2>4, <3>2, <3>3 DEF ServerTypes
  <2>7. CASE tells' = tells \o <<x>> /\ missed' = (missed \/ current' # current)
    <3>1. tells' = Append(tells, x)
      BY <1>3, <2>1, <2>7
    <3>2. missed' \in BOOLEAN /\ (~missed' => ~missed /\ current' = current)
      BY <2>7
    <3>3. Replied(x)
      BY <2>1, <2>2, <3>1, <3>2 DEF Replied
    <3>4. QED
      BY <1>1, <2>1, <2>2, <2>4, <3>2, <3>3 DEF ServerTypes
  <2>8. QED
    BY <2>3, <2>6, <2>7
<1>11. CASE S!PlayerSync
  <2> DEFINE x == [op |-> "Sync", running |-> running]
             i == [op |-> "ItemInfo", item |-> current]
             starts == ~Head(asks).running /\ running
  <2>1. x \in Tell /\ x.op = "Sync" /\ x.running = running
    BY <1>1, Tells
  <2>2. Head(asks).op = "Sync" /\ volume' = volume /\ mode' = mode /\ current' = current
    BY <1>11 DEF S!PlayerSync, S!Serve, S!server
  <2>3. running' = running
    BY <1>11 DEF S!PlayerSync, S!server
  <2>4. Head(asks).running \in BOOLEAN
    BY <1>2, <2>2, PlayerMessages
  <2>5. i = News(current') /\ i \in Tell
    BY <1>1, <2>2, Tells DEF News
  <2>6. tells' = tells \o ((IF starts THEN <<i>> ELSE <<>>) \o <<x>>) /\ missed' = (missed /\ ~starts)
    BY <1>11 DEF S!PlayerSync, S!Answer
  <2>7. missed' \in BOOLEAN /\ (~starts => missed' = missed)
    BY <1>1, <2>6
  <2>8. ~starts => Head(asks).running = TRUE \/ running = FALSE
    BY <1>1, <2>4
  <2> HIDE DEF x, i, starts
  <2>9. CASE starts
    <3>1. tells' = Append(Append(tells, News(current')), x)
      BY <1>4, <2>1, <2>5, <2>6, <2>9
    <3>2. Replied(x)
      BY <2>1, <2>2, <2>3, <3>1 DEF Replied
    <3>3. QED
      BY <1>1, <2>1, <2>2, <2>3, <2>7, <3>2 DEF ServerTypes
  <2>10. CASE ~starts
    <3>1. tells' = tells \o (<<>> \o <<x>>)
      BY <2>6, <2>10
    <3>2. tells' = Append(tells, x)
      BY <1>1, <2>1, <3>1, Answers
    <3>3. Replied(x)
      BY <2>1, <2>2, <2>3, <2>7, <2>8, <2>10, <3>2 DEF Replied
    <3>4. QED
      BY <1>1, <2>1, <2>2, <2>3, <2>7, <3>3 DEF ServerTypes
  <2>11. QED
    BY <2>9, <2>10
<1>12. QED
  BY <1>5, <1>6, <1>7, <1>8, <1>9, <1>10, <1>11 DEF S!Requests
(* A request.                                                              *)
LEMMA RequestsKeep == ASSUME PlayerInv, S!Requests PROVE PlayerInv'
<1>1. /\ PlayerTypes /\ VolumeTold /\ ModeTold /\ ItemTold
      /\ S!Count("Sync", asks) + S!Count("Sync", tells) = IF waitSync THEN 1 ELSE 0
      /\ asks \in Seq(S!Message) /\ tells \in Seq(Tell) /\ waitSync \in BOOLEAN /\ status.playing \in BOOLEAN
  BY DEF PlayerInv, PlayerTypes, S!OneSync
<1>2. /\ asks # <<>> /\ asks' = Tail(asks) /\ link' = link /\ status' = status /\ waitSync' = waitSync
      /\ shown' = shown /\ shownVolume' = shownVolume /\ shownMode' = shownMode
      /\ awaits' = awaits /\ foreign' = foreign
  BY RequestKeeps
<1>3. ServerTypes' /\ \E x \in Tell : Replied(x)
  BY <1>1, RequestShape
<1>4. PICK x \in Tell : Replied(x)
  BY <1>3
<1> DEFINE i == News(current')
           one == Append(tells, x)
           two == Append(Append(tells, i), x)
<1>5. /\ x.op = Head(asks).op /\ x.op # "ItemInfo" /\ i \in Tell /\ i.op = "ItemInfo"
      /\ tells' = one \/ tells' = two
  BY <1>3, <1>4, Tells DEF Replied, ServerTypes, News
<1>6. one \in Seq(Tell) /\ two \in Seq(Tell) /\ Append(tells, i) \in Seq(Tell)
  <2>1. Append(tells, i) \in Seq(Tell) /\ one \in Seq(Tell)
    BY <1>1, <1>5, Grown
  <2>2. QED
    BY <2>1, Grown
<1>7. asks' \in Seq(S!Message) /\ Head(asks) \in S!Message
  BY <1>1, <1>2, Shrunk
<1>8. tells' \in Seq(Tell)
  BY <1>5, <1>6
<1>9. PlayerTypes'
  <2>1. running' \in BOOLEAN /\ missed' \in BOOLEAN /\ foreign' \in BOOLEAN
    BY <1>1, <1>2, <1>3 DEF PlayerTypes, ServerTypes
  <2>2. waitSync' \in BOOLEAN /\ awaits' \in BOOLEAN
    BY <1>1, <1>2 DEF PlayerTypes
  <2>3. QED
    BY <1>1, <1>2, <1>3, <1>7, <1>8, <2>1, <2>2 DEF PlayerTypes, ServerTypes, S!Message, S!Unknown, Tell
<1>10. S!OneSync'
  <2> DEFINE h == IF Head(asks).op = "Sync" THEN 1 ELSE 0
  <2>1. S!Count("Sync", asks) = S!Count("Sync", asks') + h
    BY <1>1, <1>2, SyncCount
  <2>2. S!Count("Sync", one) = S!Count("Sync", tells) + h
    BY <1>1, <1>5, SyncCount
  <2>3. S!Count("Sync", two) = S!Count("Sync", tells) + h
    <3>1. S!Count("Sync", Append(tells, i)) = S!Count("Sync", tells) + 0
      BY <1>1, <1>5, SyncCount
    <3>2. S!Count("Sync", two) = S!Count("Sync", Append(tells, i)) + h
      BY <1>5, <1>6, SyncCount
    <3>3. S!Count("Sync", tells) \in Nat /\ h \in Nat
      BY <1>1, SyncCount
    <3>4. QED
      BY <3>1, <3>2, <3>3
  <2>4. S!Count("Sync", tells') = S!Count("Sync", tells) + h
    BY <1>5, <2>2, <2>3
  <2>5. /\ S!Count("Sync", asks) \in Nat /\ S!Count("Sync", asks') \in Nat
        /\ S!Count("Sync", tells) \in Nat /\ h \in Nat
    BY <1>1, <1>7, SyncCount
  <2> HIDE DEF h
  <2>6. S!Count("Sync", asks') + S!Count("Sync", tells') = S!Count("Sync", asks) + S!Count("Sync", tells)
    BY <2>1, <2>4, <2>5
  <2>7. QED
    BY <1>1, <1>2, <2>6, PrimedPlayer
<1>11. ASSUME NEW m, NEW received, Latest(tells, m, received), m.op # x.op, m.op # "ItemInfo"
       PROVE  Latest(tells', m, received)
  <2>1. Latest(one, m, received)
    BY <1>1, <1>11, LatestGrows
  <2>2. Latest(Append(tells, i), m, received)
    BY <1>1, <1>5, <1>11, LatestGrows
  <2>3. Latest(two, m, received)
    BY <1>6, <1>11, <2>2, LatestGrows
  <2>4. QED
    BY <1>5, <2>1, <2>3
<1>12. ASSUME NEW received PROVE Latest(tells', x, received)
  BY <1>1, <1>5, <1>6, LatestGrows
<1>13. VolumeTold'
  <2>1. SUFFICES ASSUME link' = "up", ~foreign'
                 PROVE  \/ Asked("Volume")'
                        \/ Latest(tells', Setting("Volume", volume'), Setting("Volume", shownVolume'))
    BY PrimedPlayer
  <2>2. CASE x.op = "Volume"
    <3>1. x = Setting("Volume", volume')
      BY <1>4, <2>2 DEF Replied
    <3>2. QED
      BY <1>12, <3>1
  <2>3. CASE x.op # "Volume"
    <3>1. volume' = volume /\ (foreign' => foreign) /\ (foreign => foreign')
      BY <1>2, <1>4, <2>3 DEF Replied
    <3>2. Asked("Volume") \/ Latest(tells, Setting("Volume", volume), Setting("Volume", shownVolume))
      BY <1>1, <1>2, <2>1, <3>1 DEF VolumeTold
    <3>3. Asked("Volume") => Asked("Volume")'
      BY <1>1, <1>2, <1>5, <2>3, AskedKept
    <3>4. Setting("Volume", volume).op = "Volume"
      BY DEF Setting
    <3>5. Latest(tells, Setting("Volume", volume), Setting("Volume", shownVolume))
            => Latest(tells', Setting("Volume", volume), Setting("Volume", shownVolume))
      BY <1>11, <2>3, <3>4
    <3>6. QED
      BY <1>2, <3>1, <3>2, <3>3, <3>5
  <2>4. QED
    BY <2>2, <2>3
<1>14. ModeTold'
  <2>1. SUFFICES ASSUME link' = "up", ~foreign'
                 PROVE  \/ Asked("PlayMode")'
                        \/ Latest(tells', Setting("PlayMode", mode'), Setting("PlayMode", shownMode'))
    BY PrimedPlayer
  <2>2. CASE x.op = "PlayMode"
    <3>1. x = Setting("PlayMode", mode')
      BY <1>4, <2>2 DEF Replied
    <3>2. QED
      BY <1>12, <3>1
  <2>3. CASE x.op # "PlayMode"
    <3>1. mode' = mode /\ (foreign' => foreign) /\ (foreign => foreign')
      BY <1>2, <1>4, <2>3 DEF Replied
    <3>2. Asked("PlayMode") \/ Latest(tells, Setting("PlayMode", mode), Setting("PlayMode", shownMode))
      BY <1>1, <1>2, <2>1, <3>1 DEF ModeTold
    <3>3. Asked("PlayMode") => Asked("PlayMode")'
      BY <1>1, <1>2, <1>5, <2>3, AskedKept
    <3>4. Setting("PlayMode", mode).op = "PlayMode"
      BY DEF Setting
    <3>5. Latest(tells, Setting("PlayMode", mode), Setting("PlayMode", shownMode))
            => Latest(tells', Setting("PlayMode", mode), Setting("PlayMode", shownMode))
      BY <1>11, <2>3, <3>4
    <3>6. QED
      BY <1>2, <3>1, <3>2, <3>3, <3>5
  <2>4. QED
    BY <2>2, <2>3
<1>15. ItemTold'
  <2>1. SUFFICES ASSUME ~missed' PROVE Untold' \/ Latest(tells', News(current'), News(status'.item))
    BY PrimedPlayer
  <2>2. CASE tells' = two
    <3>1. Latest(Append(tells, i), i, News(status'.item))
      BY <1>1, <1>5, LatestGrows
    <3>2. Latest(two, i, News(status'.item))
      BY <1>5, <1>6, <3>1, LatestGrows
    <3>3. QED
      BY <2>2, <3>2
  <2>3. CASE tells' = one /\ tells' # two
    <3>1. ~missed /\ current' = current
      BY <1>4, <2>1, <2>3 DEF Replied
    <3>2. x.op = "Sync" => x.running = running /\ (Head(asks).running = TRUE \/ running = FALSE)
      BY <1>4, <2>3 DEF Replied
    <3>3. CASE Latest(tells, News(current), News(status.item))
      <4>1. News(current).op = "ItemInfo"
        BY DEF News
      <4>2. Latest(one, News(current), News(status.item))
        BY <1>1, <1>5, <3>3, <4>1, LatestGrows
      <4>3. QED
        BY <1>2, <2>3, <3>1, <4>2
    <3>4. CASE Untold
      <4>1. /\ Len(asks) \in Nat \ {0} /\ Head(asks) = asks[1] /\ Len(asks') = Len(asks) - 1
            /\ \A k \in 1 .. Len(asks') : asks'[k] = asks[k + 1]
        BY <1>1, <1>2, Shrunk
      <4>2. \A k \in 1 .. Len(asks') : k + 1 \in 1 .. Len(asks)
        BY <4>1
      <4>3. \A k \in 1 .. Len(asks') : asks'[k].op = "Sync" => asks'[k].running = FALSE
        BY <3>4, <4>1, <4>2 DEF Untold
      <4>4. x.op = "Sync" => x.running = FALSE
        <5>1. 1 \in 1 .. Len(asks)
          BY <4>1
        <5>2. x.op = "Sync" => Head(asks).running = FALSE
          BY <1>5, <3>4, <4>1, <5>1 DEF Untold
        <5>3. QED
          BY <3>2, <5>2
      <4>5. /\ Len(tells) \in Nat /\ Len(tells') = Len(tells) + 1 /\ tells'[Len(tells) + 1] = x
            /\ \A k \in 1 .. Len(tells) : tells'[k] = tells[k]
        BY <1>1, <2>3, Grown
      <4>6. \A k \in 1 .. Len(tells') : k \in 1 .. Len(tells) \/ k = Len(tells) + 1
        BY <4>5
      <4>7. \A k \in 1 .. Len(tells') : tells'[k].op = "Sync" => tells'[k].running = FALSE
        BY <3>4, <4>4, <4>5, <4>6 DEF Untold
      <4>8. status'.playing = FALSE
        BY <1>2, <3>4 DEF Untold
      <4>9. QED
        BY <4>3, <4>7, <4>8 DEF Untold
    <3>5. QED
      BY <1>1, <3>1, <3>3, <3>4 DEF ItemTold
  <2>4. QED
    BY <1>5, <2>2, <2>3
<1>16. Trying'
  BY <1>2 DEF PlayerInv, Trying
<1>17. QED
  BY <1>9, <1>10, <1>13, <1>14, <1>15, <1>16 DEF PlayerInv
(* A slot takes one message, and shows or keeps what it says.              *)
LEMMA SlotShape ==
  ASSUME PlayerTypes, S!Slots
  PROVE  /\ tells # <<>> /\ tells' = Tail(tells) /\ asks' = asks /\ link' = link
         /\ running' = running /\ current' = current /\ volume' = volume /\ mode' = mode
         /\ missed' = missed /\ foreign' = foreign /\ shown' = shown
         /\ waitSync' = (IF Head(tells).op = "Sync" THEN FALSE ELSE waitSync)
         /\ awaits' \in BOOLEAN
         /\ status' \in [playing : BOOLEAN, item : Item \cup {NoItem}]
         /\ status'.playing = (IF Head(tells).op = "Sync" THEN Head(tells).running ELSE status.playing)
         /\ status'.item = (IF Head(tells).op = "ItemInfo" THEN Head(tells).item ELSE status.item)
         /\ shownVolume' = (IF Head(tells).op = "Volume" THEN Head(tells).value ELSE shownVolume)
         /\ shownMode' = (IF Head(tells).op = "PlayMode" THEN Head(tells).value ELSE shownMode)
<1> DEFINE m == Head(tells)
<1>1. /\ tells \in Seq(Tell) /\ status \in [playing : BOOLEAN, item : Item \cup {NoItem}]
      /\ awaits \in BOOLEAN /\ waitSync \in BOOLEAN
  BY DEF PlayerTypes
<1>2. PICK op \in {"Sync", "ItemInfo", "Pause", "Seek", "PlayNext", "Volume", "PlayMode", "Play"} : S!Receive(op)
  BY DEF S!Slots, S!HandleSync, S!HandleItemInfo, S!SlotReply, S!SlotVolume, S!SlotPlayMode, S!IgnorePlay
<1>3. /\ tells # <<>> /\ tells' = Tail(tells) /\ asks' = asks /\ link' = link
      /\ running' = running /\ current' = current /\ volume' = volume /\ mode' = mode
      /\ missed' = missed /\ foreign' = foreign
  BY <1>2 DEF S!Receive, S!server
<1>4. m \in S!Message
  BY <1>1, <1>3, Shrunk, Tells
<1>5. CASE S!HandleSync
  <2>1. /\ m.op = "Sync" /\ waitSync' = FALSE /\ status' = [status EXCEPT !.playing = m.running]
        /\ shown' = shown /\ shownVolume' = shownVolume /\ shownMode' = shownMode
    BY <1>5 DEF S!HandleSync, S!Receive, S!view
  <2>2. m.running \in BOOLEAN /\ awaits' = awaits
    BY <1>4, <1>5, <2>1, PlayerMessages DEF S!HandleSync, S!view
  <2> HIDE DEF m
  <2>3. /\ status' \in [playing : BOOLEAN, item : Item \cup {NoItem}]
        /\ status'.playing = m.running /\ status'.item = status.item
    BY <1>1, <2>1, <2>2
  <2>4. awaits' \in BOOLEAN
    BY <1>1, <2>2
  <2>5. QED
    BY <1>3, <2>1, <2>3, <2>4 DEF m
<1>6. CASE S!HandleItemInfo
  <2>1. /\ m.op = "ItemInfo" /\ status' = [status EXCEPT !.item = m.item]
        /\ shown' = shown /\ shownVolume' = shownVolume /\ shownMode' = shownMode
    BY <1>6 DEF S!HandleItemInfo, S!Receive, S!view
  <2>2. awaits' = awaits /\ waitSync' = waitSync
    BY <1>6 DEF S!HandleItemInfo, S!view
  <2>3. m.item \in Item
    BY <1>4, <2>1, PlayerMessages
  <2> HIDE DEF m
  <2>4. /\ status' \in [playing : BOOLEAN, item : Item \cup {NoItem}]
        /\ status'.playing = status.playing /\ status'.item = m.item
    BY <1>1, <2>1, <2>3
  <2>5. awaits' \in BOOLEAN /\ waitSync' = (IF m.op = "Sync" THEN FALSE ELSE waitSync)
    BY <1>1, <2>1, <2>2
  <2>6. QED
    BY <1>3, <2>1, <2>4, <2>5 DEF m
<1>7. CASE S!SlotReply \/ S!IgnorePlay
  <2>1. /\ m.op \in {"Pause", "Seek", "PlayNext", "Play"} /\ status' = status
        /\ shown' = shown /\ shownVolume' = shownVolume /\ shownMode' = shownMode
    BY <1>7 DEF S!SlotReply, S!IgnorePlay, S!Receive, S!view
  <2>2. waitSync' = waitSync
    BY <1>7 DEF S!SlotReply, S!IgnorePlay
  <2>3. awaits' \in BOOLEAN
    BY <1>1, <1>7 DEF S!SlotReply, S!IgnorePlay, S!view
  <2> HIDE DEF m
  <2>4. waitSync' = (IF m.op = "Sync" THEN FALSE ELSE waitSync)
    BY <2>1, <2>2
  <2>5. QED
    BY <1>1, <1>3, <2>1, <2>3, <2>4 DEF m
<1>8. CASE S!SlotVolume
  <2>1. /\ m.op = "Volume" /\ status' = status
        /\ shown' = shown /\ shownVolume' = m.value /\ shownMode' = shownMode
    BY <1>8 DEF S!SlotVolume, S!Receive
  <2>2. waitSync' = waitSync /\ awaits' = FALSE
    BY <1>8 DEF S!SlotVolume
  <2> HIDE DEF m
  <2>3. waitSync' = (IF m.op = "Sync" THEN FALSE ELSE waitSync) /\ awaits' \in BOOLEAN
    BY <2>1, <2>2
  <2>4. QED
    BY <1>1, <1>3, <2>1, <2>3 DEF m
<1>9. CASE S!SlotPlayMode
  <2>1. /\ m.op = "PlayMode" /\ status' = status
        /\ shown' = shown /\ shownVolume' = shownVolume /\ shownMode' = m.value
    BY <1>9 DEF S!SlotPlayMode, S!Receive
  <2>2. waitSync' = waitSync /\ awaits' = FALSE
    BY <1>9 DEF S!SlotPlayMode
  <2> HIDE DEF m
  <2>3. waitSync' = (IF m.op = "Sync" THEN FALSE ELSE waitSync) /\ awaits' \in BOOLEAN
    BY <2>1, <2>2
  <2>4. QED
    BY <1>1, <1>3, <2>1, <2>3 DEF m
<1>10. QED
  BY <1>5, <1>6, <1>7, <1>8, <1>9 DEF S!Slots

(* A slot.                                                                 *)
LEMMA SlotsKeep == ASSUME PlayerInv, S!Slots PROVE PlayerInv'
<1> DEFINE m == Head(tells)
<1>1. /\ PlayerTypes /\ VolumeTold /\ ModeTold /\ ItemTold
      /\ S!Count("Sync", asks) + S!Count("Sync", tells) = IF waitSync THEN 1 ELSE 0
      /\ asks \in Seq(S!Message) /\ tells \in Seq(Tell) /\ waitSync \in BOOLEAN /\ status.playing \in BOOLEAN
  BY DEF PlayerInv, PlayerTypes, S!OneSync
<1>2. /\ tells # <<>> /\ tells' = Tail(tells) /\ asks' = asks /\ link' = link
      /\ running' = running /\ current' = current /\ volume' = volume /\ mode' = mode
      /\ missed' = missed /\ foreign' = foreign /\ shown' = shown
      /\ waitSync' = (IF m.op = "Sync" THEN FALSE ELSE waitSync)
      /\ awaits' \in BOOLEAN
      /\ status' \in [playing : BOOLEAN, item : Item \cup {NoItem}]
      /\ status'.playing = (IF m.op = "Sync" THEN m.running ELSE status.playing)
      /\ status'.item = (IF m.op = "ItemInfo" THEN m.item ELSE status.item)
      /\ shownVolume' = (IF m.op = "Volume" THEN m.value ELSE shownVolume)
      /\ shownMode' = (IF m.op = "PlayMode" THEN m.value ELSE shownMode)
  BY <1>1, SlotShape
<1>3. m \in Tell /\ tells' \in Seq(Tell)
  BY <1>1, <1>2, Shrunk
<1>4. /\ m.op = "Volume" => m.value \in 0 .. VolumeTop /\ m = Setting("Volume", m.value)
      /\ m.op = "PlayMode" => m.value \in 0 .. Modes - 1 /\ m = Setting("PlayMode", m.value)
      /\ m.op = "ItemInfo" => m = News(m.item)
  BY <1>3, Tells, PlayerMessages
<1>5. PlayerTypes'
  <2>1. running' \in BOOLEAN /\ missed' \in BOOLEAN /\ foreign' \in BOOLEAN /\ awaits' \in BOOLEAN
    BY <1>1, <1>2 DEF PlayerTypes
  <2>2. waitSync' \in BOOLEAN
    BY <1>1, <1>2
  <2>3. shownVolume' \in {S!Unknown} \cup 0 .. VolumeTop /\ shownMode' \in {S!Unknown} \cup 0 .. Modes - 1
    BY <1>1, <1>2, <1>4 DEF PlayerTypes
  <2>4. QED
    BY <1>1, <1>2, <1>3, <2>1, <2>2, <2>3 DEF PlayerTypes, S!Message, S!Unknown, Tell
<1> HIDE DEF m
<1>6. S!OneSync'
  <2>1. S!Count("Sync", tells) = S!Count("Sync", tells') + IF m.op = "Sync" THEN 1 ELSE 0
    BY <1>1, <1>2, SyncCount DEF m
  <2>2. /\ S!Count("Sync", asks') \in Nat /\ S!Count("Sync", tells') \in Nat
        /\ S!Count("Sync", asks') = S!Count("Sync", asks)
    BY <1>1, <1>2, <1>3, SyncCount
  <2>3. CASE m.op = "Sync"
    <3>1. S!Count("Sync", tells) = S!Count("Sync", tells') + 1
      BY <2>1, <2>3
    <3>2. S!Count("Sync", asks') + S!Count("Sync", tells') = 0
      <4>1. S!Count("Sync", asks) + S!Count("Sync", tells) <= 1
        BY <1>1
      <4>2. QED
        BY <2>2, <3>1, <4>1
    <3>3. ~waitSync'
      BY <1>2, <2>3
    <3>4. QED
      BY <3>2, <3>3, PrimedPlayer
  <2>4. CASE m.op # "Sync"
    <3>1. S!Count("Sync", tells) = S!Count("Sync", tells') + 0
      BY <2>1, <2>4
    <3>2. S!Count("Sync", asks') + S!Count("Sync", tells') = S!Count("Sync", asks) + S!Count("Sync", tells)
      BY <2>2, <3>1
    <3>3. waitSync' = waitSync
      BY <1>2, <2>4
    <3>4. QED
      BY <1>1, <3>2, <3>3, PrimedPlayer
  <2>5. QED
    BY <2>3, <2>4
<1>7. ASSUME NEW x, NEW received, NEW now, Latest(tells, x, received),
             m.op # x.op => now = received, m.op = x.op => now = m
      PROVE  Latest(tells', x, now)
  BY <1>1, <1>2, <1>7, LatestShrinks DEF m
<1>8. VolumeTold'
  <2>1. SUFFICES ASSUME link' = "up", ~foreign', ~Asked("Volume")'
                 PROVE  Latest(tells', Setting("Volume", volume'), Setting("Volume", shownVolume'))
    BY PrimedPlayer
  <2>2. Latest(tells, Setting("Volume", volume), Setting("Volume", shownVolume))
    BY <1>1, <1>2, <2>1 DEF VolumeTold, Asked
  <2>3. Setting("Volume", volume).op = "Volume"
    BY DEF Setting
  <2>4. /\ m.op # "Volume" => Setting("Volume", shownVolume') = Setting("Volume", shownVolume)
        /\ m.op = "Volume" => Setting("Volume", shownVolume') = m
    BY <1>2, <1>4
  <2>5. Latest(tells', Setting("Volume", volume), Setting("Volume", shownVolume'))
    BY <1>7, <2>2, <2>3, <2>4
  <2>6. QED
    BY <1>2, <2>5
<1>9. ModeTold'
  <2>1. SUFFICES ASSUME link' = "up", ~foreign', ~Asked("PlayMode")'
                 PROVE  Latest(tells', Setting("PlayMode", mode'), Setting("PlayMode", shownMode'))
    BY PrimedPlayer
  <2>2. Latest(tells, Setting("PlayMode", mode), Setting("PlayMode", shownMode))
    BY <1>1, <1>2, <2>1 DEF ModeTold, Asked
  <2>3. Setting("PlayMode", mode).op = "PlayMode"
    BY DEF Setting
  <2>4. /\ m.op # "PlayMode" => Setting("PlayMode", shownMode') = Setting("PlayMode", shownMode)
        /\ m.op = "PlayMode" => Setting("PlayMode", shownMode') = m
    BY <1>2, <1>4
  <2>5. Latest(tells', Setting("PlayMode", mode), Setting("PlayMode", shownMode'))
    BY <1>7, <2>2, <2>3, <2>4
  <2>6. QED
    BY <1>2, <2>5
<1>10. ItemTold'
  <2>1. SUFFICES ASSUME ~missed' PROVE Untold' \/ Latest(tells', News(current'), News(status'.item))
    BY PrimedPlayer
  <2>2. CASE Latest(tells, News(current), News(status.item))
    <3>1. News(current).op = "ItemInfo"
      BY DEF News
    <3>2. /\ m.op # "ItemInfo" => News(status'.item) = News(status.item)
          /\ m.op = "ItemInfo" => News(status'.item) = m
      BY <1>2, <1>4
    <3>3. Latest(tells', News(current), News(status'.item))
      BY <1>7, <2>2, <3>1, <3>2
    <3>4. QED
      BY <1>2, <3>3
  <2>3. CASE Untold
    <3>1. /\ Len(tells) \in Nat \ {0} /\ m = tells[1] /\ Len(tells') = Len(tells) - 1
          /\ \A k \in 1 .. Len(tells') : tells'[k] = tells[k + 1]
      BY <1>1, <1>2, Shrunk DEF m
    <3>2. 1 \in 1 .. Len(tells) /\ \A k \in 1 .. Len(tells') : k + 1 \in 1 .. Len(tells)
      BY <3>1
    <3>3. m.op = "Sync" => m.running = FALSE
      BY <2>3, <3>1, <3>2 DEF Untold
    <3>4. \A k \in 1 .. Len(tells') : tells'[k].op = "Sync" => tells'[k].running = FALSE
      BY <2>3, <3>1, <3>2 DEF Untold
    <3>5. status'.playing = FALSE
      BY <1>2, <2>3, <3>3 DEF Untold
    <3>6. QED
      BY <1>2, <2>3, <3>4, <3>5 DEF Untold
  <2>4. QED
    BY <1>1, <1>2, <2>1, <2>2, <2>3 DEF ItemTold
<1>11. Trying'
  BY <1>2 DEF PlayerInv, Trying
<1>12. QED
  BY <1>5, <1>6, <1>8, <1>9, <1>10, <1>11 DEF PlayerInv
(* What the client asks for comes after what it has asked for; it says     *)
(* whether it knows of something that plays.                               *)
LEMMA ClientKeeps ==
  ASSUME PlayerInv,
         UNCHANGED <<running, current, volume, mode, tells, missed, foreign, shownVolume, shownMode>>,
         waitSync' \in BOOLEAN, awaits' \in BOOLEAN, link' \in {"trying", "connected", "up"},
         status' \in [playing : BOOLEAN, item : Item \cup {NoItem}],
         shown' \in [playing : BOOLEAN, item : Item \cup {NoItem}],
         status'.item = status.item, status'.playing = FALSE \/ status'.playing = status.playing,
         asks' \in Seq(S!Message),
         \A k \in 1 .. Len(asks) : k \in 1 .. Len(asks') /\ asks'[k] = asks[k],
         \A k \in 1 .. Len(asks') :
           k \in 1 .. Len(asks) \/ (asks'[k].op = "Sync" => asks'[k].running = status.playing),
         link' = "up" => link = "up" \/ (Asked("Volume")' /\ Asked("PlayMode")'),
         link' = "trying" => link = "trying" /\ asks' = asks,
         S!OneSync'
  PROVE  PlayerInv'
<1>1. PlayerTypes /\ VolumeTold /\ ModeTold /\ ItemTold
  BY DEF PlayerInv
<1>2. /\ current' = current /\ volume' = volume /\ mode' = mode /\ tells' = tells
      /\ shownVolume' = shownVolume /\ shownMode' = shownMode
      /\ running' = running /\ missed' = missed /\ foreign' = foreign
  OBVIOUS
<1>3. PlayerTypes'
  <2>1. running' \in BOOLEAN /\ missed' \in BOOLEAN /\ foreign' \in BOOLEAN
    BY <1>1, <1>2 DEF PlayerTypes
  <2>2. QED
    BY <1>1, <1>2, <2>1 DEF PlayerTypes, S!Message, S!Unknown, Tell
<1>4. (Asked("Volume") => Asked("Volume")') /\ (Asked("PlayMode") => Asked("PlayMode")')
  BY DEF Asked
<1>5. VolumeTold'
  <2>1. SUFFICES ASSUME link' = "up", ~foreign', ~Asked("Volume")'
                 PROVE  Latest(tells', Setting("Volume", volume'), Setting("Volume", shownVolume'))
    BY PrimedPlayer
  <2>2. link = "up" /\ ~foreign /\ ~Asked("Volume")
    BY <1>2, <1>4, <2>1
  <2>3. QED
    BY <1>1, <1>2, <2>2 DEF VolumeTold
<1>6. ModeTold'
  <2>1. SUFFICES ASSUME link' = "up", ~foreign', ~Asked("PlayMode")'
                 PROVE  Latest(tells', Setting("PlayMode", mode'), Setting("PlayMode", shownMode'))
    BY PrimedPlayer
  <2>2. link = "up" /\ ~foreign /\ ~Asked("PlayMode")
    BY <1>2, <1>4, <2>1
  <2>3. QED
    BY <1>1, <1>2, <2>2 DEF ModeTold
<1>7. ItemTold'
  <2>1. SUFFICES ASSUME ~missed' PROVE Untold' \/ Latest(tells', News(current'), News(status'.item))
    BY PrimedPlayer
  <2>2. Untold => Untold'
    BY <1>2 DEF Untold
  <2>3. QED
    BY <1>1, <1>2, <2>1, <2>2 DEF ItemTold
<1>8. Trying'
  BY <1>2 DEF PlayerInv, Trying
<1>9. QED
  BY <1>3, <1>5, <1>6, <1>7, <1>8 DEF PlayerInv

(* One request more.                                                       *)
LEMMA OneMoreAsked ==
  ASSUME PlayerInv, link # "trying", NEW m \in S!Message, asks' = Append(asks, m),
         m.op = "Sync" => m.running = status.playing /\ ~waitSync /\ waitSync',
         m.op # "Sync" => waitSync' = waitSync,
         UNCHANGED <<running, current, volume, mode, tells, missed, foreign, shownVolume, shownMode>>,
         UNCHANGED <<link, status>>, waitSync' \in BOOLEAN, awaits' \in BOOLEAN,
         shown' \in [playing : BOOLEAN, item : Item \cup {NoItem}]
  PROVE  PlayerInv'
<1>1. /\ PlayerTypes /\ asks \in Seq(S!Message) /\ tells \in Seq(Tell) /\ waitSync \in BOOLEAN
      /\ S!Count("Sync", asks) + S!Count("Sync", tells) = IF waitSync THEN 1 ELSE 0
  BY DEF PlayerInv, PlayerTypes, S!OneSync
<1>2. /\ asks' \in Seq(S!Message) /\ Len(asks) \in Nat /\ Len(asks') = Len(asks) + 1
      /\ asks'[Len(asks) + 1] = m
      /\ \A k \in 1 .. Len(asks) : asks'[k] = asks[k]
  BY <1>1, Grown
<1>3. S!OneSync'
  <2>1. S!Count("Sync", asks') = S!Count("Sync", asks) + IF m.op = "Sync" THEN 1 ELSE 0
    BY <1>1, SyncCount
  <2>2. S!Count("Sync", asks) \in Nat /\ S!Count("Sync", tells) \in Nat /\ S!Count("Sync", tells') = S!Count("Sync", tells)
    BY <1>1, SyncCount
  <2>3. CASE m.op = "Sync"
    <3>1. S!Count("Sync", asks) + S!Count("Sync", tells) = 0 /\ waitSync'
      BY <1>1, <2>3
    <3>2. S!Count("Sync", asks') = S!Count("Sync", asks) + 1
      BY <2>1, <2>3
    <3>3. S!Count("Sync", asks') + S!Count("Sync", tells') = 1
      BY <2>2, <3>1, <3>2
    <3>4. QED
      BY <3>1, <3>3, PrimedPlayer
  <2>4. CASE m.op # "Sync"
    <3>1. S!Count("Sync", asks') = S!Count("Sync", asks) + 0 /\ waitSync' = waitSync
      BY <2>1, <2>4
    <3>2. S!Count("Sync", asks') + S!Count("Sync", tells') = S!Count("Sync", asks) + S!Count("Sync", tells)
      BY <2>2, <3>1
    <3>3. QED
      BY <1>1, <3>1, <3>2, PrimedPlayer
  <2>5. QED
    BY <2>3, <2>4
<1>4. \A k \in 1 .. Len(asks) : k \in 1 .. Len(asks') /\ asks'[k] = asks[k]
  BY <1>2
<1>5. \A k \in 1 .. Len(asks') :
        k \in 1 .. Len(asks) \/ (asks'[k].op = "Sync" => asks'[k].running = status.playing)
  <2>1. \A k \in 1 .. Len(asks') : k \in 1 .. Len(asks) \/ k = Len(asks) + 1
    BY <1>2
  <2>2. QED
    BY <1>2, <2>1
<1>6. /\ link' = link /\ status' = status /\ link \in {"trying", "connected", "up"}
      /\ status \in [playing : BOOLEAN, item : Item \cup {NoItem}]
  BY <1>1 DEF PlayerTypes
<1>7. QED
  BY <1>2, <1>3, <1>4, <1>5, <1>6, ClientKeeps

(* The client's keys and threads.                                          *)
LEMMA ClientActs == ASSUME PlayerInv, S!Connect \/ S!SlotConnected \/ S!StartSync \/ S!Keys PROVE PlayerInv'
<1>1. /\ PlayerTypes /\ asks \in Seq(S!Message) /\ tells \in Seq(Tell) /\ waitSync \in BOOLEAN /\ awaits \in BOOLEAN
      /\ status \in [playing : BOOLEAN, item : Item \cup {NoItem}]
      /\ shown \in [playing : BOOLEAN, item : Item \cup {NoItem}]
      /\ S!Count("Sync", asks) + S!Count("Sync", tells) = IF waitSync THEN 1 ELSE 0
  BY DEF PlayerInv, PlayerTypes, S!OneSync
<1>2. CASE S!Connect
  <2>1. /\ link' = "connected" /\ asks' = asks /\ status' = status /\ shown' = shown
        /\ UNCHANGED <<running, current, volume, mode, tells, missed, foreign, shownVolume, shownMode>>
    BY <1>2 DEF S!Connect, S!server, S!pipes, S!view
  <2>2. waitSync' = waitSync /\ awaits' = awaits
    BY <1>2 DEF S!Connect, S!view
  <2>3. S!OneSync'
    BY <1>1, <2>1, <2>2, PrimedPlayer
  <2>4. \A k \in 1 .. Len(asks) : k \in 1 .. Len(asks') /\ asks'[k] = asks[k]
    BY <2>1
  <2>5. QED
    BY <1>1, <2>1, <2>2, <2>3, <2>4, ClientKeeps
<1>3. CASE S!SlotConnected
  <2> DEFINE v == Setting("Volume", 0)
             p == Setting("PlayMode", 0)
             one == Append(asks, v)
  <2>1. /\ link' = "up" /\ status' = [status EXCEPT !.playing = FALSE] /\ asks' = asks \o <<v, p>> /\ shown' = shown
        /\ UNCHANGED <<running, current, volume, mode, tells, missed, foreign, shownVolume, shownMode>>
    BY <1>3 DEF S!SlotConnected, S!server, S!view, Setting
  <2>2. waitSync' = waitSync /\ awaits' = awaits
    BY <1>3 DEF S!SlotConnected, S!view
  <2>3. v \in S!Message /\ p \in S!Message /\ v.op = "Volume" /\ p.op = "PlayMode"
    BY PlayerMessages DEF Setting
  <2> HIDE DEF v, p
  <2>4. asks' = Append(one, p)
    BY <1>1, <2>1, <2>3, Answers
  <2>5. /\ one \in Seq(S!Message) /\ Len(asks) \in Nat /\ Len(one) = Len(asks) + 1 /\ one[Len(asks) + 1] = v
        /\ \A k \in 1 .. Len(asks) : one[k] = asks[k]
    BY <1>1, <2>3, Grown
  <2> HIDE DEF one
  <2>6. /\ asks' \in Seq(S!Message) /\ Len(asks') = Len(one) + 1 /\ asks'[Len(one) + 1] = p
        /\ \A k \in 1 .. Len(one) : asks'[k] = one[k]
    BY <2>3, <2>4, <2>5, Grown
  <2>7. /\ Len(asks') = Len(asks) + 2 /\ asks'[Len(asks) + 1] = v /\ asks'[Len(asks) + 2] = p
        /\ \A k \in 1 .. Len(asks) : k \in 1 .. Len(asks') /\ asks'[k] = asks[k]
    <3>1. Len(one) + 1 = Len(asks) + 2 /\ Len(asks) + 1 \in 1 .. Len(one)
      BY <2>5
    <3>2. \A k \in 1 .. Len(asks) : k \in 1 .. Len(one) /\ k \in 1 .. Len(asks) + 2
      BY <2>5
    <3>3. QED
      BY <2>5, <2>6, <3>1, <3>2
  <2>8. \A k \in 1 .. Len(asks') :
          k \in 1 .. Len(asks) \/ (asks'[k].op = "Sync" => asks'[k].running = status.playing)
    <3>1. \A k \in 1 .. Len(asks') : k \in 1 .. Len(asks) \/ k = Len(asks) + 1 \/ k = Len(asks) + 2
      BY <2>5, <2>7
    <3>2. QED
      BY <2>3, <2>7, <3>1
  <2>9. Asked("Volume")' /\ Asked("PlayMode")'
    <3>1. Len(asks) + 1 \in 1 .. Len(asks') /\ Len(asks) + 2 \in 1 .. Len(asks')
      BY <2>5, <2>7
    <3>2. QED
      BY <2>3, <2>7, <3>1 DEF Asked
  <2>10. S!OneSync'
    <3>1. S!Count("Sync", one) = S!Count("Sync", asks) + 0
      BY <1>1, <2>3, SyncCount DEF one
    <3>2. S!Count("Sync", asks') = S!Count("Sync", one) + 0
      BY <2>3, <2>4, <2>5, SyncCount
    <3>3. S!Count("Sync", asks) \in Nat
      BY <1>1, SyncCount
    <3>4. S!Count("Sync", asks') = S!Count("Sync", asks)
      BY <3>1, <3>2, <3>3
    <3>5. QED
      BY <1>1, <2>1, <2>2, <3>4, PrimedPlayer
  <2>11. /\ status' \in [playing : BOOLEAN, item : Item \cup {NoItem}]
         /\ status'.item = status.item /\ status'.playing = FALSE
    BY <1>1, <2>1
  <2>12. waitSync' \in BOOLEAN /\ awaits' \in BOOLEAN
    BY <1>1, <2>2
  <2>13. QED
    BY <1>1, <2>1, <2>6, <2>7, <2>8, <2>9, <2>10, <2>11, <2>12, ClientKeeps
<1>4. CASE S!StartSync
  <2> DEFINE m == [op |-> "Sync", running |-> status.playing]
  <2>1. /\ asks' = Append(asks, m) /\ shown' = status /\ UNCHANGED <<link, status>>
        /\ UNCHANGED <<running, current, volume, mode, tells, missed, foreign, shownVolume, shownMode>>
    BY <1>4 DEF S!StartSync, S!server
  <2>2. ~waitSync /\ waitSync' = TRUE /\ awaits' = awaits /\ link # "trying"
    BY <1>4 DEF S!StartSync
  <2>3. m \in S!Message /\ m.op = "Sync" /\ m.running = status.playing
    BY <1>1, PlayerMessages
  <2> HIDE DEF m
  <2>4. waitSync' \in BOOLEAN /\ awaits' \in BOOLEAN
    BY <1>1, <2>2
  <2>5. QED
    BY <1>1, <2>1, <2>2, <2>3, <2>4, OneMoreAsked
<1>5. ASSUME NEW m \in S!Message, m.op # "Sync", S!InjectKey(m) PROVE PlayerInv'
  <2>1. /\ shown' = shown /\ UNCHANGED <<link, status>>
        /\ UNCHANGED <<running, current, volume, mode, tells, missed, foreign, shownVolume, shownMode>>
    BY <1>5 DEF S!InjectKey, S!server, S!handler
  <2>2. waitSync' = waitSync /\ awaits' = TRUE
    BY <1>5 DEF S!InjectKey, S!handler
  <2>3. waitSync' \in BOOLEAN /\ awaits' \in BOOLEAN
    BY <1>1, <2>2
  <2>4. CASE link # "trying" /\ asks' = Append(asks, m)
    BY <1>1, <1>5, <2>1, <2>2, <2>3, <2>4, OneMoreAsked
  <2>5. CASE asks' = asks
    <3>1. S!OneSync'
      BY <1>1, <2>1, <2>2, <2>5, PrimedPlayer
    <3>2. \A k \in 1 .. Len(asks) : k \in 1 .. Len(asks') /\ asks'[k] = asks[k]
      BY <2>5
    <3>3. link' = link /\ link \in {"trying", "connected", "up"}
      BY <1>1, <2>1 DEF PlayerTypes
    <3>4. QED
      BY <1>1, <2>1, <2>3, <2>5, <3>1, <3>2, <3>3, ClientKeeps
  <2>6. QED
    BY <1>5, <2>4, <2>5 DEF S!InjectKey
<1>6. CASE S!PlayKey
  <2> DEFINE m == [op |-> "Play"]
  <2>1. /\ asks' = Append(asks, m) /\ shown' = shown /\ UNCHANGED <<link, status>>
        /\ UNCHANGED <<running, current, volume, mode, tells, missed, foreign, shownVolume, shownMode>>
    BY <1>6 DEF S!PlayKey, S!server, S!handler, S!view
  <2>2. waitSync' = waitSync /\ awaits' = awaits /\ link # "trying"
    BY <1>6 DEF S!PlayKey, S!handler, S!view
  <2>3. m \in S!Message /\ m.op = "Play"
    BY PlayerMessages
  <2> HIDE DEF m
  <2>4. waitSync' \in BOOLEAN /\ awaits' \in BOOLEAN
    BY <1>1, <2>2
  <2>5. QED
    BY <1>1, <2>1, <2>2, <2>3, <2>4, OneMoreAsked
<1>7. CASE S!Keys
  <2>1. CASE \E op \in {"Pause", "Seek", "PlayNext"} : S!InjectKey([op |-> op])
    <3>1. PICK op \in {"Pause", "Seek", "PlayNext"} : S!InjectKey([op |-> op])
      BY <2>1
    <3>2. [op |-> op] \in S!Message /\ [op |-> op].op # "Sync"
      BY PlayerMessages
    <3>3. QED
      BY <1>5, <3>1, <3>2
  <2>2. CASE \E value \in {-1, 1} : S!InjectKey([op |-> "Volume", value |-> value])
    <3>1. PICK value \in {-1, 1} : S!InjectKey([op |-> "Volume", value |-> value])
      BY <2>2
    <3>2. [op |-> "Volume", value |-> value] \in S!Message /\ [op |-> "Volume", value |-> value].op # "Sync"
      BY PlayerMessages DEF Setting
    <3>3. QED
      BY <1>5, <3>1, <3>2
  <2>3. CASE S!InjectKey([op |-> "PlayMode", value |-> 1])
    <3>1. [op |-> "PlayMode", value |-> 1] \in S!Message /\ [op |-> "PlayMode", value |-> 1].op # "Sync"
      BY PlayerMessages DEF Setting
    <3>2. QED
      BY <1>5, <2>3, <3>1
  <2>4. QED
    BY <1>6, <1>7, <2>1, <2>2, <2>3 DEF S!Keys
<1>8. QED
  BY <1>2, <1>3, <1>4, <1>7
(* Others change what they like; the client is sent the news, or it is     *)
(* said that it was not.                                                   *)
LEMMA ElsewhereKeeps == ASSUME PlayerInv, S!Elsewhere PROVE PlayerInv'
<1> DEFINE i == News(current')
           told == Append(tells, i)
<1>1. /\ PlayerTypes /\ VolumeTold /\ ModeTold /\ ItemTold /\ Trying /\ tells \in Seq(Tell)
      /\ S!Count("Sync", asks) + S!Count("Sync", tells) = IF waitSync THEN 1 ELSE 0
  BY DEF PlayerInv, PlayerTypes, S!OneSync
<1>2. /\ asks' = asks /\ link' = link /\ status' = status /\ waitSync' = waitSync /\ shown' = shown
      /\ shownVolume' = shownVolume /\ shownMode' = shownMode /\ awaits' = awaits
  BY DEF S!Elsewhere, S!SlotPlayNextItem, S!OthersPlay, S!OthersPause, S!OthersAdjust, S!Other, S!handler, S!view
<1>3. ServerTypes' /\ foreign' \in BOOLEAN
  <2>1. /\ running \in BOOLEAN /\ missed \in BOOLEAN /\ foreign \in BOOLEAN /\ current \in Item
        /\ volume \in 0 .. VolumeTop /\ mode \in 0 .. Modes - 1
    BY <1>1 DEF PlayerTypes
  <2>2. CASE S!SlotPlayNextItem
    <3>1. /\ current' \in Item /\ running' \in BOOLEAN /\ volume' = volume /\ mode' = mode
          /\ foreign' = foreign
      BY <2>2 DEF S!SlotPlayNextItem
    <3>2. missed' \in BOOLEAN
      BY <2>2 DEF S!SlotPlayNextItem
    <3>3. QED
      BY <2>1, <3>1, <3>2 DEF ServerTypes
  <2>3. CASE S!OthersPlay
    <3>1. /\ current' \in Item /\ running' \in BOOLEAN /\ volume' = volume /\ mode' = mode
          /\ foreign' = foreign
      BY <2>3 DEF S!OthersPlay
    <3>2. missed' \in BOOLEAN
      BY <2>3 DEF S!OthersPlay
    <3>3. QED
      BY <2>1, <3>1, <3>2 DEF ServerTypes
  <2>4. CASE S!OthersPause
    <3>1. current' = current /\ volume' = volume /\ mode' = mode /\ foreign' = foreign /\ missed' = missed
      BY <2>4 DEF S!OthersPause
    <3>2. running' \in BOOLEAN
      BY <2>4 DEF S!OthersPause
    <3>3. QED
      BY <2>1, <3>1, <3>2 DEF ServerTypes
  <2>5. CASE S!OthersAdjust
    <3>1. current' = current /\ running' = running /\ missed' = missed /\ foreign' = TRUE
      BY <2>5 DEF S!OthersAdjust
    <3>2. volume' \in 0 .. VolumeTop /\ mode' \in 0 .. Modes - 1
      BY <2>1, <2>5 DEF S!OthersAdjust
    <3>3. QED
      BY <2>1, <3>1, <3>2 DEF ServerTypes
  <2>6. QED
    BY <2>2, <2>3, <2>4, <2>5 DEF S!Elsewhere
<1>4. ~foreign' => ~foreign /\ volume' = volume /\ mode' = mode
  BY DEF S!Elsewhere, S!SlotPlayNextItem, S!OthersPlay, S!OthersPause, S!OthersAdjust
<1>5. \/ tells' = told /\ link # "trying"
      \/ tells' = tells /\ (~missed' => ~missed /\ (current' = current \/ link = "trying"))
  <2>1. tells \o <<i>> = told
    BY <1>1, AppendIsConcat
  <2>2. CASE S!SlotPlayNextItem
    <3>1. CASE link # "trying" /\ S!Answer(<<S!Info>>)
      <4>1. tells' = tells \o <<i>>
        BY <3>1 DEF S!Answer, S!Info, News
      <4>2. QED
        BY <2>1, <3>1, <4>1
    <3>2. CASE tells' = tells /\ missed' = (missed \/ link # "trying")
      BY <3>2
    <3>3. QED
      BY <2>2, <3>1, <3>2 DEF S!SlotPlayNextItem
  <2>3. CASE S!OthersPlay
    <3>1. tells' = tells /\ missed' = (missed \/ link # "trying")
      BY <2>3 DEF S!OthersPlay
    <3>2. QED
      BY <3>1
  <2>4. CASE S!OthersPause \/ S!OthersAdjust
    <3>1. tells' = tells /\ missed' = missed /\ current' = current
      BY <2>4 DEF S!OthersPause, S!OthersAdjust
    <3>2. QED
      BY <3>1
  <2>5. QED
    BY <2>2, <2>3, <2>4 DEF S!Elsewhere
<1>6. i \in Tell /\ i.op = "ItemInfo"
  BY <1>3, Tells DEF ServerTypes, News
<1> HIDE DEF i
<1>7. told \in Seq(Tell)
  BY <1>1, <1>6, Grown
<1>8. PlayerTypes'
  <2>1. tells' \in Seq(Tell) /\ asks' \in Seq(S!Message)
    BY <1>1, <1>2, <1>5, <1>7 DEF PlayerTypes
  <2>2. running' \in BOOLEAN /\ missed' \in BOOLEAN /\ waitSync' \in BOOLEAN /\ awaits' \in BOOLEAN
    BY <1>1, <1>2, <1>3 DEF PlayerTypes, ServerTypes
  <2>3. QED
    BY <1>1, <1>2, <1>3, <2>1, <2>2 DEF PlayerTypes, ServerTypes, S!Message, S!Unknown, Tell
<1>9. S!OneSync'
  <2>1. S!Count("Sync", told) = S!Count("Sync", tells) + 0 /\ S!Count("Sync", tells) \in Nat
    BY <1>1, <1>6, SyncCount
  <2>2. S!Count("Sync", tells') = S!Count("Sync", tells)
    <3>1. tells' = told \/ tells' = tells
      BY <1>5
    <3>2. S!Count("Sync", told) = S!Count("Sync", tells)
      BY <2>1
    <3>3. QED
      BY <3>1, <3>2
  <2>3. QED
    BY <1>1, <1>2, <2>2, PrimedPlayer
<1>10. ASSUME NEW m, NEW received, Latest(tells, m, received), m.op # "ItemInfo"
       PROVE  Latest(tells', m, received)
  <2>1. Latest(told, m, received)
    BY <1>1, <1>6, <1>10, LatestGrows
  <2>2. QED
    BY <1>5, <1>10, <2>1
<1>11. (Asked("Volume") <=> Asked("Volume")') /\ (Asked("PlayMode") <=> Asked("PlayMode")')
  BY <1>2 DEF Asked
<1>12. VolumeTold'
  <2>1. SUFFICES ASSUME link' = "up", ~foreign', ~Asked("Volume")'
                 PROVE  Latest(tells', Setting("Volume", volume'), Setting("Volume", shownVolume'))
    BY PrimedPlayer
  <2>2. Latest(tells, Setting("Volume", volume), Setting("Volume", shownVolume))
    BY <1>1, <1>2, <1>4, <1>11, <2>1 DEF VolumeTold
  <2>3. Setting("Volume", volume).op # "ItemInfo"
    BY DEF Setting
  <2>4. QED
    BY <1>2, <1>4, <1>10, <2>1, <2>2, <2>3
<1>13. ModeTold'
  <2>1. SUFFICES ASSUME link' = "up", ~foreign', ~Asked("PlayMode")'
                 PROVE  Latest(tells', Setting("PlayMode", mode'), Setting("PlayMode", shownMode'))
    BY PrimedPlayer
  <2>2. Latest(tells, Setting("PlayMode", mode), Setting("PlayMode", shownMode))
    BY <1>1, <1>2, <1>4, <1>11, <2>1 DEF ModeTold
  <2>3. Setting("PlayMode", mode).op # "ItemInfo"
    BY DEF Setting
  <2>4. QED
    BY <1>2, <1>4, <1>10, <2>1, <2>2, <2>3
<1>14. ItemTold'
  <2>1. SUFFICES ASSUME ~missed' PROVE Untold' \/ Latest(tells', News(current'), News(status'.item))
    BY PrimedPlayer
  <2>2. CASE tells' = told
    <3>1. Latest(told, i, News(status'.item))
      BY <1>1, <1>6, LatestGrows
    <3>2. QED
      BY <2>2, <3>1 DEF i
  <2>3. CASE tells' # told /\ link = "trying"
    <3>1. asks' = <<>> /\ tells' = <<>> /\ status'.playing = FALSE
      BY <1>1, <1>2, <1>5, <2>3 DEF Trying
    <3>2. \A k \in 1 .. Len(<<>>) : FALSE
      BY EmptySeq
    <3>3. QED
      BY <3>1, <3>2 DEF Untold
  <2>4. CASE tells' # told /\ link # "trying"
    <3>1. tells' = tells /\ ~missed /\ current' = current
      BY <1>5, <2>1, <2>4
    <3>2. Untold => Untold'
      BY <1>2, <3>1 DEF Untold
    <3>3. QED
      BY <1>1, <1>2, <3>1, <3>2 DEF ItemTold
  <2>5. QED
    BY <2>2, <2>3, <2>4
<1>15. Trying'
  BY <1>1, <1>2, <1>5 DEF Trying
<1>16. QED
  BY <1>8, <1>9, <1>12, <1>13, <1>14, <1>15 DEF PlayerInv

(* Before the client has started nothing is shown.                         *)
LEMMA FirstStatus == ASSUME S!Init PROVE PlayerInv
<1>1. asks = <<>> /\ tells = <<>> /\ asks \in Seq(S!Message) /\ tells \in Seq(Tell)
  BY EmptySeq DEF S!Init
<1>2. PlayerTypes
  <2>1. /\ running \in BOOLEAN /\ waitSync \in BOOLEAN /\ awaits \in BOOLEAN
        /\ missed \in BOOLEAN /\ foreign \in BOOLEAN
    BY DEF S!Init
  <2>2. /\ current \in Item /\ volume \in 0 .. VolumeTop /\ mode \in 0 .. Modes - 1
        /\ link \in {"trying", "connected", "up"}
        /\ shownVolume \in {S!Unknown} \cup 0 .. VolumeTop /\ shownMode \in {S!Unknown} \cup 0 .. Modes - 1
    BY SettingsAssumption DEF S!Init
  <2>3. /\ status \in [playing : BOOLEAN, item : Item \cup {NoItem}]
        /\ shown \in [playing : BOOLEAN, item : Item \cup {NoItem}]
    BY DEF S!Init
  <2>4. QED
    BY <1>1, <2>1, <2>2, <2>3 DEF PlayerTypes
<1>3. S!OneSync
  <2>1. S!Count("Sync", asks) = 0 /\ S!Count("Sync", tells) = 0
    BY <1>1, SyncCount
  <2>2. ~waitSync
    BY DEF S!Init
  <2>3. QED
    BY <2>1, <2>2 DEF S!OneSync
<1>4. VolumeTold /\ ModeTold
  BY DEF S!Init, VolumeTold, ModeTold
<1>5. status.playing = FALSE
  BY DEF S!Init
<1>6. Untold
  <2>1. \A k \in 1 .. Len(<<>>) : FALSE
    BY EmptySeq
  <2>2. QED
    BY <1>1, <1>5, <2>1 DEF Untold
<1>7. QED
  BY <1>1, <1>2, <1>3, <1>4, <1>5, <1>6 DEF PlayerInv, ItemTold, Trying

(* Every step keeps it.                                                    *)
LEMMA NextStatus == ASSUME PlayerInv, S!Next PROVE PlayerInv'
BY ClientActs, RequestsKeep, SlotsKeep, ElsewhereKeeps DEF S!Next

(* Also one of which the player knows nothing.                             *)
LEMMA SameStatus == ASSUME PlayerInv, UNCHANGED player PROVE PlayerInv'
<1>1. /\ UNCHANGED <<running, current, volume, mode, asks, tells, link, status, waitSync>>
      /\ UNCHANGED <<shown, shownVolume, shownMode, awaits, missed, foreign>>
  BY DEF player
<1>2. /\ PlayerTypes /\ VolumeTold /\ ModeTold /\ ItemTold /\ Trying
      /\ S!Count("Sync", asks) + S!Count("Sync", tells) = IF waitSync THEN 1 ELSE 0
  BY DEF PlayerInv, S!OneSync
<1>3. PlayerTypes'
  BY <1>1, <1>2 DEF PlayerTypes, S!Message, S!Unknown, Tell
<1>4. S!OneSync'
  BY <1>1, <1>2, PrimedPlayer
<1>5. (Asked("Volume") <=> Asked("Volume")') /\ (Asked("PlayMode") <=> Asked("PlayMode")') /\ (Untold <=> Untold')
  BY <1>1 DEF Asked, Untold
<1>6. VolumeTold'
  BY <1>1, <1>2, <1>5, PrimedPlayer DEF VolumeTold
<1>7. ModeTold'
  BY <1>1, <1>2, <1>5, PrimedPlayer DEF ModeTold
<1>8. ItemTold'
  BY <1>1, <1>2, <1>5, PrimedPlayer DEF ItemTold
<1>9. Trying'
  BY <1>1, <1>2 DEF Trying
<1>10. QED
  BY <1>3, <1>4, <1>6, <1>7, <1>8, <1>9 DEF PlayerInv

(* What the run checks of the player follows.                              *)
LEMMA StatusHolds == ASSUME PlayerInv PROVE S!SyncInv /\ S!ToldIsCurrent
<1>1. PlayerTypes /\ S!OneSync /\ VolumeTold /\ ModeTold /\ ItemTold
  BY DEF PlayerInv
<1>2. /\ DOMAIN asks = 1 .. Len(asks) /\ DOMAIN tells = 1 .. Len(tells)
      /\ asks \in Seq(S!Message) /\ tells \in Seq(Tell)
  BY <1>1, LenProperties DEF PlayerTypes
<1>3. S!TypeOK
  <2>1. \A k \in DOMAIN asks : asks[k] \in S!Message
    BY <1>2
  <2>2. \A k \in DOMAIN tells : tells[k] \in S!Message
    BY <1>2, Tells
  <2>3. \A pipe \in {asks, tells} : \A k \in DOMAIN pipe : pipe[k] \in S!Message
    BY <2>1, <2>2
  <2>4. {running, waitSync, awaits, missed, foreign} \subseteq BOOLEAN
    BY <1>1 DEF PlayerTypes
  <2>5. {status, shown} \subseteq [playing : BOOLEAN, item : Item \cup {NoItem}]
    BY <1>1 DEF PlayerTypes
  <2>6. QED
    BY <1>1, <2>3, <2>4, <2>5 DEF S!TypeOK, PlayerTypes
<1>4. S!SettingsAgree
  <2>1. SUFFICES ASSUME link = "up", ~foreign, asks = <<>>, tells = <<>>
                 PROVE  shownVolume = volume /\ shownMode = mode
    BY DEF S!SettingsAgree
  <2>2. \A k \in 1 .. Len(<<>>) : FALSE
    BY EmptySeq
  <2>3. ~Asked("Volume") /\ ~Asked("PlayMode")
    BY <2>1, <2>2 DEF Asked
  <2>4. Setting("Volume", shownVolume) = Setting("Volume", volume)
    BY <1>1, <2>1, <2>2, <2>3 DEF VolumeTold, Latest
  <2>5. Setting("PlayMode", shownMode) = Setting("PlayMode", mode)
    BY <1>1, <2>1, <2>2, <2>3 DEF ModeTold, Latest
  <2>6. \A op, x, y : Setting(op, x) = Setting(op, y) => x = y
    <3>1. \A op, x : Setting(op, x).value = x
      BY DEF Setting
    <3>2. QED
      BY <3>1
  <2>7. QED
    BY <2>4, <2>5, <2>6
<1>5. S!ToldIsCurrent
  <2>1. SUFFICES ASSUME status.playing, ~missed PROVE S!Told(current)
    BY DEF S!ToldIsCurrent
  <2>2. ~Untold
    BY <2>1 DEF Untold
  <2>3. Latest(tells, News(current), News(status.item))
    BY <1>1, <2>1, <2>2 DEF ItemTold
  <2>4. News(status.item) = News(current) => status.item = current
    <3>1. \A item : News(item).item = item
      BY DEF News
    <3>2. QED
      BY <3>1
  <2>5. News(current) = [op |-> "ItemInfo", item |-> current] /\ News(current).op = "ItemInfo"
    BY DEF News
  <2>6. CASE News(status.item) = News(current) /\ \A k \in 1 .. Len(tells) : tells[k].op # News(current).op
    BY <1>2, <2>4, <2>5, <2>6 DEF S!Told
  <2>7. CASE \E k \in 1 .. Len(tells) : /\ tells[k] = News(current)
                                         /\ \A j \in k + 1 .. Len(tells) : tells[j].op # News(current).op
    BY <1>2, <2>5, <2>7 DEF S!Told
  <2>8. QED
    BY <2>3, <2>6, <2>7 DEF Latest
<1>6. QED
  BY <1>1, <1>3, <1>4, <1>5 DEF S!SyncInv

-----------------------------------------------------------------------------
(* Theorems.                                                               *)

(* Before the first client nothing is shown.                               *)
LEMMA FirstView == ASSUME Init PROVE IInv
<1>1. <<>> \in Seq(Message) /\ <<>> \in Seq(Item) /\ Len(<<>>) = 0
  BY EmptySeq
<1>2. TypeInv
  <2>1. /\ aborted \in BOOLEAN /\ composed \in BOOLEAN /\ news \in BOOLEAN /\ up \in BOOLEAN
        /\ waitReply \in BOOLEAN /\ edited \in BOOLEAN /\ clobbered \in BOOLEAN
        /\ unanswered \in BOOLEAN /\ early \in BOOLEAN /\ stale \in BOOLEAN /\ ~composed
    BY DEF Init
  <2>2. /\ list \in Seq(Item) /\ mirror \in Seq(Item) /\ selected \in Int /\ cursor \in Int
        /\ buffer \in Seq(Message) /\ reply \in Seq(Message) /\ c2s \in Seq(Message) /\ s2c \in Seq(Message)
        /\ Len(buffer) <= 1 /\ Len(reply) <= 1
    BY <1>1, SequenceOfItems DEF Init
  <2>3. QED
    BY <2>1, <2>2 DEF TypeInv
<1>3. BufferInv /\ GoneInv /\ Following
  BY DEF Init, BufferInv, GoneInv, Following, Alone
<1>4. AskedInv
  BY <1>1 DEF Init, AskedInv, Unsynced
<1>5. CountInv
  <2>1. GatedIn(c2s) = 0 /\ GatedIn(reply) = 0 /\ GatedIn(s2c) = 0
    BY CountEnds DEF Init
  <2>2. Outstanding = 0
    BY <2>1 DEF Outstanding
  <2>3. QED
    BY <2>2 DEF Init, CountInv
<1>6. CursorInv /\ RequestInv
  BY <1>1 DEF Init, CursorInv, RequestInv
<1>7. ReplyInv /\ SelectInv
  BY DEF Init, ReplyInv, SelectInv, Alone, ToSet
<1>8. QED
  BY <1>2, <1>3, <1>4, <1>5, <1>6, <1>7 DEF CopyInv, IInv

(* Every step keeps it.                                                    *)
LEMMA NextView == ASSUME IInv, [Next]_vars PROVE IInv'
<1>0. CopyInv /\ TypeInv /\ CountInv /\ CursorInv /\ RequestInv /\ ReplyInv /\ SelectInv
  BY DEF IInv, CopyInv
<1>1. CASE UNCHANGED vars
  <2>1. /\ UNCHANGED <<list, selected, aborted, buffer, reply, composed, news, c2s, s2c>>
        /\ UNCHANGED <<up, mirror, cursor, waitReply, edited, clobbered, unanswered, early, stale>>
    BY <1>1 DEF vars, server, session, pipes, view, history
  <2>2. TypeInv' /\ BufferInv' /\ GoneInv' /\ AskedInv'
    BY <1>0, <2>1 DEF CopyInv, TypeInv, BufferInv, GoneInv, AskedInv, Unsynced, Sync, ItemInfo
  <2>3. Alone' = Alone /\ Known' = Known
    BY <2>1 DEF Alone, Known, Unsynced, Sync
  <2>4. Following'
    BY <1>0, <2>1, <2>3 DEF CopyInv, Following
  <2>5. Outstanding' = Outstanding /\ Calm' = Calm
    BY <2>1 DEF Outstanding, GatedIn, Calm
  <2>6. CountInv' /\ CursorInv' /\ RequestInv'
    BY <1>0, <2>1, <2>5 DEF CountInv, CursorInv, RequestInv, Index
  <2>7. Unsettled' = Unsettled /\ Shifting' = Shifting /\ Chosen' = Chosen
    BY <2>1 DEF Unsettled, Shifting, Chosen, ToSet, Shift
  <2>8. ReplyInv' /\ SelectInv'
    BY <1>0, <2>1, <2>3, <2>7 DEF ReplyInv, SelectInv, ToSet, Shift
  <2>9. QED
    BY <2>2, <2>4, <2>6, <2>8 DEF CopyInv, IInv
<1>2. CASE Keys
  BY <1>0, <1>2, KeysStep, KeysCount, KeysRequest, KeysSelect DEF IInv
<1>3. CASE Serve
  <2>1. CopyInv'
    BY <1>0, <1>3, SyncStep, SelectStep, PlayStep, AppendStep, RemoveMoveClearStep, ComposeStep,
       ReplySendStep, NewsSendStep DEF Serve
  <2>2. QED
    BY <1>0, <1>3, <2>1, ServeCount, ServeRequest, ServeSelect DEF IInv
<1>4. CASE Show
  BY <1>0, <1>4, ShowStep, ShowCount, ShowRequest, ShowSelect DEF IInv
<1>5. CASE NewsCompose
  BY <1>0, <1>5, ComposeStep, GoCount, GoRequest, GoSelect DEF IInv
<1>6. CASE Connect \/ Quit \/ LoseRest \/ OthersEdit
  BY <1>0, <1>6, ComeAndGo, GoCount, GoRequest, GoSelect DEF IInv
<1>7. QED
  BY <1>1, <1>2, <1>3, <1>4, <1>5, <1>6 DEF Next

(* Every variable stays in its domain; what is on its way leads the copy of*)
(* a client whose list nobody else edits to the server's; a view has one   *)
(* request under way; the cursor and what is to be moved are in the list;  *)
(* the last selection asked for is that of the view.                       *)
THEOREM Inductive == Spec => []IInv
<1>1. Init => IInv
  BY FirstView
<1>2. IInv /\ [Next]_vars => IInv'
  BY NextView
<1>3. QED
  BY <1>1, <1>2, PTL DEF Spec

(* A client that is alone with its list shows it, once all has arrived.    *)
LEMMA FollowsOf == ASSUME IInv PROVE MirrorFollows
<1> SUFFICES ASSUME Alone, ~(\E k \in DOMAIN c2s : c2s[k] = Sync(TRUE)) PROVE Arrived = list
  BY DEF MirrorFollows
<1>1. c2s \in Seq(Message) /\ s2c \in Seq(Message) /\ reply \in Seq(Message)
  BY DEF IInv, CopyInv, TypeInv
<1>2. ~Unsynced
  <2>1. c2s # <<>> => 1 \in DOMAIN c2s
    BY <1>1, EmptySeq, LenProperties
  <2>2. QED
    BY <2>1 DEF Unsynced
<1>3. Leads(~stale, mirror, s2c \o reply, list)
  BY <1>2 DEF IInv, CopyInv, Following, Known
<1>4. s2c \o reply \in Seq(Message)
  BY <1>1, ConcatProperties
<1>5. QED
  BY <1>3, <1>4, LeadsEnds DEF Arrived

(* The run's property, for any items, chunks and number of lists: a client *)
(* whose list nobody else edits shows the server's list once the replies   *)
(* on their way are applied, whatever keys are pressed, whichever news come*)
(* in between, and however often clients come and go (Session.cc and       *)
(* PlaylistView.cc).                                                       *)
THEOREM CopyFollows == Spec => []MirrorFollows
<1>1. IInv => MirrorFollows
  BY FollowsOf
<1>2. QED
  BY <1>1, Inductive, PTL

(* A view waits if and only if exactly one of its requests, or the reply,  *)
(* is under way, unless a reply fell out (PlaylistView.cc, m_WaitReply).   *)
LEMMA WaitsForOne == ASSUME IInv PROVE OneOutstanding
BY DEF IInv, CopyInv, TypeInv, CountInv, OneOutstanding

(* When all is delivered, the selection of the view is the server's, unless*)
(* others edited, a key came before the first selection, or the server's   *)
(* own was past the end (PlaylistView.cc, SlotSelect and ReqSelect).       *)
LEMMA AgreedSelection == ASSUME IInv PROVE SelectionAgrees
<1> SUFFICES ASSUME Alone, ~early, ~stale, Quiet PROVE cursor = selected
  BY DEF SelectionAgrees
<1>1. SelectInv /\ c2s = <<>> /\ s2c = <<>> /\ reply = <<>>
  BY DEF IInv, Quiet
<1>2. ~Unsettled /\ ~Shifting
  BY <1>1 DEF Unsettled, Shifting, ToSet
<1>3. Chosen
  BY <1>1, <1>2 DEF SelectInv
<1>4. Len(c2s) = 0
  BY <1>1
<1>5. QED
  BY <1>3, <1>4 DEF Chosen

(* All that the run checks of the view follows.                            *)
LEMMA ViewOf == ASSUME IInv PROVE ViewInv
<1>1. TypeInv
  BY DEF IInv, CopyInv
<1>2. ASSUME NEW pipe \in Seq(Message), NEW k \in DOMAIN pipe PROVE pipe[k] \in Message
  OBVIOUS
<1>3. \A pipe \in {buffer, reply, c2s, s2c} : \A k \in DOMAIN pipe : pipe[k] \in Message
  BY <1>1, <1>2 DEF TypeInv
<1>4. list \in Seq(Item) /\ mirror \in Seq(Item) /\ {selected, cursor} \subseteq Int
  BY <1>1 DEF TypeInv
<1>5. {aborted, composed, news, up, waitReply, edited, clobbered, unanswered, early, stale} \subseteq BOOLEAN
  BY <1>1 DEF TypeInv
<1>6. Len(buffer) <= 1 /\ Len(reply) <= 1 /\ (composed => reply # <<>>)
  BY <1>1 DEF TypeInv
<1>7. TypeOK
  BY <1>3, <1>4, <1>5, <1>6 DEF TypeOK
<1>8. QED
  BY <1>7, WaitsForOne, AgreedSelection DEF ViewInv

(* It holds for any items, chunks and number of lists.                     *)
THEOREM ViewHolds == Spec => []ViewInv
<1>1. IInv => ViewInv
  BY ViewOf
<1>2. QED
  BY <1>1, Inductive, PTL

(* The run's property, for any items, chunks and number of lists: neither  *)
(* the server's Move nor the client's reads past the end of its list,      *)
(* unless another session edited it, the buffer was overwritten, or the    *)
(* selection was past the end when the client came.                        *)
THEOREM WithinTheList == Spec => StaleOnly
<1>1. IInv /\ [Next]_vars => [aborted' /\ ~aborted => edited \/ clobbered \/ stale]_vars
  <2> SUFFICES ASSUME IInv, Next, aborted', ~aborted, ~edited, ~clobbered, ~stale PROVE FALSE
    OBVIOUS
  <2>1. Calm
    BY DEF Calm
  <2>2. /\ TypeInv /\ Following /\ RequestInv
        /\ list \in Seq(Item) /\ Len(list) \in Nat /\ s2c \in Seq(Message) /\ reply \in Seq(Message)
    BY LenProperties DEF IInv, CopyInv, TypeInv
  <2>3. PlaylistMove \/ SlotMove
    BY DEF Next, Keys, Scroll, ReqPlay, ReqRemove, ReqMove, ReqClear, ReqGated, SlotReqUserOpen, Key,
           Serve, PlaylistSync, PlaylistSelect, PlaylistPlay, PlaylistAppend, PlaylistRemove,
           PlaylistClear, ReplyCompose, ReplySend, NewsSend, NewsCompose,
           Show, SlotSelect, SlotPlay, SlotAppend, SlotRemove, SlotClear, IgnoreNews, Receive,
           Connect, Quit, LoseRest, OthersEdit, server
  <2>4. CASE PlaylistMove
    <3>1. c2s # <<>> /\ Head(c2s).op = "Move" /\ Head(c2s).pos = Len(list)
      BY <2>4 DEF PlaylistMove, Locked, Handle
    <3>2. Head(c2s).pos \in Index(list)
      BY <2>1, <2>2, <3>1, FirstFits
    <3>3. QED
      BY <2>2, <3>1, <3>2 DEF Index
  <2>5. CASE SlotMove
    <3>1. up /\ s2c # <<>> /\ Head(s2c).op = "Move" /\ Head(s2c).pos \notin Index(mirror)
      BY <2>5 DEF SlotMove
    <3>2. Leads(~stale, mirror, s2c \o reply, Known)
      BY <2>2, <3>1 DEF Following, Alone
    <3>3. Fits(mirror, Head(s2c))
      BY <2>2, <3>1, <3>2, LeadsRest
    <3>4. QED
      BY <3>1, <3>3 DEF Fits
  <2>6. QED
    BY <2>3, <2>4, <2>5
<1>2. QED
  BY <1>1, Inductive, PTL DEF Spec, StaleOnly

(* The run's invariants under its specification, for any items, chunks,    *)
(* lists, volumes and modes: besides what is said of the list, one sync is *)
(* under way at a time; when all is delivered the view shows the server's  *)
(* volume and mode, unless others changed them; and a client that knows    *)
(* that something plays has been told what, unless others changed it       *)
(* (ClientPlayerHandler.cc, StatusView.cc, Session.cc).                    *)
THEOREM ClientHolds == ClientSpec => [](ClientInv /\ MirrorFollows)
<1> DEFINE Inv == IInv /\ PlayerInv
<1>1. ClientInit => Inv
  BY FirstView, FirstStatus DEF ClientInit
<1>2. Inv /\ [ClientNext]_all => Inv'
  <2> SUFFICES ASSUME Inv, [ClientNext]_all PROVE Inv'
    OBVIOUS
  <2>1. CASE OfList(Next)
    <3>1. Next /\ UNCHANGED player
      BY <2>1 DEF OfList
    <3>2. QED
      BY <3>1, NextView, SameStatus
  <2>2. CASE OfPlayer(S!Next)
    <3>1. S!Next /\ UNCHANGED vars
      BY <2>2 DEF OfPlayer
    <3>2. QED
      BY <3>1, NextView, NextStatus
  <2>3. CASE UNCHANGED all
    <3>1. UNCHANGED vars /\ UNCHANGED player
      BY <2>3 DEF all
    <3>2. QED
      BY <3>1, NextView, SameStatus
  <2>4. QED
    BY <2>1, <2>2, <2>3 DEF ClientNext
<1>3. Inv => ClientInv /\ MirrorFollows
  BY StatusHolds, ViewOf, FollowsOf DEF ClientInv
<1> HIDE DEF Inv
<1>4. QED
  BY <1>1, <1>2, <1>3, PTL DEF ClientSpec
=============================================================================

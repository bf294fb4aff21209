------------------------------ MODULE Playlist ------------------------------
(***************************************************************************)
(* The playlist of sdk/util/Playlist.h: a queue of items, the position in  *)
(* it, and the shuffled order of its indexes.                              *)
(*                                                                         *)
(* In the modes Normal, Repeat and RepeatOne m_SeqIndex is an index of the *)
(* item queue; in Shuffle and ShuffleRepeat it is an index of the shuffle  *)
(* queue, whose element there is the index of the item.  The operations    *)
(* that change the items leave m_SeqIndex as it is, so that it may point   *)
(* past the end of either queue; it is -1 before the first item is played  *)
(* and whenever the list gets empty.                                       *)
(*                                                                         *)
(* Indexes are those of the source, from 0; items[k + 1] is item k.  All   *)
(* callers hold a mutex around their calls, so every call is one step.     *)
(* Each item stands in the list once, which is what lets the properties    *)
(* follow it; nothing in the code compares items.                          *)
(***************************************************************************)
EXTENDS Integers, Sequences, FiniteSets, SequencesExt

CONSTANTS
  Item,      \* media items
  MaxBatch,  \* bound: how many items one Assign, Append or Insert brings
  Garbage    \* what reading a queue outside its bounds may return

ASSUME ItemAssumption == IsFiniteSet(Item)
ASSUME BatchAssumption == MaxBatch \in Nat
ASSUME GarbageAssumption == Garbage \subseteq Int

VARIABLES
  mode,     \* m_Mode
  items,    \* m_ItemQueue
  seqIndex, \* m_SeqIndex
  shuffle,  \* m_SeqShuffleQueue
  aborted   \* an assertion failed and took the process down

vars == <<mode, items, seqIndex, shuffle, aborted>>

-----------------------------------------------------------------------------

Straight == {"Normal", "Repeat", "RepeatOne"}
Shuffled == {"Shuffle", "ShuffleRepeat"}

Index(q)  == 0 .. Len(q) - 1
At(q, i)  == q[i + 1]

(* std::find: the index of v in the queue, or its length.                  *)
Find(q, v) == IF v \in Range(q) THEN CHOOSE i \in Index(q) : At(q, i) = v
                                ELSE Len(q)

(* q[i], where nothing but the caller keeps i in the queue.                *)
Read(q, i) == IF i \in Index(q) THEN {At(q, i)} ELSE Garbage

Below(S, n) == {i \in S : i < n}

(* The elements of q at the indexes of S, in the order of q.               *)
Pick(q, S) ==
  [k \in 1 .. Cardinality(S) |->
     At(q, CHOOSE i \in S : Cardinality(Below(S, i)) = k - 1)]

(* The sequences of items not in the list that one call may bring.         *)
NewItems ==
  LET fresh == Item \ Range(items) IN
  UNION {SetToSeqs(S) : S \in {T \in SUBSET fresh : Cardinality(T) <= MaxBatch}}

-----------------------------------------------------------------------------
(* The shuffle queue follows the length n of the item queue: it grows by   *)
(* its own length, put in at a random place, or loses what is too large.   *)
(* An empty list leaves it alone.                                          *)

Grown(q, n) ==
  LET grow[k \in Nat] ==
        IF k = 0 THEN {q}
        ELSE UNION {{InsertAt(s, i, Len(s)) : i \in 1 .. Len(s) + 1} : s \in grow[k - 1]}
  IN grow[n - Len(q)]

(* Mutant of AdjustShuffleRange: keeps an index that is too large by one.  *)
AdjustShuffleRangeWide(q, n) ==
  IF n = 0 THEN {q}
  ELSE IF n >= Len(q) THEN Grown(q, n)
  ELSE {Pick(q, {i \in Index(q) : At(q, i) <= n})}

AdjustShuffleRange(q, n) ==
  IF n = 0 THEN {q}
  ELSE IF n >= Len(q) THEN Grown(q, n)
  ELSE {Pick(q, {i \in Index(q) : At(q, i) < n})}

AdjustSeqPosition(index, list) == IF list = <<>> THEN -1 ELSE index

Init ==
  /\ mode = "Normal" /\ items = <<>> /\ seqIndex = -1 /\ shuffle = <<>>
  /\ aborted = FALSE

(* What the operations that insert or remove items have in common.         *)
SetItems(list) ==
  /\ ~aborted
  /\ items' = list
  /\ seqIndex' = AdjustSeqPosition(seqIndex, list)
  /\ shuffle' \in AdjustShuffleRange(shuffle, Len(list))
  /\ UNCHANGED <<mode, aborted>>

(* Assign: the shuffle queue is generated anew, unless the list is empty.  *)
Assign(new) ==
  /\ ~aborted
  /\ items' = new
  /\ seqIndex' = AdjustSeqPosition(seqIndex, new)
  /\ shuffle' \in IF new = <<>> THEN {shuffle} ELSE Grown(<<>>, Len(new))
  /\ UNCHANGED <<mode, aborted>>

InsertedAt(list, index, new) ==
  SubSeq(list, 1, index) \o new \o SubSeq(list, index + 1, Len(list))

Insert(index, new) == SetItems(InsertedAt(items, index, new))

Append_(new) == SetItems(items \o new)

(* Remove of the items at some indexes; one index, or the first item equal *)
(* to a given one, are the special cases.                                  *)
Remove_(old) == SetItems(Pick(items, Index(items) \ old))

Clear ==
  /\ ~aborted
  /\ items' = <<>> /\ shuffle' = <<>> /\ seqIndex' = -1
  /\ UNCHANGED <<mode, aborted>>

Reverse_ ==
  /\ ~aborted
  /\ items' = Reverse(items)
  /\ UNCHANGED <<mode, seqIndex, shuffle, aborted>>

-----------------------------------------------------------------------------
(* The position.                                                           *)

(* Mutant of SetMode: the position is not converted.                       *)
SetModeOnly(new) ==
  ~aborted /\ mode' = new /\ UNCHANGED <<items, seqIndex, shuffle, aborted>>

SetMode(new) ==
  /\ ~aborted
  /\ mode' = new
  /\ seqIndex' =
       IF seqIndex \in Index(items) /\ mode \in Straight /\ new \in Shuffled
         THEN Find(shuffle, seqIndex)
       ELSE IF seqIndex \in Index(items) /\ mode \in Shuffled /\ new \in Straight
         THEN At(shuffle, seqIndex)
       ELSE seqIndex
  /\ UNCHANGED <<items, shuffle, aborted>>

(* In the Repeat modes the sum of an int and a size_t is a size_t: it      *)
(* wraps at 2^64 before the remainder is taken.  Remainders by the lengths *)
(* up to 7 are the same for 2^16, which TLC can compute with.              *)
SizeModulus == 2 ^ 16

OffsetToIndex(offset) ==
  LET index == CASE mode \in {"Normal", "Shuffle"} -> seqIndex + offset
                 [] mode \in {"Repeat", "ShuffleRepeat"} ->
                      ((seqIndex + offset) % SizeModulus) % Len(items)
                 [] mode = "RepeatOne" -> seqIndex
  IN IF items # <<>> /\ index \in Index(items) THEN index ELSE -1

HasNext(offset) == OffsetToIndex(offset) >= 0

(* The item NextItem returns for a position.                               *)
ItemIndex(index) == IF mode \in Shuffled THEN At(shuffle, index) ELSE index

(* NextItem with moveTo, which every caller asks HasNext before.  Without  *)
(* moveTo it changes nothing.                                              *)
NextItem(offset) ==
  /\ ~aborted
  /\ HasNext(offset)
  /\ seqIndex' = OffsetToIndex(offset)
  /\ UNCHANGED <<mode, items, shuffle, aborted>>

JumpTo(index) ==
  /\ ~aborted
  /\ index \in Index(items)
  /\ seqIndex' = IF mode \in Shuffled THEN Find(shuffle, index) ELSE index
  /\ UNCHANGED <<mode, items, shuffle, aborted>>

-----------------------------------------------------------------------------
(* Move of the items at some indexes to before the item at newPos, all     *)
(* counted in the list as it is.                                           *)

RealNewPos(old, newPos) == newPos - Cardinality(Below(old, newPos))

(* Where the item at an index is after the move.                           *)
MovedIndex(index, old, newPos) ==
  LET rank == Cardinality(Below(old, index))
      real == RealNewPos(old, newPos)
  IN IF index \in old THEN real + rank
     ELSE IF real <= index - rank THEN index - rank + Cardinality(old)
     ELSE index - rank

(* Mutant of Moved: the moved items come out in reverse.                   *)
MovedBackwards(old, newPos) ==
  InsertedAt(Pick(items, Index(items) \ old), RealNewPos(old, newPos),
             Reverse(Pick(items, old)))

Moved(old, newPos) ==
  InsertedAt(Pick(items, Index(items) \ old), RealNewPos(old, newPos), Pick(items, old))

(* The items are taken out, with the usual adjustments, and put in again,  *)
(* with the usual adjustments; only then is the item read that m_SeqIndex  *)
(* stands for, and its new index asserted to be one.                       *)
Move(old, newPos) ==
  LET rest == Pick(items, Index(items) \ old) IN
  /\ ~aborted
  /\ Len(items) >= 2
  /\ items' = Moved(old, newPos)
  /\ \E shrunk \in AdjustShuffleRange(shuffle, Len(rest)) :
       shuffle' \in AdjustShuffleRange(shrunk, Len(items))
  /\ LET position == AdjustSeqPosition(seqIndex, rest) IN
     \E current \in IF mode \in Shuffled THEN Read(shuffle', position) ELSE {position} :
       LET index == MovedIndex(current, old, newPos) IN
       IF index \in Index(items')
         THEN /\ seqIndex' = IF mode \in Shuffled THEN Find(shuffle', index) ELSE index
              /\ UNCHANGED aborted
         ELSE seqIndex' = position /\ aborted' = TRUE
  /\ UNCHANGED mode

Next ==
  \/ \E new \in NewItems : Assign(new) \/ Append_(new)
  \/ \E new \in NewItems, index \in 0 .. Len(items) : Insert(index, new)
  \/ \E old \in SUBSET Index(items) : Remove_(old)
  \/ \E old \in SUBSET Index(items), newPos \in 0 .. Len(items) :
       old # {} /\ Move(old, newPos)
  \/ Clear \/ Reverse_
  \/ \E new \in Straight \cup Shuffled : SetMode(new)
  \/ \E offset \in {-1, 0, 1} : NextItem(offset)
  \/ \E index \in Index(items) : JumpTo(index)

Spec == Init /\ [][Next]_vars

-----------------------------------------------------------------------------
(* Properties.                                                             *)

(* Every variable stays in its domain.                                     *)
TypeOK ==
  /\ mode \in Straight \cup Shuffled
  /\ items \in Seq(Item)
  /\ seqIndex \in -1 .. Cardinality(Item)
  /\ shuffle \in Seq(0 .. Cardinality(Item) - 1)
  /\ aborted \in BOOLEAN

(* The shuffle queue is a permutation of the indexes of the items, through *)
(* all growing and shrinking: the assertion of AdjustShuffleRange holds,   *)
(* and a shuffled pass plays every item and none twice.  (It outlives the  *)
(* items of a list that got empty.)  Every variable is in its domain.      *)
ShufflePermutes ==
  /\ TypeOK
  /\ items # <<>> => Len(shuffle) = Len(items)
  /\ Range(shuffle) = Index(shuffle)

InRange == seqIndex \in Index(items)

(* The item CurrentIndex stands for.                                       *)
CurrentItem == At(items, ItemIndex(seqIndex))

(* What Move promises: first the items that stood before newPos and are    *)
(* not moved, then the moved ones in their order, then the others.         *)
MovePlaces ==
  \A old \in SUBSET Index(items), newPos \in 0 .. Len(items) :
    LET stay == Index(items) \ old IN
    Moved(old, newPos) =
      Pick(items, Below(stay, newPos)) \o Pick(items, old)
                                      \o Pick(items, stay \ Below(stay, newPos))

MoveStep == \E old \in SUBSET Index(items), newPos \in 0 .. Len(items) :
              old # {} /\ old # Index(items) /\ Move(old, newPos)

CurrentKept == ~aborted' /\ InRange' /\ CurrentItem' = CurrentItem

ModeStep == \E new \in Straight \cup Shuffled : SetMode(new)

(* A change of the play mode keeps the current item current, between the   *)
(* item order and the shuffled order too; and so does, in the modes that   *)
(* follow the item order, a Move, whether it moves the current item or     *)
(* others across it.                                                       *)
CurrentStays ==
  [][InRange => /\ ModeStep => CurrentKept
                /\ MoveStep /\ mode \in Straight => CurrentKept]_vars

=============================================================================

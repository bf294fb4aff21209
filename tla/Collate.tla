------------------------------ MODULE Collate ------------------------------
(***************************************************************************)
(* The order by which the explorer sorts names: CmpUtf8 of sdk/scx/        *)
(* PinYinCompare.h, with the table of PinYinTable.h.  Three names, to ask  *)
(* of the order what std::sort needs of it.                                *)
(*                                                                         *)
(* A name is a sequence of characters: those of one byte, [bytes |-> 1,    *)
(* key], and those of more, whose keys are higher.  Sound is the table: a  *)
(* key of one byte has no sound, nor have many others; beyond the table    *)
(* there is none.                                                          *)
(***************************************************************************)
EXTENDS Integers, Sequences

CONSTANTS
  Char,       \* characters: [bytes, key]
  TABLE_SIZE, \* keys below it are in the table
  Sounds,     \* the keys that have a sound, and which: a number, in the order of strcoll
  MaxLength   \* of a name

VARIABLES
  names,      \* the three
  sorted      \* they were put in order

vars == <<names, sorted>>

Name == UNION {[1 .. n -> Char] : n \in 0 .. MaxLength}
Silent == 0
Sound(c) == IF c.key \in DOMAIN Sounds THEN Sounds[c.key] ELSE Silent
InTable(c) == c.key < TABLE_SIZE

(* strcoll of what is left of two names is by their keys here.             *)
Coll(a, b) ==
  LET differ == {k \in DOMAIN a \cap DOMAIN b : a[k] # b[k]} IN
  IF differ = {} THEN Len(a) < Len(b)
  ELSE LET k == CHOOSE k \in differ : \A j \in differ : k <= j IN a[k].key < b[k].key

Bytes(s) ==
  LET upTo[k \in 0 .. Len(s)] == IF k = 0 THEN 0 ELSE upTo[k - 1] + s[k].bytes IN
  upTo[Len(s)]

(* Mutant of Shorter: of two that are the same, both come first.           *)
ShorterOrSame(a, b) == Bytes(a) <= Bytes(b)

(* One of the two has ended.                                               *)
Shorter(a, b) == Bytes(a) < Bytes(b)

(* After two such characters the next two are looked at.                   *)
GoesOn(c, d) ==
  /\ c.bytes = 1 => d = c
  /\ InTable(c) /\ InTable(d) /\ Sound(c) = Sound(d)

(* The first place where that is not so decides.  One of more bytes against*)
(* one of one byte is not decided by that, as one of one byte against one  *)
(* of more is: the test for it cannot be true.                             *)
CmpUtf8(a, b) ==
  LET rest(s, k) == SubSeq(s, k, Len(s))
      ended(k) == k > Len(a) \/ k > Len(b)
      next(k) == ~ended(k) /\ GoesOn(a[k], b[k])
      first == CHOOSE k \in 1 .. Len(a) + 1 : ~next(k) /\ \A j \in 1 .. k - 1 : next(j)
      c == a[first]
      d == b[first] IN
  IF ended(first) THEN Shorter(rest(a, first), rest(b, first))
  ELSE IF c.bytes = 1 /\ d.bytes = 1 /\ c # d THEN c.key < d.key
  ELSE IF c.bytes = 1 /\ d.bytes > 1 THEN TRUE
  ELSE IF InTable(c) # InTable(d) THEN InTable(d)
  ELSE IF ~InTable(c) THEN Coll(rest(a, first), rest(b, first))
  ELSE Sound(c) < Sound(d)

-----------------------------------------------------------------------------
Init == names \in [1 .. 3 -> Name] /\ sorted = FALSE

(* std::sort, of so few: insertion, before the first that comes later.     *)
Inserted(s, n) ==
  LET later == {k \in DOMAIN s : CmpUtf8(n, s[k])}
      i == CHOOSE k \in later : \A j \in later : k <= j IN
  IF later = {} THEN Append(s, n) ELSE SubSeq(s, 1, i - 1) \o <<n>> \o SubSeq(s, i, Len(s))

Sort ==
  /\ ~sorted /\ sorted' = TRUE
  /\ names' = Inserted(Inserted(<<names[1]>>, names[2]), names[3])

Next == Sort

Spec == Init /\ [][Next]_vars

-----------------------------------------------------------------------------
(* Properties.                                                             *)

(* What has no place in the order: characters of more than one byte that   *)
(* have no sound, accented letters for example, or are beyond the table.   *)
Placed(s) == \A k \in DOMAIN s : s[k].bytes > 1 => InTable(s[k]) /\ Sound(s[k]) # Silent

(* Among the others it is a strict weak order, and what is sorted is so.   *)
CollateInv ==
  (\A i \in 1 .. 3 : Placed(names[i])) =>
    LET lt(i, j) == CmpUtf8(names[i], names[j])
        same(i, j) == ~lt(i, j) /\ ~lt(j, i) IN
    /\ \A i, j \in 1 .. 3 : ~(lt(i, j) /\ lt(j, i))
    /\ lt(1, 2) /\ lt(2, 3) => lt(1, 3)
    /\ same(1, 2) /\ same(2, 3) => same(1, 3)
    /\ sorted => ~lt(2, 1) /\ ~lt(3, 2)
=============================================================================

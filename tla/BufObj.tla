------------------------------- MODULE BufObj -------------------------------
(***************************************************************************)
(* The buffer that messages and files are written to and read from         *)
(* (sdk/scx/BufObj.h): memory, a place in it and no idea of where it ends. *)
(* A buffer without memory counts: what is written to it only moves the    *)
(* offset, which is how the memory for the real write is measured.  A cell *)
(* stands for some bytes: a char takes one, an int two, a long three, and  *)
(* a cell of a number knows which part of it it is, so that a number read  *)
(* from anywhere else than where one was written is not that number.       *)
(***************************************************************************)
EXTENDS Integers, SequencesExt

Size(type) == CASE type = "char" -> 1 [] type = "int" -> 2 [] type = "long" -> 3

(* What is read from cells that are not those of one number: some number.  *)
Mixed == -9

Cells(type, v) == [k \in 1 .. Size(type) |-> <<type, v, k>>]

(* Memory of n cells in which nothing is, and the buffer over it.          *)
Fresh(n) == [k \in 1 .. n |-> <<"char", 0, 1>>]

Buffer(mem) == [mem |-> mem, null |-> FALSE, off |-> 0, over |-> FALSE]

NoMemory == [mem |-> <<>>, null |-> TRUE, off |-> 0, over |-> FALSE]

SetBuffer(mem) == Buffer(mem)

Fits(b, n) == b.off + n <= Len(b.mem)

Advanced(b, n) ==
  [b EXCEPT !.off = b.off + n, !.over = b.over \/ (~b.null /\ ~Fits(b, n))]

-----------------------------------------------------------------------------
(* Writing.                                                                *)
Put(b, cells) ==
  LET n == Len(cells)
  IN IF b.null \/ ~Fits(b, n) THEN Advanced(b, n)
     ELSE [Advanced(b, n) EXCEPT !.mem =
            SubSeq(b.mem, 1, b.off) \o cells \o SubSeq(b.mem, b.off + n + 1, Len(b.mem))]

Chars(s) == [k \in DOMAIN s |-> <<"char", s[k], 1>>]

CellsOf(type, v) == IF type = "string" THEN Cells("int", Len(v)) \o Chars(v) ELSE Cells(type, v)

PutRaw(b, type, v) == Put(b, Cells(type, v))

PutChars(b, s) == Put(b, Chars(s))

PutString(b, s) == Put(b, CellsOf("string", s))

PutValue(b, type, v) == Put(b, CellsOf(type, v))

(* One value after the other: b << v1 << v2 ...                            *)
CellsOfAll(types, values) == FlattenSeq([k \in DOMAIN types |-> CellsOf(types[k], values[k])])

PutAll(b, types, values) == Put(b, CellsOfAll(types, values))

(* vector, deque, list, and a queue, which is emptied from the front       *)
PutList(b, types, elements) ==
  Put(b, Cells("int", Len(elements))
           \o FlattenSeq([k \in DOMAIN elements |-> CellsOfAll(types, elements[k])]))

PutArray(b, types, elements) == PutList(b, types, elements)

(* A stack is emptied from its top into an array that is then turned round.*)
Popped(stack) == [k \in DOMAIN stack |-> stack[Len(stack) + 1 - k]]

(* Mutant of PutStack: the top is written first.                           *)
PutStackPopped(b, types, stack) == PutArray(b, types, Popped(stack))

PutStack(b, types, stack) == PutArray(b, types, Reverse(Popped(stack)))

(* The elements of a set, and the entries of a map, in order.              *)
Ascending(S) == SetToSortSeq(S, LAMBDA x, y : x[1] < y[1])

PutSet(b, types, S) == PutList(b, types, Ascending(S))

PutMap(b, key, type, m) ==
  PutList(b, <<key, type>>, Ascending({<<k, m[k]>> : k \in DOMAIN m}))

-----------------------------------------------------------------------------
(* Reading: the buffer after it, and what was read.                        *)
Number(cells, type) ==
  IF cells = Cells(type, cells[1][2]) THEN cells[1][2] ELSE Mixed

TakeRaw(b, type) ==
  LET n == Size(type)
  IN [buf |-> Advanced(b, n),
      val |-> IF b.null \/ ~Fits(b, n) THEN 0
              ELSE Number(SubSeq(b.mem, b.off + 1, b.off + n), type)]

(* Where nothing is said of moving on, Fetch does not.                     *)
Fetch(b, type) == TakeRaw(b, type).val

(* A number of chars no buffer has: the read goes beyond the memory.       *)
TakeChars(b, n) ==
  IF n < 0 THEN [buf |-> [b EXCEPT !.over = TRUE], val |-> <<>>]
  ELSE [buf |-> Advanced(b, n),
        val |-> IF b.null \/ ~Fits(b, n) THEN <<>> ELSE [k \in 1 .. n |-> b.mem[b.off + k][2]]]

TakeString(b) == LET size == TakeRaw(b, "int") IN TakeChars(size.buf, size.val)

TakeValue(b, type) == IF type = "string" THEN TakeString(b) ELSE TakeRaw(b, type)

TakeAll(b, types) ==
  FoldLeft(
    LAMBDA t, type :
      LET one == TakeValue(t.buf, type) IN [buf |-> one.buf, val |-> Append(t.val, one.val)],
    [buf |-> b, val |-> <<>>], types)

(* vector, deque, list; a queue or a stack takes over the deque.  A count  *)
(* that is no count, or goes on beyond the memory, is the end of reading.  *)
TakeList(b, types) ==
  LET count == TakeRaw(b, "int")
  IN FoldLeft(
       LAMBDA t, k :
         IF t.buf.over THEN t
         ELSE LET one == TakeAll(t.buf, types)
              IN [buf |-> one.buf, val |-> Append(t.val, one.val)],
       [buf |-> [count.buf EXCEPT !.over = count.buf.over \/ count.val < 0], val |-> <<>>],
       [k \in 1 .. count.val |-> k])

TakeArray(b, types) == TakeList(b, types)

(* Into a set or a map that may hold something.                            *)
TakeSet(b, types, into) ==
  LET t == TakeList(b, types) IN [buf |-> t.buf, val |-> into \cup ToSet(t.val)]

TakeMap(b, key, type, into) ==
  LET t == TakeList(b, <<key, type>>)
      keys == {e[1] : e \in ToSet(t.val)}
      last(k) == t.val[Max({i \in DOMAIN t.val : t.val[i][1] = k})][2]
  IN [buf |-> t.buf,
      val |-> [k \in DOMAIN into \cup keys |-> IF k \in keys THEN last(k) ELSE into[k]]]

-----------------------------------------------------------------------------
(* An item and its tag (sdk/util/MediaItem.h and MediaTag.h): what         *)
(* operator>> writes and what operator<< reads.  The item's userData is    *)
(* neither written nor read.                                               *)

TagWritten == <<"string", "string", "string", "string", "string", "int", "int">>
TagRead == <<"string", "string", "string", "string", "string", "int", "int">>

ItemWritten == <<"string", "int", "char", "long", "long">> \o TagWritten
ItemRead == <<"string", "int", "char", "long", "long">> \o TagRead
=============================================================================

------------------------------- MODULE Editor -------------------------------
(***************************************************************************)
(* Editing a playlist in the Qt application: SimplePlaylistView.cpp keeps  *)
(* the rows it shows and a Playlist, changes both by hand in every         *)
(* command, and records commands in a PlaylistActionHistory.               *)
(*                                                                         *)
(* Commands run on the UI thread under m_PlaylistMutex.  Files are loaded  *)
(* by a detached thread, which has the UI thread append one row after the  *)
(* other and records the load as one command at the end, without the mutex.*)
(*                                                                         *)
(* The Playlist is in a mode that does not shuffle (Repeat by default),    *)
(* and is written here as functions, for commands make many calls of it.   *)
(***************************************************************************)
EXTENDS Integers, Sequences, FiniteSets

LOCAL INSTANCE SequencesExt
LOCAL INSTANCE FiniteSetsExt

CONSTANTS
  Item,          \* the media items
  MaxHistory,    \* m_MaxHistory
  MaxLen,        \* bound: longest list
  CommandBound   \* bound: how many commands other than undo and redo, and loads

VARIABLES
  items, at,     \* m_Playlist: its m_ItemQueue and m_SeqIndex
  rows,          \* m_ItemModel
  undo, redo,    \* m_History: m_UndoStack, m_RedoStack
  clipboard,     \* m_Clipboard
  toLoad, got,   \* the loading thread: what it still has to send, what it sent
  aborted,       \* an assertion failed or memory outside the list was used
  commands,
  \* For the properties only:
  raced,         \* the list changed between the first row of a load and its record
  misplaced      \* a move that brought an item up was undone, or any after a race

vars == <<items, at, rows, undo, redo, clipboard, toLoad, got, aborted, commands, raced, misplaced>>

-----------------------------------------------------------------------------
(* Playlist, for commands: a playlist is a record, or Broken when an       *)
(* assertion of it has failed or it was asked for an item it has not.      *)
Broken == [q |-> <<>>, at |-> -2]
List == [q |-> items, at |-> at]

(* AdjustSeqPosition                                                       *)
Adjusted(q, pos) == [q |-> q, at |-> IF q = <<>> THEN -1 ELSE pos]

Insert(l, pos, item) ==
  IF l # Broken /\ pos \in 0 .. Len(l.q)
  THEN [l EXCEPT !.q = InsertAt(l.q, pos + 1, item)] ELSE Broken

Remove1(l, pos) ==
  IF l # Broken /\ pos \in 0 .. Len(l.q) - 1
  THEN Adjusted(RemoveAt(l.q, pos + 1), l.at) ELSE Broken

(* Without the items at the positions of a set.                            *)
Without(q, old) ==
  LET kept == {k \in DOMAIN q : k - 1 \notin old}
      order == SetToSortSeq(kept, <) IN
  [k \in DOMAIN order |-> q[order[k]]]

(* Where position pos is after old moved to before newPos.                 *)
Followed(pos, old, realNewPos) ==
  LET tmp == pos - Cardinality({o \in old : o < pos}) IN
  IF pos \in old THEN realNewPos + Cardinality({o \in old : o < pos})
  ELSE IF realNewPos <= tmp THEN tmp + Cardinality(old) ELSE tmp

(* Mutant of Move: the target is not corrected for what is taken away.     *)
MoveUncorrected(l, old, newPos) ==
  LET n == Len(l.q)
      order == SetToSortSeq(old, <)
      taken == [k \in DOMAIN order |-> l.q[order[k] + 1]]
      left == Without(l.q, old)
      seqIndex == Followed(Adjusted(left, l.at).at, old, newPos) IN
  IF l = Broken THEN Broken
  ELSE IF n < 2 THEN l
  ELSE IF ~(old \subseteq 0 .. n - 1) \/ newPos \notin 0 .. Len(left) \/ seqIndex \notin 0 .. n - 1 THEN Broken
  ELSE [q |-> SubSeq(left, 1, newPos) \o taken \o SubSeq(left, newPos + 1, Len(left)), at |-> seqIndex]

Move(l, old, newPos) ==
  LET n == Len(l.q)
      realNewPos == newPos - Cardinality({o \in old : o < newPos})
      order == SetToSortSeq(old, <)
      taken == [k \in DOMAIN order |-> l.q[order[k] + 1]]
      left == Without(l.q, old)
      seqIndex == Followed(Adjusted(left, l.at).at, old, realNewPos) IN
  IF l = Broken THEN Broken
  ELSE IF n < 2 THEN l
  ELSE IF ~(old \subseteq 0 .. n - 1) \/ realNewPos \notin 0 .. Len(left) \/ seqIndex \notin 0 .. n - 1 THEN Broken
  ELSE [q |-> SubSeq(left, 1, realNewPos) \o taken \o SubSeq(left, realNewPos + 1, Len(left)), at |-> seqIndex]

(* QStandardItemModel, which leaves out what it cannot do.                 *)
InsertRow(r, pos, item) == IF pos \in 0 .. Len(r) THEN InsertAt(r, pos + 1, item) ELSE r
RemoveRow(r, pos)       == IF pos \in 0 .. Len(r) - 1 THEN RemoveAt(r, pos + 1) ELSE r
RemoveRows(r, pos, n)   ==
  IF pos >= 0 /\ pos + n <= Len(r) THEN SubSeq(r, 1, pos) \o SubSeq(r, pos + n + 1, Len(r)) ELSE r

-----------------------------------------------------------------------------
(* PlaylistActionHistory.  An action also holds the list before it, which  *)
(* the code does not, for the properties.                                  *)

(* A full stack loses its oldest actions, one more than there are too many.*)
Trimmed(stack) ==
  LET useless == Len(stack) - MaxHistory IN
  IF useless >= 0 THEN SubSeq(stack, useless + 2, Len(stack)) ELSE stack

PushUndoAction(action) ==
  undo' = Trimmed(Append(undo, action)) /\ redo' = <<>>

PopUndoAction  == undo' = Front(undo) /\ redo' = Append(redo, Last(undo))
TakeRedoAction == redo' = Front(redo) /\ undo' = Append(undo, Last(redo))

Source(pos, item) == [pos |-> pos, item |-> item]

-----------------------------------------------------------------------------

Init ==
  /\ items \in {<<>>, SetToSeq(Item)}
  /\ at \in {-1, 0} /\ at < Len(items)
  /\ rows = items
  /\ undo = <<>> /\ redo = <<>> /\ clipboard = <<>>
  /\ toLoad = <<>> /\ got = <<>>
  /\ aborted = FALSE /\ commands = 0 /\ raced = FALSE /\ misplaced = FALSE

Command == ~aborted /\ commands < CommandBound /\ commands' = commands + 1

(* The playlist becomes l, or the process is gone.                         *)
Becomes(l) ==
  /\ items' = l.q /\ at' = l.at
  /\ aborted' = (l = Broken)

(* A command's effect on the list.                                         *)
Edits(l) ==
  /\ ~aborted
  /\ Becomes(l)
  /\ raced' = (raced \/ got # <<>>)
  /\ UNCHANGED <<toLoad, got>>

Ascending(S) == SetToSortSeq(S, <)
RowsOf(s) == 0 .. Len(s) - 1

(* The item of a row; reading one the playlist has not is memory outside.  *)
ItemAt(row) == IF row \in RowsOf(items) THEN items[row + 1] ELSE CHOOSE item \in Item : TRUE
Checked(rowSet, l) == IF rowSet \subseteq RowsOf(items) THEN l ELSE Broken

(* Selected rows dragged to before row visualPos: dropEvent.               *)
DropRows(rowSet, visualPos) ==
  LET realPos == visualPos - Cardinality({r \in rowSet : r < visualPos})
      order == Ascending(rowSet)
      source == [k \in DOMAIN order |-> Source(order[k], ItemAt(order[k]))]
      left == Without(rows, rowSet) IN
  /\ Command
  /\ Edits(Checked(rowSet, Move(List, rowSet, visualPos)))
  /\ rows' = SubSeq(left, 1, realPos) \o [k \in DOMAIN source |-> source[k].item]
                \o SubSeq(left, realPos + 1, Len(left))
  /\ PushUndoAction([type |-> "Move", source |-> source, visual |-> visualPos,
                     pos |-> realPos, was |-> items])
  /\ UNCHANGED <<clipboard, misplaced>>

(* The selected rows in the order they were selected in: up or down here.  *)
Copy(selection) ==
  /\ Command
  /\ clipboard' = [k \in DOMAIN selection |-> ItemAt(selection[k])]
  /\ aborted' = (Checked({selection[k] : k \in DOMAIN selection}, List) = Broken)
  /\ UNCHANGED <<items, at, rows, undo, redo, toLoad, got, raced, misplaced>>

(* From row pos on, or at the end when not exactly one row is selected.    *)
Paste(pos) ==
  LET n == Len(clipboard)
      place(k) == IF pos = -1 THEN Len(items) + k - 1 ELSE pos + k - 1 IN
  /\ n > 0 /\ Len(items) + n <= MaxLen
  /\ Command
  /\ Edits(FoldLeft(LAMBDA l, k : Insert(l, place(k), clipboard[k]), List, [k \in 1 .. n |-> k]))
  /\ rows' = FoldLeft(LAMBDA r, k : InsertRow(r, place(k), clipboard[k]), rows, [k \in 1 .. n |-> k])
  /\ PushUndoAction([type |-> "Insert", source |-> [k \in 1 .. n |-> Source(-1, clipboard[k])],
                     pos |-> pos, was |-> items])
  /\ UNCHANGED <<clipboard, misplaced>>

(* The selected rows, from the last to the first.                          *)
Deleted(rowSet) ==
  LET order == Ascending(rowSet) IN
  /\ Command
  /\ Edits(FoldLeft(Remove1, List, Reverse(order)))
  /\ rows' = FoldLeft(RemoveRow, rows, Reverse(order))
  /\ PushUndoAction([type |-> "Remove", was |-> items,
       source |-> [k \in DOMAIN order |-> Source(order[k], ItemAt(order[k]))]])

Delete(rowSet) == Deleted(rowSet) /\ UNCHANGED <<clipboard, misplaced>>

Cut(selection) ==
  /\ Deleted({selection[k] : k \in DOMAIN selection})
  /\ clipboard' = [k \in DOMAIN selection |-> ItemAt(selection[k])]
  /\ UNCHANGED misplaced

-----------------------------------------------------------------------------
(* Undo and redo: what an action does to the rows, and to the playlist.    *)

Sources(action) == [k \in DOMAIN action.source |-> k]

(* Mutant of UndoInsert: the rows are taken from the end, always.          *)
UndoInsertAtEnd(action) ==
  LET n == Len(action.source)
      since == Len(items) - n IN
  /\ Edits(IF items = <<>> \/ rows = <<>> THEN Broken
           ELSE FoldLeft(LAMBDA l, k : Remove1(l, since + n - k), List, Sources(action)))
  /\ rows' = RemoveRows(rows, since, n)

(* The rows it inserted, or the last ones, if there are any: asserted.     *)
UndoInsert(action) ==
  LET n == Len(action.source)
      since == IF action.pos # -1 THEN action.pos ELSE Len(items) - n IN
  /\ Edits(IF items = <<>> \/ rows = <<>> THEN Broken
           ELSE FoldLeft(LAMBDA l, k : Remove1(l, since + n - k), List, Sources(action)))
  /\ rows' = RemoveRows(rows, since, n)

UndoRemove(action) ==
  /\ Edits(FoldLeft(LAMBDA l, s : Insert(l, s.pos, s.item), List, action.source))
  /\ rows' = FoldLeft(LAMBDA r, s : InsertRow(r, s.pos, s.item), rows, action.source)

(* One item after the other goes back.  The playlist is given the place as *)
(* the item's old index; its Move takes the index before which to put it.  *)
UndoMove(action) ==
  /\ Edits(FoldLeft(LAMBDA l, k : Move(l, {action.pos + k - 1}, action.source[k].pos),
                    List, Sources(action)))
  /\ rows' = FoldLeft(LAMBDA r, k : InsertRow(RemoveRow(r, action.pos + k - 1),
                                              action.source[k].pos, action.source[k].item),
                      rows, Sources(action))

Undo ==
  /\ undo # <<>>
  /\ LET action == Last(undo) IN
     /\ \/ action.type = "Insert" /\ UndoInsert(action)
        \/ action.type = "Remove" /\ UndoRemove(action)
        \/ action.type = "Move" /\ UndoMove(action)
     /\ misplaced' = (misplaced \/ (action.type = "Move" /\
          (raced \/ \E k \in DOMAIN action.source : action.source[k].pos > action.pos + k - 1)))
  /\ PopUndoAction
  /\ UNCHANGED <<clipboard, commands>>

RedoInsert(action) ==
  LET place(l, k) == IF action.pos = -1 THEN Len(l) ELSE action.pos + k - 1 IN
  /\ Len(items) + Len(action.source) <= MaxLen
  /\ Edits(FoldLeft(LAMBDA l, k : Insert(l, place(l.q, k), action.source[k].item), List, Sources(action)))
  /\ rows' = FoldLeft(LAMBDA r, k : InsertRow(r, place(r, k), action.source[k].item), rows, Sources(action))

RedoRemove(action) ==
  /\ Edits(FoldLeft(LAMBDA l, s : Remove1(l, s.pos), List, Reverse(action.source)))
  /\ rows' = FoldLeft(LAMBDA r, s : RemoveRow(r, s.pos), rows, Reverse(action.source))

RedoMove(action) ==
  LET left == FoldLeft(LAMBDA r, s : RemoveRow(r, s.pos), rows, Reverse(action.source)) IN
  /\ Edits(Move(List, {action.source[k].pos : k \in DOMAIN action.source}, action.visual))
  /\ rows' = FoldLeft(LAMBDA r, k : InsertRow(r, action.pos + k - 1, action.source[k].item),
                      left, Sources(action))

Redo ==
  /\ redo # <<>>
  /\ LET action == Last(redo) IN
     /\ \/ action.type = "Insert" /\ RedoInsert(action)
        \/ action.type = "Remove" /\ RedoRemove(action)
        \/ action.type = "Move" /\ RedoMove(action)
     /\ misplaced' = (misplaced \/ (raced /\ action.type = "Move"))
  /\ TakeRedoAction
  /\ UNCHANGED <<clipboard, commands>>

-----------------------------------------------------------------------------
(* Playing a row: a double click.                                          *)
PlayRow(row) ==
  /\ Command
  /\ at' = row
  /\ aborted' = (Checked({row}, List) = Broken)
  /\ UNCHANGED <<items, rows, undo, redo, clipboard, toLoad, got, raced, misplaced>>

(* The loading thread; here it finds one item or two.                      *)
StartLoad ==
  /\ Command
  /\ toLoad = <<>> /\ got = <<>>
  /\ \E n \in 1 .. 2 : toLoad' = SubSeq(SetToSeq(Item), 1, n)
  /\ UNCHANGED <<items, at, rows, undo, redo, clipboard, got, aborted, raced, misplaced>>

(* A row arrives in the UI thread, for which the loading thread waits; or  *)
(* the file turns out to be none.                                          *)
SlotListRowGot ==
  /\ ~aborted /\ toLoad # <<>>
  /\ \/ /\ Len(items) < MaxLen
        /\ items' = Append(items, Head(toLoad)) /\ rows' = Append(rows, Head(toLoad))
        /\ got' = Append(got, [item |-> Head(toLoad), was |-> items])
     \/ UNCHANGED <<items, rows, got>>
  /\ toLoad' = Tail(toLoad)
  /\ UNCHANGED <<at, undo, redo, clipboard, aborted, commands, raced, misplaced>>

LoadDone ==
  /\ ~aborted /\ toLoad = <<>> /\ got # <<>> /\ got' = <<>>
  /\ PushUndoAction([type |-> "Insert", source |-> [k \in DOMAIN got |-> Source(-1, got[k].item)],
                     pos |-> -1, was |-> Head(got).was])
  /\ UNCHANGED <<items, at, rows, clipboard, toLoad, aborted, commands, raced, misplaced>>

Next ==
  \/ \E rowSet \in SUBSET RowsOf(rows) \ {{}} :
       Delete(rowSet) \/ \E visualPos \in 0 .. Len(rows) : DropRows(rowSet, visualPos)
  \/ \E rowSet \in SUBSET RowsOf(rows) \ {{}} : \E selection \in {Ascending(rowSet), Reverse(Ascending(rowSet))} :
       Copy(selection) \/ Cut(selection)
  \/ \E pos \in -1 .. Len(rows) - 1 : Paste(pos)
  \/ \E row \in RowsOf(rows) : PlayRow(row)
  \/ Undo \/ Redo \/ StartLoad \/ SlotListRowGot \/ LoadDone

Spec == Init /\ [][Next]_vars

-----------------------------------------------------------------------------
(* Properties.                                                             *)

(* Every variable stays in its domain; the two stacks together keep one    *)
(* action less than the maximum, however they trade actions.               *)
TypeOK ==
  /\ {items, rows, clipboard, toLoad} \subseteq Seq(Item) /\ at \in Int
  /\ {aborted, raced, misplaced} \subseteq BOOLEAN
  /\ \A stack \in {undo, redo} : \A k \in DOMAIN stack :
       stack[k].type \in {"Insert", "Remove", "Move"} /\ stack[k].was \in Seq(Item)
  /\ Len(undo) + Len(redo) < MaxHistory

(* The rows are the playlist's items, after any commands, undone, redone   *)
(* and interleaved with loads; except that undoing a move that brought     *)
(* items up puts row and item back one place apart.  Every variable is in  *)
(* its domain, and the two stacks keep to their limit.                     *)
RowsMatch == TypeOK /\ (~aborted /\ ~misplaced => rows = items)

Sound == ~raced' /\ ~misplaced' /\ ~aborted'

(* Undo restores the list as it was before the action, however long ago,   *)
(* and whatever was done and undone since; a redo finds the list its       *)
(* action was first done to, so that it does the same again: whatever else *)
(* changes the list forgets what was undone.  Except that a load was       *)
(* interleaved with edits, or a move up was undone.                        *)
HistoryStep ==
  /\ Undo /\ Sound => items' = Last(undo).was
  /\ Redo /\ Sound => items = Last(redo).was

=============================================================================

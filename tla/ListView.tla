------------------------------ MODULE ListView ------------------------------
(***************************************************************************)
(* PlaylistView.cc, for what it draws: the window over the list, moved by  *)
(* keys, and by what the server says has happened.  What the list holds is *)
(* in module Mirror.                                                       *)
(***************************************************************************)
EXTENDS Scroll

CONSTANTS
  Heights,   \* that the view may have
  MaxItems   \* bound: how long the list is

VARIABLES
  count,     \* m_List.size()
  window,    \* m_ItemBegin and m_ItemSelected
  height,    \* d.Height()
  \* For the properties only:
  drawn,     \* nothing has happened since it was drawn
  lifted     \* the selection went up by itself, and Home, End or Clear did not come since

vars == <<count, window, height, drawn, lifted>>

Init ==
  /\ count = 0 /\ window = Start /\ height \in Heights
  /\ drawn = FALSE /\ lifted = FALSE

-----------------------------------------------------------------------------
(* Mutant of Redrawn: the number of the last item is taken for the count.  *)
RedrawnShort(w, n, h) ==
  IF n = 0 \/ w.sel <= Min({w.beg + Lines(h), n}) THEN w
  ELSE [w EXCEPT !.beg = IF w.sel <= Middle(h) THEN 0 ELSE Min({w.sel, Max({n - Lines(h), 0})})]

(* Refresh: a selection below the window brings the window down, "the same *)
(* algorithm" as of ScrollDown, from the top.                              *)
Redrawn(w, n, h) ==
  IF n = 0 \/ w.sel < Min({w.beg + Lines(h), n}) THEN w
  ELSE [w EXCEPT !.beg = IF w.sel <= Middle(h) THEN 0 ELSE Min({w.sel, Max({n - Lines(h), 0})})]

Refresh ==
  /\ drawn' = TRUE /\ window' = Redrawn(window, count, height)
  /\ UNCHANGED <<count, height, lifted>>

(* A key, which draws.                                                     *)
InjectKey(key) ==
  /\ count > 0 /\ drawn' = TRUE
  /\ window' = Redrawn(Scrolled(key, window, count, height), count, height)
  /\ lifted' = (lifted /\ key \notin {"home", "end"})
  /\ UNCHANGED <<count, height>>

Resize(h) ==
  /\ h # height /\ height' = h /\ drawn' = FALSE
  /\ UNCHANGED <<count, window, lifted>>

SlotAppend(n) ==
  /\ count + n <= MaxItems /\ count' = count + n /\ drawn' = FALSE
  /\ UNCHANGED <<window, height, lifted>>

(* What is selected is the server's, which may have more items.            *)
SlotSelect(pos) ==
  /\ window' = [window EXCEPT !.sel = pos] /\ drawn' = FALSE /\ lifted' = TRUE
  /\ UNCHANGED <<count, height>>

SlotRemove(pos) ==
  /\ pos < count /\ count' = count - 1 /\ drawn' = FALSE
  /\ window' = [window EXCEPT !.sel = IF count' > 0 /\ @ >= count' - 1 THEN count' - 1 ELSE @]
  /\ lifted' = TRUE
  /\ UNCHANGED height

SlotMove(pos, direct) ==
  LET newPos == IF direct > 0 THEN pos + 1 ELSE pos - 1 IN
  /\ pos < count /\ newPos \in 0 .. count - 1 /\ drawn' = FALSE
  /\ window' = [window EXCEPT !.sel = newPos]
  /\ lifted' = (lifted \/ newPos < window.sel)
  /\ UNCHANGED <<count, height>>

SlotClear ==
  /\ count' = 0 /\ window' = Start /\ drawn' = FALSE /\ lifted' = FALSE
  /\ UNCHANGED height

Next ==
  \/ Refresh \/ SlotClear
  \/ \E key \in ScrollKey : InjectKey(key)
  \/ \E h \in Heights : Resize(h)
  \/ \E n \in 1 .. 2 : SlotAppend(n)
  \/ \E pos \in 0 .. MaxItems : SlotSelect(pos) \/ SlotRemove(pos) \/ \E direct \in {-1, 1} : SlotMove(pos, direct)

Spec == Init /\ [][Next]_vars

-----------------------------------------------------------------------------
(* Properties.                                                             *)

(* Once drawn, the selected item can be seen: never is the window above it,*)
(* and below it only after the selection went up without a key.            *)
SelectedSeen ==
  drawn /\ count > 0 =>
    /\ window.sel < window.beg + Lines(height) \/ window.sel >= count
    /\ ~lifted => Seen(window, count, height)
=============================================================================

------------------------------- MODULE Scroll -------------------------------
(***************************************************************************)
(* The window over a long list that PlaylistView.cc and ExplorerView.cc    *)
(* have in common: [beg, sel], the first line shown and the selected one.  *)
(* n is how many items there are, h the height of the view: two lines are  *)
(* its border and one tells where one is.                                  *)
(***************************************************************************)
EXTENDS Integers, FiniteSetsExt

Lines(h) == h - 3
Middle(h) == (h - 2) \div 2
Start == [beg |-> 0, sel |-> 0]

ScrollDown(w, n, h) ==
  LET sel == IF w.sel < n - 1 THEN w.sel + 1 ELSE w.sel IN
  [beg |-> IF sel > Middle(h) /\ w.beg < n - Lines(h) THEN w.beg + 1 ELSE w.beg, sel |-> sel]

ScrollUp(w, n, h) ==
  LET sel == IF w.sel > 0 THEN w.sel - 1 ELSE w.sel IN
  [beg |-> IF sel < w.beg + Middle(h) /\ w.beg > 0 THEN w.beg - 1 ELSE w.beg, sel |-> sel]

ScrollEnd(w, n, h) == [beg |-> Max({n - Lines(h), 0}), sel |-> n - 1]

(* Half a page: so many steps.                                             *)
Paged(key, w, n, h) ==
  LET Step(x) == IF key = "page down" THEN ScrollDown(x, n, h) ELSE ScrollUp(x, n, h)
      after[k \in 0 .. Lines(h) \div 2] == IF k = 0 THEN w ELSE Step(after[k - 1]) IN
  after[Lines(h) \div 2]

(* What a key of both views makes of the window; for End and Home, too, the*)
(* list is not empty.                                                      *)
Scrolled(key, w, n, h) ==
  IF key = "down" THEN ScrollDown(w, n, h)
  ELSE IF key = "up" THEN ScrollUp(w, n, h)
  ELSE IF key = "home" THEN Start
  ELSE IF key = "end" THEN ScrollEnd(w, n, h)
  ELSE Paged(key, w, n, h)

ScrollKey == {"down", "up", "page down", "page up", "home", "end"}

(* The selected item is among the lines drawn.                             *)
Seen(w, n, h) == w.sel \in w.beg .. Min({w.beg + Lines(h), n}) - 1
=============================================================================

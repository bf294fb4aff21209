------------------------------ MODULE Explorer ------------------------------
(***************************************************************************)
(* The file explorer of the terminal client (ExplorerView.cc, with Dir.h   *)
(* and FileInfo.h).  It keeps a stack of windows, one for each directory   *)
(* that it has entered, and reads a directory when it comes to it; what is *)
(* in the directories changes meanwhile.                                   *)
(***************************************************************************)
EXTENDS Scroll, FiniteSets, Sequences

CONSTANTS
  Order,       \* the names, as the explorer sorts them (module Collate)
  Folder,      \* the names of directories; the others are of files
  Dotted, Unknown,  \* names with a dot in front; of files for which there is no plug-in
  Link,        \* Link[n]: the path of the directory that the link n is
  Entries,     \* paths there may be, as sequences of names; <<>> is the root
  Home,        \* where the explorer begins
  Heights,     \* of the view
  LevelBound,  \* bound: of the stack, which grows when links are followed
  ChangeBound  \* bound: entries that come or go

VARIABLES
  disk,        \* the entries there are
  path,        \* m_Path
  fileItems,   \* m_FileItems
  stack,       \* m_BeginStack with m_SelectionStack
  hideDot, hideUnknown,
  height,      \* d.Height()
  \* For the properties only:
  changes, stale,  \* the disk has changed, or a link was left, since the list was built anew
  sized,       \* the height has changed
  fault        \* an item past the last was used, or a directory read that is not there

vars == <<disk, path, fileItems, stack, hideDot, hideUnknown, height, changes, stale, sized, fault>>

(* Paths, and the stack: the last is where one is, or on top.              *)
Last(s) == s[Len(s)]
Front(s) == SubSeq(s, 1, Len(s) - 1)
IsPrefix(p, q) == Len(p) <= Len(q) /\ SubSeq(q, 1, Len(p)) = p

(* A path without links.                                                   *)
RealPath(p) ==
  LET links == {i \in DOMAIN p : p[i] \in DOMAIN Link} IN
  IF links = {} THEN p ELSE Link[p[Max(links)]] \o SubSeq(p, Max(links) + 1, Len(p))

IsDir(p) == RealPath(p) = <<>> \/ (RealPath(p) \in disk /\ Last(p) \in Folder)

(* The names at some places of the order, in that order.                   *)
Sorted(places) ==
  [k \in 1 .. Cardinality(places) |->
     Order[CHOOSE i \in places : Cardinality({j \in places : j <= i}) = k]]

(* BuildFileItems: the directories come first.  A link that leads nowhere  *)
(* is a file without a suffix.                                             *)
Listing(p, noDot, noUnknown) ==
  LET item(n) == [name |-> n, isDir |-> IsDir(Append(p, n))]
      shown(n) ==
        /\ Append(RealPath(p), n) \in disk
        /\ noDot => n \notin Dotted
        /\ noUnknown => item(n).isDir \/ n \notin Unknown \cup Folder
      in == {k \in DOMAIN Order : shown(Order[k])}
      dirs == {k \in in : item(Order[k]).isDir}
      all == Sorted(dirs) \o Sorted(in \ dirs) IN
  [k \in DOMAIN all |-> item(all[k])]

Parent(p) == IF RealPath(p) = <<>> THEN <<>> ELSE Front(RealPath(p))

Init ==
  /\ disk = Entries /\ path = Home /\ hideDot = TRUE /\ hideUnknown = FALSE
  /\ fileItems = Listing(Home, TRUE, FALSE)
  /\ stack = <<Start>> /\ height \in Heights
  /\ changes = 0 /\ stale = FALSE /\ sized = FALSE /\ fault = FALSE

-----------------------------------------------------------------------------
Window == Last(stack)
Count == Len(fileItems)
Selected == fileItems[Window.sel + 1]
NotThere == Window.sel >= Count

(* Where nothing that is there is selected, what is used is not an item;   *)
(* a directory that is not there is read as if it were.                    *)
Astray ==
  /\ fault' = TRUE
  /\ UNCHANGED <<disk, path, fileItems, stack, hideDot, hideUnknown, height, changes, stale, sized>>

Build(p, noDot, noUnknown) ==
  /\ path' = p
  /\ fileItems' = Listing(p, noDot, noUnknown)
  /\ UNCHANGED <<disk, height, changes, sized, fault>>

ScrollBy(key) ==
  /\ fileItems # <<>>
  /\ stack' = Append(Front(stack), Scrolled(key, Window, Count, height))
  /\ UNCHANGED <<disk, path, fileItems, hideDot, hideUnknown, height, changes, stale, sized, fault>>

(* Mutant of CdUp: the window is not popped.                               *)
CdUpUnpopped ==
  /\ IsDir(path)
  /\ stale' = (stale \/ RealPath(path) # path)
  /\ Build(Parent(path), hideDot, hideUnknown)
  /\ UNCHANGED <<stack, hideDot, hideUnknown>>

(* A path that is not there has no parent.                                 *)
CdUp ==
  IF ~IsDir(path) THEN Astray
  ELSE /\ stack' = IF Len(stack) > 1 THEN Front(stack) ELSE <<Start>>
       /\ stale' = (stale \/ RealPath(path) # path)
       /\ Build(Parent(path), hideDot, hideUnknown)
       /\ UNCHANGED <<hideDot, hideUnknown>>

CdIn ==
  /\ fileItems # <<>> /\ Len(stack) < LevelBound
  /\ IF NotThere \/ (Selected.isDir /\ ~IsDir(Append(path, Selected.name))) THEN Astray
     ELSE /\ Selected.isDir
          /\ Build(Append(path, Selected.name), hideDot, hideUnknown)
          /\ stack' = Append(stack, Start)
          /\ UNCHANGED <<hideDot, hideUnknown, stale>>

(* "a": the file is given to the playlist (module Views); here, that there *)
(* is one.                                                                 *)
SigUserOpen == fileItems # <<>> /\ NotThere /\ Astray

(* "." and "s", and "r", which changes neither.                            *)
Rebuild(noDot, noUnknown) ==
  IF ~IsDir(path) THEN Astray
  ELSE /\ hideDot' = noDot /\ hideUnknown' = noUnknown
       /\ stack' = <<Start>> /\ stale' = FALSE
       /\ Build(path, noDot, noUnknown)

Resize(h) ==
  /\ h # height /\ height' = h /\ sized' = TRUE
  /\ UNCHANGED <<disk, path, fileItems, stack, hideDot, hideUnknown, changes, stale, fault>>

(* An entry goes, with all below it, or comes back.                        *)
Change(e) ==
  /\ changes < ChangeBound /\ changes' = changes + 1 /\ stale' = TRUE
  /\ disk' = IF e \in disk THEN {f \in disk : ~IsPrefix(e, f)} ELSE disk \cup {e}
  /\ Front(e) = <<>> \/ Front(e) \in disk
  /\ UNCHANGED <<path, fileItems, stack, hideDot, hideUnknown, height, sized, fault>>

Next ==
  /\ ~fault
  /\ \/ CdUp \/ CdIn \/ SigUserOpen
     \/ \E key \in ScrollKey : ScrollBy(key)
     \/ Rebuild(~hideDot, hideUnknown) \/ Rebuild(hideDot, ~hideUnknown) \/ Rebuild(hideDot, hideUnknown)
     \/ \E h \in Heights : Resize(h)
     \/ \E e \in Entries : Change(e)

Spec == Init /\ [][Next]_vars

-----------------------------------------------------------------------------
(* Properties.                                                             *)

(* While the disk is as it was read, the list is what is there, something  *)
(* of it is selected and, unless the height has changed, seen.             *)
ListsWhatIsThere ==
  ~stale =>
    /\ fileItems = Listing(path, hideDot, hideUnknown)
    /\ fileItems # <<>> => ~NotThere /\ (~sized => Seen(Window, Count, height))

(* And each way up leads to where the directory just left is selected.     *)
WayUp ==
  ~stale => \A k \in 1 .. Len(stack) - 1 :
    LET depth == Len(path) - Len(stack) + k IN
    Listing(SubSeq(path, 1, depth), hideDot, hideUnknown)[stack[k].sel + 1].name = path[depth + 1]

(* Both; and nothing that is not there is used before the disk changes or a*)
(* link is left.                                                           *)
ExplorerInv == ListsWhatIsThere /\ WayUp /\ (fault => stale)
=============================================================================

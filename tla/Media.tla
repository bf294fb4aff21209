------------------------------- MODULE Media -------------------------------
(***************************************************************************)
(* MediaLoader::LoadMedia of src/core/MediaLoaderImpl.h with the parsers it*)
(* calls: the sheet parser of libcue and the tag parser of taglib, of which*)
(* there is one each, shared by all who load.                              *)
(*                                                                         *)
(* In the service all sessions load under one mutex (Session.cc).  The Qt  *)
(* views load on detached threads without one (SimplePlaylistView.cpp), so *)
(* that the calls of two of them, Open, the getters and Close, mix.        *)
(***************************************************************************)
EXTENDS Integers, Sequences, FiniteSets

CONSTANTS
  Loader,      \* the threads that load
  Audio,       \* audio files
  Sheet,       \* Sheet[s]: the tracks of sheet s: [url, title, artist]; of a damaged one, <<>>
  Damaged,     \* sheets that cannot be parsed
  TagOf,       \* TagOf[f]: [title, artist] of a file, or Untagged
  Untagged,    \* no tag, nor audio properties, can be read
  Blank        \* the empty string

VARIABLES
  locked,      \* loads are made under a mutex
  self,        \* the tag parser: its FileRef, and whose tag it points to
  pc, items, at,  \* of each loader: where it is, its list, and the item it is at
  loads,       \* loads started (for the bound)
  path,        \* for the property: what each loads, and whether another
  raced,       \* loaded meanwhile
  crashed

vars == <<locked, self, pc, items, at, loads, path, raced, crashed>>

Path == Audio \cup DOMAIN Sheet
Closed == [ref |-> Blank, tag |-> Blank]
Steps == {"open", "title", "artist", "duration", "close"}
Loading == {t \in Loader : pc[t] \in Steps}

Init ==
  /\ locked \in BOOLEAN /\ self = Closed /\ crashed = FALSE
  /\ pc = [t \in Loader |-> "idle"] /\ items = [t \in Loader |-> <<>>] /\ at = [t \in Loader |-> 1]
  /\ loads = [t \in Loader |-> 0] /\ path = [t \in Loader |-> Blank] /\ raced = [t \in Loader |-> FALSE]

-----------------------------------------------------------------------------
(* The sheet parser.  Tracks without an artist have the disc's, which is in*)
(* Sheet already.  A sheet that cannot be opened yields nothing, and one   *)
(* that cannot be parsed is used all the same.                             *)
DumpFile(s) == [i \in DOMAIN Sheet[s] |-> [url |-> Sheet[s][i].url, title |-> Sheet[s][i].title,
                                           artist |-> Sheet[s][i].artist, duration |-> -1]]

TryUnpack(p) == IF p \in Audio THEN <<[url |-> p, title |-> Blank, artist |-> Blank, duration |-> -1]>> ELSE DumpFile(p)

(* The tag parser: an Open does not close what is open, and leaves the tag *)
(* alone if the file has none.                                             *)
Opened(f) == [ref |-> f, tag |-> IF TagOf[f] = Untagged THEN self.tag ELSE f]

Title == IF self.tag = Blank THEN Blank ELSE TagOf[self.tag].title
Artist == IF self.tag = Blank THEN Blank ELSE TagOf[self.tag].artist

(* Mutant of CloseParser: the pointers into the file are kept.             *)
CloseParserKeeps == self' = [self EXCEPT !.ref = Blank]

CloseParser == self' = IF self.ref = Blank THEN self ELSE Closed

-----------------------------------------------------------------------------
(* LoadMedia.                                                              *)

(* Mutant of MayStart: the mutex is not taken.                             *)
MayStartAnyway(t) == t \in Loader

MayStart(t) == locked => Loading \ {t} = {}

Start(t, p) ==
  /\ ~crashed /\ pc[t] = "idle" /\ loads[t] < 2 /\ MayStart(t)
  /\ loads' = [loads EXCEPT ![t] = @ + 1]
  /\ path' = [path EXCEPT ![t] = p]
  /\ crashed' = (p \in Damaged)
  /\ items' = [items EXCEPT ![t] = TryUnpack(p)]
  /\ at' = [at EXCEPT ![t] = 1]
  /\ pc' = [pc EXCEPT ![t] = IF TryUnpack(p) = <<>> THEN "idle" ELSE "open"]
  /\ raced' = [u \in Loader |-> IF u = t THEN Loading # {} ELSE raced[u] \/ u \in Loading]
  /\ UNCHANGED <<locked, self>>

ItemOf(t) == items[t][at[t]]
Fill(t, i) == items' = [items EXCEPT ![t][at[t]] = i]
Go(t, from, to) == ~crashed /\ pc[t] = from /\ pc' = [pc EXCEPT ![t] = to]
Rest == <<locked, at, loads, path, raced, crashed>>

OpenItem(t) ==
  /\ Go(t, "open", IF Opened(ItemOf(t).url).tag # Blank THEN "title" ELSE "duration")
  /\ self' = Opened(ItemOf(t).url)
  /\ UNCHANGED <<items, Rest>>

(* Fields are filled in where the sheet had nothing to say.                *)
FillTitle(t) ==
  /\ Go(t, "title", "artist")
  /\ Fill(t, IF ItemOf(t).title = Blank THEN [ItemOf(t) EXCEPT !.title = Title] ELSE ItemOf(t))
  /\ UNCHANGED <<self, Rest>>

FillArtist(t) ==
  /\ Go(t, "artist", "duration")
  /\ Fill(t, IF ItemOf(t).artist = Blank THEN [ItemOf(t) EXCEPT !.artist = Artist] ELSE ItemOf(t))
  /\ UNCHANGED <<self, Rest>>

(* A file without audio properties lasts for no time.                      *)
FillDuration(t) ==
  /\ Go(t, "duration", "close")
  /\ Fill(t, [ItemOf(t) EXCEPT !.duration = IF self.tag = Blank THEN 0 ELSE 1])
  /\ UNCHANGED <<self, Rest>>

CloseItem(t) ==
  /\ Go(t, "close", IF at[t] < Len(items[t]) THEN "open" ELSE "idle")
  /\ at' = [at EXCEPT ![t] = IF at[t] < Len(items[t]) THEN @ + 1 ELSE @]
  /\ CloseParser
  /\ UNCHANGED <<items, locked, loads, path, raced, crashed>>

Next ==
  \E t \in Loader :
    \/ \E p \in Path : Start(t, p)
    \/ OpenItem(t) \/ FillTitle(t) \/ FillArtist(t) \/ FillDuration(t) \/ CloseItem(t)

Spec == Init /\ [][Next]_vars

-----------------------------------------------------------------------------
(* Properties.                                                             *)

(* What a load returns has, in each field, what the sheet says or else what*)
(* the item's own file says, whatever files were loaded before and however *)
(* their loads raced, unless another load ran at the same time.            *)
Own(item, sheet) ==
  LET tag == IF TagOf[item.url] = Untagged THEN [title |-> Blank, artist |-> Blank] ELSE TagOf[item.url]
  IN /\ item.title = (IF sheet.title # Blank THEN sheet.title ELSE tag.title)
     /\ item.artist = (IF sheet.artist # Blank THEN sheet.artist ELSE tag.artist)
     /\ item.duration = (IF TagOf[item.url] = Untagged THEN 0 ELSE 1)

TagsOfFile ==
  /\ \A t \in Loader : pc[t] = "idle" /\ path[t] # Blank /\ ~raced[t] /\ ~crashed =>
       \A i \in DOMAIN items[t] : Own(items[t][i], TryUnpack(path[t])[i])
  /\ locked => \A t \in Loader : ~raced[t]
=============================================================================

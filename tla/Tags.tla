-------------------------------- MODULE Tags --------------------------------
(***************************************************************************)
(* Editing the tags and the cover of a file: the tag editor of the Qt      *)
(* application (FrmTagEditor.cpp) on the tag parser of taglib              *)
(* (TagParser.cc, CoverArt.cc), through plugin/TagParser.h.                *)
(*                                                                         *)
(* The parser reads the file when it is opened, keeps what it read, and    *)
(* writes that when it saves.  A cover is stored past it: the file is      *)
(* opened by its name once more, and written.  And the item that is shown, *)
(* and told to the lists, is a third copy.                                 *)
(***************************************************************************)
EXTENDS Integers, Sequences, FiniteSets

CONSTANTS
  Song,        \* files
  Mp3,         \* those with any number of pictures; the others have at most one
  Field,       \* the fields of a tag
  Value,       \* what they may hold
  Picture,     \* pictures; NoPicture: none
  NoPicture, NoSong,
  Pictures,    \* Pictures[f]: what is in file f at first: a sequence of [front, pic]
  StepBound    \* bound: what the user does

VARIABLES
  disk,        \* of each file: tag and pictures
  mem,         \* m_CurrentParser's FileRef: the file, and what was read of it
  item,        \* m_CurrentItem
  text,        \* the table
  unsaved,     \* m_UnsavedFields
  shown,       \* m_CurrentImgData
  rows,        \* the tags in the lists
  steps,
  failed,      \* for the properties: files with a save that failed, and since
  restored     \* saved; and files whose old pictures were put back

vars == <<disk, mem, item, text, unsaved, shown, rows, steps, failed, restored>>

Tag == [Field -> Value]
NoTag == CHOOSE t \in Tag : TRUE
NoFile == [song |-> NoSong, tag |-> NoTag, pics |-> <<>>]

Init ==
  /\ \E t \in Tag : disk = [f \in Song |-> [tag |-> t, pics |-> Pictures[f]]] /\ rows = [f \in Song |-> t]
  /\ mem = NoFile /\ item = [song |-> NoSong, tag |-> NoTag] /\ text = NoTag /\ unsaved = {}
  /\ shown = NoPicture /\ steps = 0 /\ failed = {} /\ restored = {}

Step == steps < StepBound /\ steps' = steps + 1

-----------------------------------------------------------------------------
(* Covers.                                                                 *)

(* The first picture there is, whatever it is a picture of.                *)
DumpCover(pics) == IF pics = <<>> THEN NoPicture ELSE Head(pics).pic

(* Mutant of StoreID3v2Cover: what was the cover stays.                    *)
StoreID3v2CoverToo(pics, c) == Append(pics, [front |-> TRUE, pic |-> c])

(* Of an mp3 file, front covers are taken out and the new one is added;    *)
NotFront(pics) ==
  LET others == {i \in DOMAIN pics : ~pics[i].front}
  IN [k \in 1 .. Cardinality(others) |->
       pics[CHOOSE i \in others : Cardinality({j \in others : j <= i}) = k]]

StoreID3v2Cover(pics, c) == Append(NotFront(pics), [front |-> TRUE, pic |-> c])

(* of an m4a file, it is the only one.                                     *)
StoreMp4Cover(c) == <<[front |-> TRUE, pic |-> c]>>

StoreCoverArt(f, c) ==
  [disk EXCEPT ![f].pics = IF f \in Mp3 THEN StoreID3v2Cover(@, c) ELSE StoreMp4Cover(c)]

-----------------------------------------------------------------------------
(* The editor.                                                             *)

(* The item that begins to play, with the tags that its list has.          *)
LoadMediaItem(f) ==
  /\ Step
  /\ mem' = [song |-> f, tag |-> disk[f].tag, pics |-> disk[f].pics]
  /\ item' = [song |-> f, tag |-> rows[f]]
  /\ text' = rows[f] /\ unsaved' = {}
  /\ shown' = DumpCover(disk[f].pics)
  /\ UNCHANGED <<disk, rows, failed, restored>>

SlotCellChanged(x, v) ==
  /\ Step /\ mem # NoFile /\ text[x] # v
  /\ text' = [text EXCEPT ![x] = v] /\ unsaved' = unsaved \cup {x}
  /\ UNCHANGED <<disk, mem, item, shown, rows, failed, restored>>

SlotBtnCancel ==
  /\ Step /\ unsaved # {}
  /\ text' = item.tag /\ unsaved' = {}
  /\ UNCHANGED <<disk, mem, item, shown, rows, failed, restored>>

(* The fields that were changed are set in what the parser keeps, which is *)
(* then written, all of it.                                                *)
With(tag) == [x \in Field |-> IF x \in unsaved THEN text[x] ELSE tag[x]]

(* Mutant of SlotBtnSave: the lists are not told.                          *)
SlotBtnSaveQuiet ==
  /\ Step /\ unsaved # {}
  /\ mem' = [mem EXCEPT !.tag = With(@)]
  /\ disk' = [disk EXCEPT ![mem.song] = [tag |-> With(mem.tag), pics |-> mem.pics]]
  /\ item' = [item EXCEPT !.tag = With(@)]
  /\ restored' = IF disk[mem.song].pics = mem.pics THEN restored ELSE restored \cup {mem.song}
  /\ unsaved' = {}
  /\ UNCHANGED <<text, shown, rows, failed>>

SlotBtnSave ==
  /\ Step /\ unsaved # {}
  /\ mem' = [mem EXCEPT !.tag = With(@)]
  /\ \/ /\ disk' = [disk EXCEPT ![mem.song] = [tag |-> With(mem.tag), pics |-> mem.pics]]
        /\ item' = [item EXCEPT !.tag = With(@)]
        /\ rows' = [rows EXCEPT ![item.song] = With(item.tag)]
        /\ restored' = IF disk[mem.song].pics = mem.pics THEN restored ELSE restored \cup {mem.song}
        /\ UNCHANGED <<text, failed>>
     \/ /\ text' = item.tag
        /\ failed' = failed \cup {mem.song}
        /\ UNCHANGED <<disk, item, rows, restored>>
  /\ unsaved' = {}
  /\ UNCHANGED shown

(* Stored in the file, and shown; or not.                                  *)
SlotChangeCoverArt(c) ==
  /\ Step /\ mem # NoFile
  /\ disk' = StoreCoverArt(mem.song, c)
  /\ shown' = c
  /\ restored' = restored \ {mem.song}
  /\ UNCHANGED <<mem, item, text, unsaved, rows, failed>>

(* A list loads the file once more.                                        *)
LoadRow(f) ==
  /\ Step /\ rows[f] # disk[f].tag
  /\ rows' = [rows EXCEPT ![f] = disk[f].tag]
  /\ UNCHANGED <<disk, mem, item, text, unsaved, shown, failed, restored>>

Next ==
  \/ \E f \in Song : LoadMediaItem(f) \/ LoadRow(f)
  \/ \E x \in Field, v \in Value : SlotCellChanged(x, v)
  \/ SlotBtnCancel \/ SlotBtnSave
  \/ \E c \in Picture : SlotChangeCoverArt(c)

Spec == Init /\ [][Next]_vars

-----------------------------------------------------------------------------
(* Properties.                                                             *)

(* The three copies of a tag, the parser's, the table's and the lists', are*)
(* what the file has, but for fields being edited and for files of which a *)
(* save has failed: the parser keeps what it could not write, and writes it*)
(* with the next save, of which neither the table nor the lists know.      *)
CopiesAgree ==
  /\ \A x \in Field \ unsaved : text[x] = item.tag[x]
  /\ \A f \in Song \ failed :
       /\ rows[f] = disk[f].tag
       /\ mem.song = f => mem.tag = disk[f].tag /\ item.tag = disk[f].tag

(* What is shown as the cover is what a reader finds in the file, but for  *)
(* files with pictures of other things before the cover, and files whose   *)
(* old pictures a save of the tags has put back.                           *)
FrontOnly(f) == \A i \in DOMAIN Pictures[f] : Pictures[f][i].front

CoverShown ==
  mem # NoFile /\ FrontOnly(mem.song) /\ mem.song \notin restored =>
    /\ shown = DumpCover(disk[mem.song].pics)
    /\ Cardinality({i \in DOMAIN disk[mem.song].pics : disk[mem.song].pics[i].front})
         <= (IF Pictures[mem.song] = <<>> THEN 1 ELSE Len(Pictures[mem.song]))

TagsInv == CopiesAgree /\ CoverShown

(* Saving the tags leaves the cover alone.                                 *)
CoverStays == SlotBtnSave => \A f \in Song : DumpCover(disk'[f].pics) = DumpCover(disk[f].pics)
=============================================================================

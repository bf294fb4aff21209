------------------------------ MODULE MCParts ------------------------------
(***************************************************************************)
(* The parts of the system whose properties ask for no fairness, in one run*)
(* of TLC: the playlist class with all its modes and operations (Playlist) *)
(* and the Qt view that edits one (Editor); which plug-in is found for a   *)
(* file (Plugins), how it is loaded into a list (Media), how its tags are  *)
(* edited (Tags); the dialogs before a conversion (Options); a signal and  *)
(* its slots (Signals); the command line player (Cli); and of the terminal *)
(* client its layers (Views), the window over a list (ListView), the       *)
(* explorer (Explorer) and the order of names in it (Collate).  Each       *)
(* behaviour is of one of them, and the variables of the others stand      *)
(* still.                                                                  *)
(***************************************************************************)
EXTENDS Playlist

CONSTANTS
  MaxHistory, MaxLen, CommandBound,                \* of Editor
  Loader, Audio, Sheet, Damaged, TagOf, Untagged, Blank,                       \* of Media
  Plugin, Dir, Entries, Root, Type, SuffixesOf, Encodings, Bad, NoPlugin, File,  \* of Plugins
  Song, Mp3, Field, Value, Picture, NoPicture, NoSong, Pictures, StepBound,    \* of Tags
  Target, NoObject, Address, EmitBound,            \* of Signals
  Track, Unopenable, PlayBound,                    \* of Cli
  PlaylistCount, PipeBound, ItemBound,             \* of Views
  Heights, MaxItems,                               \* of ListView; Heights of Explorer too
  Order, Folder, Dotted, Unknown, Link, Paths, Home, LevelBound, ChangeBound,  \* of Explorer
  Char, TABLE_SIZE, Sounds, MaxLength,             \* of Collate
  Foreign, Encoders, Worst, Rates, Standard        \* of Options

VARIABLES
  part,  \* whose behaviour it is
  list, place, table, undo, redo, clipboard, toLoad, got, broken, commands, tangled, misplaced,
  locked, self, pc, loaded, reading, loads, loading, mingled, crashed,
  fifo, probes, decoders, output, conv, tags, parsers, inUse, counts, stage,
  disk, mem, item, text, unsaved, shown, rows, steps, failed, restored,
  guarded, slots, emitting, emits, called, erased, left, astray,
  main, context, playerQuit, repeat, order, position, playing, finishers, listed, played, unset, fault,
  layers, visible, hasFocus, iPlaylist, switchPlaylistTo, placed, lengths, drawn, needRefresh, selected, link, c2s, s2c, blind,
  count, window, height, fresh, lifted,
  entries, folder, fileItems, stack, hideDot, hideUnknown, lines, changes, stale, sized, lost,
  names, sorted,
  encoderNames, dialog, chosen, conversion, widgets, task

edit ==
  <<list, place, table, undo, redo, clipboard, toLoad, got, broken, commands, tangled, misplaced>>
media == <<locked, self, pc, loaded, reading, loads, loading, mingled, crashed>>
plugins == <<fifo, probes, decoders, output, conv, tags, parsers, inUse, counts, stage>>
editor == <<disk, mem, item, text, unsaved, shown, rows, steps, failed, restored>>
signal == <<guarded, slots, emitting, emits, called, erased, left, astray>>
cli ==
  <<main, context, playerQuit, repeat, order, position, playing, finishers, listed, played, unset, fault>>
views ==
  <<layers, visible, hasFocus, iPlaylist, switchPlaylistTo, placed, lengths, drawn, needRefresh, selected, link, c2s, s2c, blind>>
view == <<count, window, height, fresh, lifted>>
explorer ==
  <<entries, folder, fileItems, stack, hideDot, hideUnknown, lines, changes, stale, sized, lost>>
collation == <<names, sorted>>
options == <<encoderNames, dialog, chosen, conversion, widgets, task>>

E == INSTANCE Editor WITH items <- list, at <- place, rows <- table, aborted <- broken, raced <- tangled
M == INSTANCE Media WITH items <- loaded, at <- reading, path <- loading, raced <- mingled
P == INSTANCE Plugins
T == INSTANCE Tags
G == INSTANCE Signals WITH raced <- erased, gone <- left
C == INSTANCE Cli WITH mode <- repeat
V == INSTANCE Views WITH items <- lengths
L == INSTANCE ListView WITH drawn <- fresh
X == INSTANCE Explorer WITH Entries <- Paths, disk <- entries, path <- folder, height <- lines, fault <- lost
K == INSTANCE Collate
O == INSTANCE Options WITH Source <- Song, shown <- widgets

-----------------------------------------------------------------------------
MCGarbage == -1 .. Cardinality(Item)

(* Plug-ins like the repository's: two decoders for m4a files, one for each*)
(* encoding, a third that claims both kinds and mp3, one for mp3 only, the *)
(* probe, two outputs of which one cannot be made, and a parser of tags for*)
(* all files, in a directory and one below it.                             *)
MCPlugin == {"alac", "fdk-aac", "mpg123", "system", "probe", "alsa", "oss", "taglib"}
MCEntries == [plugins |-> {"alac", "fdk-aac", "mpg123", "system", "alsa", "more"}, more |-> {"probe", "taglib", "oss"}]
MCType ==
  [p \in MCPlugin |->
    CASE p = "probe" -> {"FormatProbe"} [] p = "taglib" -> {"TagParser"}
      [] p \in {"alsa", "oss"} -> {"Output"} [] OTHER -> {"Decoder"}]
MCSuffixes ==
  [p \in MCPlugin |->
    CASE p \in {"alac", "fdk-aac", "probe"} -> {"m4a"} [] p = "mpg123" -> {"mp3"}
      [] p = "system" -> {"m4a", "mp3"} [] p = "taglib" -> {"*"} [] OTHER -> {}]
MCEncodings ==
  [p \in MCPlugin |->
    CASE p = "alac" -> {"alac"} [] p = "fdk-aac" -> {"aac"} [] p = "mpg123" -> {"mp3"}
      [] p = "system" -> {"aac", "mp3"} [] OTHER -> {}]
MCFile ==
  {[suffix |-> "m4a", encoding |-> "alac"], [suffix |-> "m4a", encoding |-> "aac"],
   [suffix |-> "mp3", encoding |-> "mp3"], [suffix |-> "txt", encoding |-> "none"]}

(* A sheet of two tracks of one file, the second of which has no title; one*)
(* of a file without tags; one that cannot be parsed.                      *)
Cue(u, t, r) == [url |-> u, title |-> t, artist |-> r]
MCSheet ==
  [s1 |-> <<Cue("a", "t1", "r1"), Cue("a", "", "r1")>>, s2 |-> <<Cue("b", "", "")>>, s3 |-> <<>>]
MCTagOf == [f \in {"a", "b", "c"} |->
  CASE f = "a" -> [title |-> "ta", artist |-> "ra"] [] f = "b" -> Untagged [] f = "c" -> [title |-> "tc", artist |-> ""]]

(* An mp3 file with a cover, one with a picture before it, and an m4a file.*)
Pic(front, p) == [front |-> front, pic |-> p]
MCPictures ==
  [x |-> <<Pic(TRUE, "c1")>>, y |-> <<Pic(FALSE, "c2"), Pic(TRUE, "c1")>>, z |-> <<Pic(TRUE, "c1")>>]

(* A free function, and members of two objects.                            *)
MCTarget ==
  {[fn |-> "f", obj |-> "none"], [fn |-> "m", obj |-> "o"], [fn |-> "n", obj |-> "o"], [fn |-> "m", obj |-> "p"]}

(* Directories in directories, one hidden, one empty, and a link out of    *)
(* them; files, one for which there is no plug-in.                         *)
MCOrder == <<".d", "a", "b", "e", "l", "o", "w", "x", "y">>
MCLink == [l |-> <<"o">>]
MCHome == <<"e">>
MCPaths ==
  {<<"o">>, <<"o", "x">>, <<"e">>, <<"e", "a">>, <<"e", "a", "x">>, <<"e", "a", "b">>, <<"e", "b">>,
   <<"e", "w">>, <<"e", "x">>, <<"e", "l">>, <<"e", ".d">>, <<"e", "y">>}

(* A letter, one with an accent and so without a sound, and three others of*)
(* which two sound the same.                                               *)
MCChar ==
  {[bytes |-> 1, key |-> 1], [bytes |-> 2, key |-> 4],
   [bytes |-> 3, key |-> 5], [bytes |-> 3, key |-> 6], [bytes |-> 3, key |-> 7]}
MCSounds == (5 :> 2) @@ (6 :> 1) @@ (7 :> 2)

(* The two encoders, and values of lame's options, some of a shorter list. *)
MCEncoders == <<"lame", "lpcm">>
MCRates == <<32, 160, 320>>
MCStandard == [quality |-> 1, bit_rate |-> 1, replay_gain |-> TRUE]

-----------------------------------------------------------------------------
(* The others begin in one of the states in which they may.                *)
PartsInit ==
  /\ part \in {"class", "edit", "media", "plugins", "tags", "signal", "cli", "views", "window", "explorer", "collation", "options"}
  /\ Init /\ (part = "class" \/ mode = "Normal")
  /\ E!Init /\ (part = "edit" \/ list = <<>>)
  /\ M!Init /\ (part = "media" \/ ~locked)
  /\ P!Init
  /\ T!Init /\ (part = "tags" \/ \A f \in Song : disk[f].tag = T!NoTag)
  /\ G!Init /\ (part = "signal" \/ guarded)
  /\ C!Init /\ (part = "cli" \/ (~playerQuit /\ repeat = "Repeat" /\ Len(order) = Cardinality(Track)))
  /\ V!Init /\ (part = "views" \/ selected = 0)
  /\ L!Init /\ (part = "window" \/ height = CHOOSE h \in Heights : TRUE)
  /\ X!Init /\ (part = "explorer" \/ lines = CHOOSE h \in Heights : TRUE)
  /\ IF part = "collation" THEN K!Init ELSE names = [k \in 1 .. 3 |-> <<>>] /\ sorted = FALSE
  /\ O!Init /\ (part = "options" \/ encoderNames = <<>>)

OfClass(A) ==
  /\ part = "class" /\ A
  /\ UNCHANGED <<part, edit, media, plugins, editor, signal, cli, views, view, explorer, collation, options>>
OfEdit(A) ==
  /\ part = "edit" /\ A
  /\ UNCHANGED <<part, vars, media, plugins, editor, signal, cli, views, view, explorer, collation, options>>
OfMedia(A) ==
  /\ part = "media" /\ A
  /\ UNCHANGED <<part, vars, edit, plugins, editor, signal, cli, views, view, explorer, collation, options>>
OfPlugins(A) ==
  /\ part = "plugins" /\ A
  /\ UNCHANGED <<part, vars, edit, media, editor, signal, cli, views, view, explorer, collation, options>>
OfTags(A) ==
  /\ part = "tags" /\ A
  /\ UNCHANGED <<part, vars, edit, media, plugins, signal, cli, views, view, explorer, collation, options>>
OfSignal(A) ==
  /\ part = "signal" /\ A
  /\ UNCHANGED <<part, vars, edit, media, plugins, editor, cli, views, view, explorer, collation, options>>
OfCli(A) ==
  /\ part = "cli" /\ A
  /\ UNCHANGED <<part, vars, edit, media, plugins, editor, signal, views, view, explorer, collation, options>>
OfViews(A) ==
  /\ part = "views" /\ A
  /\ UNCHANGED <<part, vars, edit, media, plugins, editor, signal, cli, view, explorer, collation, options>>
OfWindow(A) ==
  /\ part = "window" /\ A
  /\ UNCHANGED <<part, vars, edit, media, plugins, editor, signal, cli, views, explorer, collation, options>>
OfExplorer(A) ==
  /\ part = "explorer" /\ A
  /\ UNCHANGED <<part, vars, edit, media, plugins, editor, signal, cli, views, view, collation, options>>
OfCollation(A) ==
  /\ part = "collation" /\ A
  /\ UNCHANGED <<part, vars, edit, media, plugins, editor, signal, cli, views, view, explorer, options>>

OfOptions(A) ==
  /\ part = "options" /\ A
  /\ UNCHANGED <<part, vars, edit, media, plugins, editor, signal, cli, views, view, explorer, collation>>

PartsNext ==
  \/ OfClass(Next) \/ OfEdit(E!Next) \/ OfMedia(M!Next) \/ OfPlugins(P!Next) \/ OfTags(T!Next)
  \/ OfSignal(G!Next) \/ OfCli(C!Next) \/ OfViews(V!Next) \/ OfWindow(L!Next)
  \/ OfExplorer(X!Next) \/ OfCollation(K!Next) \/ OfOptions(O!Next)

all == <<part, vars, edit, media, plugins, editor, signal, cli, views, view, explorer, collation, options>>

PartsSpec == PartsInit /\ [][PartsNext]_all

(* Files and sheets have names, and the tracks of a sheet are of files.    *)
ASSUME MediaAssumption ==
  /\ Blank \notin Audio \cup DOMAIN Sheet
  /\ \A s \in DOMAIN Sheet :
       /\ Len(Sheet[s]) \in Nat /\ DOMAIN Sheet[s] = 1 .. Len(Sheet[s])
       /\ \A i \in DOMAIN Sheet[s] : Sheet[s][i].url \in Audio

(* The plug-ins are files below the directory that is searched: on the way *)
(* to each, every directory has an entry on that way.  None says that it is*)
(* for an encoding without a name.                                         *)
Ways(p) ==
  {way \in SUBSET ({p} \cup Dir) :
     Root \in way /\ \A d \in way \ {p} : Entries[d] \cap way # {}}

ASSUME PluginsAssumption ==
  /\ Plugin \cap Dir = {} /\ NoPlugin \notin Plugin
  /\ Root \in Dir /\ \A d \in Dir : Entries[d] \subseteq Plugin \cup Dir
  /\ \A p \in Plugin : Ways(p) # {} /\ "" \notin Encodings[p]

(* A file has pictures, which are front covers or not.                     *)
ASSUME TagsAssumption ==
  NoSong \notin Song /\ Pictures \in [Song -> Seq([front : BOOLEAN, pic : Picture])]

(* As many files as a command line has.                                    *)
ASSUME CliAssumption == IsFiniteSet(Track)

(* A view has a border, the line that tells where one is, and at least two *)
(* more.                                                                   *)
ASSUME HeightsAssumption == \A h \in Heights : h \in Nat /\ h >= 5

(* The second list is chosen at first (MainUi.cc:406).                     *)
ASSUME ListsAssumption == PlaylistCount \in Nat /\ PlaylistCount > 1

(* What is above an entry are entries, of directories that are no links,   *)
(* and so is all on the way to where the explorer begins.                  *)
Called == {Order[k] : k \in 1 .. Len(Order)}
Above(e) == \A i \in 1 .. Len(e) - 1 : SubSeq(e, 1, i) \in Paths /\ e[i] \in Folder \ DOMAIN Link

ASSUME ExplorerAssumption ==
  /\ Len(Order) \in Nat /\ DOMAIN Order = 1 .. Len(Order)
  /\ \A n \in DOMAIN Link : Link[n] \in Seq(Called)
  /\ \A e \in Paths : e \in Seq(Called) /\ Above(e)
  /\ Home \in Paths /\ Home[Len(Home)] \in Folder \ DOMAIN Link

(* A character of one byte is in the table and has no sound there.         *)
ASSUME CharAssumption ==
  /\ TABLE_SIZE \in Nat /\ MaxLength \in Nat /\ Char \subseteq [bytes : Nat \ {0}, key : Nat]
  /\ \A c \in Char : c.bytes = 1 => c.key < TABLE_SIZE /\ c.key \notin DOMAIN Sounds
  /\ \A k \in DOMAIN Sounds : Sounds[k] \in Nat

-----------------------------------------------------------------------------
(* The view's rows are the list's items (module Editor).                   *)
RowsMatch == part = "edit" => E!RowsMatch

(* Undo and redo lead back to where they came from (module Editor).        *)
HistoryReturns == [][E!HistoryStep]_edit

(* The tags of a file are its own, whoever loads beside; what is found for *)
(* a file is right whatever the order of directories, and the same for all *)
(* who ask; the copies of a file's tags and of its cover agree (modules    *)
(* Media, Plugins and Tags).                                               *)
LoadingInv ==
  /\ part = "media" => M!TagsOfFile
  /\ part = "plugins" => P!PluginsInv
  /\ part = "tags" => T!TagsInv

(* Saving the tags of a file leaves its cover alone (module Tags).         *)
CoverStays == [][T!CoverStays]_editor

(* An emission calls all slots in their order, once each, and none of an   *)
(* object that has been disconnected; a list is played to its end, in its  *)
(* order, by the slot that is called when an item ends, and nothing is used*)
(* that is not there; a conversion is done as the dialogs showed it when   *)
(* they were accepted (modules Signals, Cli and Options).                  *)
HandlersInv ==
  /\ part = "signal" => G!SlotsInv
  /\ part = "cli" => C!CliInv
  /\ part = "options" => O!OptionsInv

(* The view with the keys can be seen, the lists are drawn as they are, the*)
(* server knows which is chosen, and a list's selected item is shown       *)
(* (modules Views and ListView).  The explorer lists what is there, in an  *)
(* order that is one, and a directory that is left is selected (modules    *)
(* Explorer and Collate).                                                  *)
TerminalInv ==
  /\ part = "views" => V!ScreenInv
  /\ part = "window" => L!SelectedSeen
  /\ part = "explorer" => X!ExplorerInv
  /\ part = "collation" => K!CollateInv
=============================================================================

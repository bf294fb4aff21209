------------------------------- MODULE Store -------------------------------
(***************************************************************************)
(* What the server keeps over a restart: Dump writes the context and then  *)
(* the playlists, each to a file of its own, when the service stops;       *)
(* Restore reads them when it starts (apps/ncurses/ServerContext.cc,       *)
(* sdk/util/PlaylistSerializer.h).  A file is truncated when it is opened  *)
(* and written after; the server may be killed between any two steps.      *)
(***************************************************************************)
EXTENDS BufObj, FiniteSets

CONSTANTS
  ListCount,            \* playlists of the server
  ListValues,           \* playlists: mode, items, place and shuffle queue
  Contexts,             \* modes and selections
  EditBound, DumpBound  \* changes of a server's state, dumps that begin

VARIABLES
  memory,   \* context and lists of the running server
  files,    \* what is in the files: 0 is the context's, 1 .. those of the lists
  phase,    \* what the server does
  at,       \* which file is next, and
  opened,   \*   whether it is already open
  edits, dumps,
  dumped,   \* for the properties only: the states dumped, in order,
  cut,      \*   whether a dump was cut,
  known     \*   whether the state is what was restored

store == <<memory, files, phase, at, opened, edits, dumps, dumped, cut, known>>

VERSION == 1

Absent == <<"absent">>

EmptyList == [mode |-> 0, items |-> <<>>, index |-> -1, queue |-> <<>>]

Defaults ==
  [context |-> [playMode |-> 0, used |-> -1, selected |-> 1, items |-> [k \in 1 .. ListCount |-> 0]],
   lists |-> [i \in 1 .. ListCount |-> EmptyList]]

-----------------------------------------------------------------------------
(* PlaylistSerializer: the stream of a list, and the list of a stream.     *)
Numbers(seq) == [k \in DOMAIN seq |-> <<seq[k]>>]

ToStream(b, list) ==
  LET head == PutRaw(PutRaw(b, "int", VERSION), "int", list.mode)
      body == PutRaw(PutList(head, ItemWritten, list.items), "int", list.index)
  IN PutList(body, <<"int">>, Numbers(list.queue))

(* Mutant of FromVersion1: the queue is read before the index.             *)
FromVersion1Swapped(b) ==
  LET mode == TakeRaw(b, "int")
      items == TakeList(mode.buf, ItemRead)
      queue == TakeList(items.buf, <<"int">>)
      index == TakeRaw(queue.buf, "int")
  IN [mode |-> mode.val, items |-> items.val, index |-> index.val,
      queue |-> [k \in DOMAIN queue.val |-> queue.val[k][1]]]

FromVersion1(b) ==
  LET mode == TakeRaw(b, "int")
      items == TakeList(mode.buf, ItemRead)
      index == TakeRaw(items.buf, "int")
      queue == TakeList(index.buf, <<"int">>)
  IN [mode |-> mode.val, items |-> items.val, index |-> index.val,
      queue |-> [k \in DOMAIN queue.val |-> queue.val[k][1]]]

(* Another version, or what is found beyond an empty file: nothing is done.*)
FromStream(list, cells) ==
  LET version == TakeRaw(Buffer(cells), "int")
  IN IF version.val = 1 THEN FromVersion1(version.buf) ELSE list

Load(list, file) == IF file = Absent THEN list ELSE FromStream(list, file)

Stored(list) == ToStream(Buffer(Fresh(ToStream(NoMemory, list).off)), list).mem

-----------------------------------------------------------------------------
(* The context's file.                                                     *)
PutContext(b, c) ==
  PutArray(
    PutAll(b, <<"int", "char", "int", "int">>, <<VERSION, c.playMode, c.used, c.selected>>),
    <<"int">>, Numbers(c.items))

TakeContext(b) ==
  LET first == TakeAll(b, <<"char", "int", "int">>)
      items == TakeArray(first.buf, <<"int">>)
  IN [playMode |-> first.val[1], used |-> first.val[2], selected |-> first.val[3],
      items |-> [k \in DOMAIN items.val |-> items.val[k][1]]]

StoredContext(c) == PutContext(Buffer(Fresh(PutContext(NoMemory, c).off)), c).mem

-----------------------------------------------------------------------------
Init ==
  /\ memory = Defaults /\ files = [f \in 0 .. ListCount |-> Absent]
  /\ phase = "restore" /\ at = 0 /\ opened = FALSE
  /\ edits = 0 /\ dumps = 0 /\ dumped = <<Defaults>> /\ cut = FALSE /\ known = TRUE

(* The context first.  The buffer is set up on the text of a string that is*)
(* gone by the time it is read: what is read as the version may be another *)
(* number, as it is when there is no file.                                 *)
RestoreContext(intact) ==
  LET file == IF files[0] = Absent \/ ~intact THEN <<>> ELSE files[0]
      version == TakeRaw(Buffer(file), "int")
  IN /\ phase = "restore" /\ at = 0
     /\ IF version.val = VERSION
        THEN memory' = [memory EXCEPT !.context = TakeContext(version.buf)]
             /\ at' = 1 /\ UNCHANGED phase
        ELSE phase' = "running" /\ UNCHANGED <<memory, at>>
     /\ UNCHANGED <<files, opened, edits, dumps, dumped, cut, known>>

RestoreList ==
  /\ phase = "restore" /\ at > 0
  /\ memory' = [memory EXCEPT !.lists[at] = Load(memory.lists[at], files[at])]
  /\ at' = IF at = ListCount THEN 0 ELSE at + 1
  /\ phase' = IF at = ListCount THEN "running" ELSE phase
  /\ UNCHANGED <<files, opened, edits, dumps, dumped, cut, known>>

(* Whatever the sessions do to a list or to the context.                   *)
Change ==
  /\ phase = "running" /\ edits < EditBound /\ edits' = edits + 1
  /\ \/ \E i \in 1 .. ListCount, l \in ListValues : memory' = [memory EXCEPT !.lists[i] = l]
     \/ \E c \in Contexts : memory' = [memory EXCEPT !.context = c]
  /\ known' = FALSE
  /\ UNCHANGED <<files, phase, at, opened, dumps, dumped, cut>>

Dump ==
  /\ phase = "running" /\ dumps < DumpBound /\ dumps' = dumps + 1
  /\ phase' = "dump" /\ at' = 0 /\ opened' = FALSE
  /\ UNCHANGED <<memory, files, edits, dumped, cut, known>>

Open ==
  /\ phase = "dump" /\ ~opened /\ opened' = TRUE
  /\ files' = [files EXCEPT ![at] = <<>>]
  /\ UNCHANGED <<memory, phase, at, edits, dumps, dumped, cut, known>>

Write ==
  /\ phase = "dump" /\ opened /\ opened' = FALSE
  /\ files' = [files EXCEPT ![at] =
       IF at = 0 THEN StoredContext(memory.context) ELSE Stored(memory.lists[at])]
  /\ at' = IF at = ListCount THEN 0 ELSE at + 1
  /\ IF at = ListCount
     THEN phase' = "gone" /\ dumped' = Append(dumped, memory) /\ cut' = FALSE
     ELSE UNCHANGED <<phase, dumped, cut>>
  /\ UNCHANGED <<memory, edits, dumps, known>>

Kill ==
  /\ phase \in {"running", "dump"}
  /\ phase' = "gone" /\ at' = 0 /\ opened' = FALSE
  /\ cut' = (cut \/ phase = "dump")
  /\ dumped' = IF phase = "dump" THEN Append(dumped, memory) ELSE dumped
  /\ UNCHANGED <<memory, files, edits, dumps, known>>

Start ==
  /\ phase = "gone" /\ phase' = "restore" /\ at' = 0
  /\ memory' = Defaults /\ known' = TRUE
  /\ UNCHANGED <<files, opened, edits, dumps, dumped, cut>>

Next ==
  \/ \E intact \in BOOLEAN : RestoreContext(intact)
  \/ RestoreList \/ Change \/ Dump \/ Open \/ Write \/ Kill \/ Start

Spec == Init /\ [][Next]_store

-----------------------------------------------------------------------------
(* A server that has started and not been changed yet has what was dumped  *)
(* last, all of it, or nothing at all.  If that dump was cut, then each of *)
(* its lists is one that was dumped in its place, whole, or empty, but not *)
(* a mixture; and the selections go with one of the dumps.                 *)
StoreInv ==
  (phase = "running" /\ known) =>
    IF ~cut THEN memory \in {Defaults, Last(dumped)}
    ELSE /\ \E d \in ToSet(dumped) : memory.context = d.context
         /\ \A i \in 1 .. ListCount :
              memory.lists[i] \in {EmptyList} \cup {d.lists[i] : d \in ToSet(dumped)}

=============================================================================

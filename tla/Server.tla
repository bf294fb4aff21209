------------------------------- MODULE Server -------------------------------
(***************************************************************************)
(* The server's context (apps/ncurses/ServerContext.cc) and the requests   *)
(* of its sessions that change it (apps/ncurses/Session.cc): a Playlist    *)
(* (playMode is its mode; aborted: the process is gone) and a Playback,    *)
(* brought together.                                                       *)
(*                                                                         *)
(* Every request and every SlotFinished holds ServerContext::mtx from its  *)
(* first access to its last, so each is one step; the output thread of the *)
(* player plays on between them, and a detached finisher waits for the     *)
(* mutex like everybody else.                                              *)
(*                                                                         *)
(* The server has six lists that share nothing but usedPlaylist, the one   *)
(* it plays from; one of them is modelled.                                 *)
(***************************************************************************)
EXTENDS Playlist

CONSTANTS
  Broken,    \* the items whose file cannot be opened
  NoItem,    \* nothing is open
  Requests   \* bound: how many requests the clients make

ASSUME BrokenAssumption == Broken \subseteq Item
ASSUME NoItemAssumption == NoItem \notin Item
ASSUME RequestsAssumption == Requests \in Nat

VARIABLES
  status, left, finishers,  \* the Playback
  used,                     \* usedPlaylist is not -1
  opened,                   \* the item the player has open
  requests                  \* how many requests were made

Sound == INSTANCE Playback

list    == <<mode, items, seqIndex, shuffle, aborted>>
sound   == <<status, left, finishers>>
context == <<used, opened>>
serverVars == <<list, sound, context, requests>>

ServerInit ==
  /\ Init /\ Sound!Init
  /\ used = FALSE /\ opened = NoItem
  /\ requests = 0

Request ==
  /\ ~aborted /\ requests < Requests
  /\ requests' = requests + 1

-----------------------------------------------------------------------------
(* Playing an item: Close unless closed, Open, Play, of which no other     *)
(* thread sees the steps.                                                  *)
PlayItem(item) ==
  /\ status' = IF item \in Broken THEN "Closed" ELSE "Playing"
  /\ left' = (item \notin Broken)
  /\ opened' = IF item \in Broken THEN NoItem ELSE item

(* Mutant of Advance: NextItem is asked not to move.                       *)
AdvanceStill(offset) ==
  /\ HasNext(offset)
  /\ PlayItem(At(items, ItemIndex(OffsetToIndex(offset))))
  /\ UNCHANGED <<list, used>>

(* Move on to another item and play it; whether it can be opened is        *)
(* nobody's concern.                                                       *)
Advance(offset) ==
  /\ NextItem(offset)
  /\ PlayItem(CurrentItem')
  /\ UNCHANGED used

PlayAt(index) ==
  /\ Request
  /\ JumpTo(index) /\ used' = TRUE
  /\ PlayItem(CurrentItem')
  /\ UNCHANGED finishers

(* The next item, or the previous one.  Before anything was played the     *)
(* list is playlists[-1]: what happens then is not determined, and not     *)
(* followed any further.                                                   *)
PlayNext(direct) ==
  /\ Request
  /\ UNCHANGED finishers
  /\ \/ used /\ Advance(direct)
     \/ used /\ ~HasNext(direct) /\ UNCHANGED <<list, status, left, context>>
     \/ ~used /\ aborted' = TRUE
              /\ UNCHANGED <<mode, items, seqIndex, shuffle, status, left, context>>

PausePlayer ==
  /\ Request
  /\ \/ Sound!Pause \/ Sound!Resume
     \/ status = "Closed" /\ UNCHANGED sound
  /\ UNCHANGED <<list, context>>

(* Three seconds on or back, which may lead to the end or back from it.    *)
PlayerSeek ==
  /\ Request
  /\ \/ \E some \in BOOLEAN : Sound!Seek(some)
     \/ status = "Closed" /\ UNCHANGED sound
  /\ UNCHANGED <<list, context>>

ModeOrder == <<"Normal", "Repeat", "Shuffle", "ShuffleRepeat", "RepeatOne">>

NextPlayMode ==
  /\ Request
  /\ \E m \in 1 .. 5 : mode = ModeOrder[m] /\ SetMode(ModeOrder[(m % 5) + 1])
  /\ UNCHANGED <<sound, context>>

-----------------------------------------------------------------------------
(* Requests that edit the list.  None of them looks at what is playing.    *)

PlaylistAppend(new) ==
  /\ Request
  /\ new # <<>> /\ Append_(new)
  /\ UNCHANGED <<sound, context>>

PlaylistRemove(index) ==
  /\ Request
  /\ index \in Index(items) /\ Remove_({index})
  /\ UNCHANGED <<sound, context>>

(* One place up or down.  The index comes from a client's view, which may  *)
(* show a list that was longer: one past the end is let through, and read. *)
PlaylistMove(index, direct) ==
  LET newPos == IF direct > 0 THEN index + 2 ELSE index - 1 IN
  /\ Request
  /\ newPos \in 0 .. Len(items) /\ Len(items) >= 2
  /\ \/ index \in Index(items) /\ Move({index}, newPos)
     \/ index = Len(items) /\ aborted' = TRUE
                           /\ UNCHANGED <<mode, items, seqIndex, shuffle>>
  /\ UNCHANGED <<sound, context>>

PlaylistClear ==
  /\ Request
  /\ Clear
  /\ UNCHANGED <<sound, context>>

-----------------------------------------------------------------------------

(* The service is stopped, which dumps the lists and the context, and      *)
(* started again, which restores them.                                     *)
Restart ==
  /\ Request
  /\ status' = "Closed" /\ left' = FALSE /\ finishers' = 0 /\ opened' = NoItem
  /\ UNCHANGED <<list, used>>

PlayOut ==
  /\ ~aborted /\ Sound!PlayOut
  /\ UNCHANGED <<list, context, requests>>

(* Mutant of SlotFinished: the test for a next item is the wrong way round.*)
SlotFinishedNegated ==
  /\ ~aborted
  /\ finishers > 0 /\ finishers' = finishers - 1
  /\ UNCHANGED <<list, status, left, context, requests>>

(* A finisher has the mutex.                                               *)
SlotFinished ==
  /\ ~aborted
  /\ finishers > 0 /\ finishers' = finishers - 1
  /\ \/ Advance(1)
     \/ ~HasNext(1) /\ UNCHANGED <<list, status, left, context>>
  /\ UNCHANGED requests

Client ==
  \/ \E index \in Index(items) : PlayAt(index) \/ PlaylistRemove(index)
  \/ \E direct \in {-1, 1} : PlayNext(direct)
  \/ \E direct \in {-1, 1}, index \in 0 .. Len(items) : PlaylistMove(index, direct)
  \/ \E new \in NewItems : PlaylistAppend(new)
  \/ PausePlayer \/ PlayerSeek \/ NextPlayMode \/ PlaylistClear \/ Restart

ServerNext == Client \/ PlayOut \/ SlotFinished

ServerSpec == ServerInit /\ [][ServerNext]_serverVars

(* The device plays on, and a detached thread gets the mutex some time.    *)
FairServerSpec == ServerSpec /\ WF_serverVars(PlayOut) /\ WF_serverVars(SlotFinished)

-----------------------------------------------------------------------------
(* Properties.                                                             *)

(* Every variable stays in its domain; what plays was chosen from the list.*)
ServerTypeOK ==
  /\ TypeOK /\ Sound!TypeOK
  /\ used \in BOOLEAN /\ opened \in Item \cup {NoItem}
  /\ requests \in 0 .. Requests
  /\ status # "Closed" \/ finishers > 0 => used

(* The item ItemInPlaying returns is the one the player has open.          *)
Agrees ==
  status # "Closed" => InRange /\ CurrentItem = opened

(* What the clients are told plays is what plays: every step keeps the     *)
(* current item and the open one the same, but the removals, which shift   *)
(* positions under the current one, and the edits of a shuffled list, whose*)
(* shuffle queue grows and shrinks at random places.  Every variable is in *)
(* its domain.                                                             *)
Shifts ==
  \/ Len(items') < Len(items)
  \/ mode \in Shuffled /\ items' # items
StaysCurrent == []ServerTypeOK /\ [][Agrees => Agrees' \/ aborted' \/ Shifts]_serverVars

LeftAlone == requests = Requests /\ ~aborted /\ Range(items) \cap Broken = {}
Running   == finishers > 0 \/ (status = "Playing" /\ left)

(* The items that follow the current one in the order of the mode.         *)
Upcoming ==
  CASE mode \in {"Repeat", "ShuffleRepeat"} -> Range(items)
    [] mode = "RepeatOne" -> {}
    [] OTHER -> {At(items, ItemIndex(k)) :
                   k \in {j \in Index(items) : j > seqIndex}}

(* Whatever the clients did before, a server they leave alone, with a list *)
(* of files that can all be opened, plays every item that follows: in the  *)
(* repeating modes all, in the shuffled modes too, however often the list  *)
(* was changed under the shuffle queue.                                    *)
AllGetTheirTurn ==
  \A i \in Item : (LeftAlone /\ Running /\ i \in Upcoming) ~> opened = i

(* A finish moves on only from an item that has been played: not from one  *)
(* the user has chosen, or started again, since; and not while paused.     *)
FinishIsDue == [][SlotFinished => status = "Playing" /\ ~left]_serverVars

-----------------------------------------------------------------------------
(* For TLC: what a read outside the queue is taken to give, -1 and the     *)
(* positions with one more at the end.                                     *)
MCGarbage == -1 .. Cardinality(Item)
=============================================================================

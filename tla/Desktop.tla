------------------------------ MODULE Desktop ------------------------------
(***************************************************************************)
(* The window of the Qt application: MainWindow.cpp with the tag editor    *)
(* (FrmTagEditor.cpp), what it uses of the tabs (SimplePlaylistView.cpp),  *)
(* and what is kept between two sessions (AppEnv.cpp, closeEvent).         *)
(*                                                                         *)
(* Slots run on the UI thread, one after the other, and each is a step,    *)
(* but for the chain of calls SlotPlayMediaItem - SlotBtnNext, which goes  *)
(* on while files fail to open.  The end of an item comes from a detached  *)
(* thread of the player, which queues a call of SlotUiPlayerFinished; files*)
(* are loaded by detached threads, which have the UI thread append rows.   *)
(*                                                                         *)
(* The window keeps raw pointers to the view and to the item in use.  What *)
(* happens when one is used that points to nothing is left open (lost).    *)
(***************************************************************************)
EXTENDS Integers, Sequences, FiniteSets, SequencesExt

CONSTANTS
  Url,           \* the files
  Flaky,         \* those that may fail to open
  NoUrl,
  Before,        \* the lists a session before may have left in the files
  MaxRows,       \* bound: rows of a list
  MaxViews,      \* bound: views made in a session
  EventBound     \* bound: what the user does, over all sessions

ASSUME DesktopAssumption ==
  Flaky \subseteq Url /\ NoUrl \notin Url /\ {MaxRows, MaxViews, EventBound} \subseteq Nat

(* The lists left are lists of the application, with the tags that their   *)
(* files have (the tags a file begins with are called 0).                  *)
ASSUME BeforeAssumption ==
  \A ls \in Before :
    /\ ls \in Seq([rows : Seq([url : Url, tag : {0}]), at : Int, mode : {"Normal", "Repeat", "RepeatOne"}])
    /\ Len(ls) <= MaxViews
    /\ \A i \in DOMAIN ls : Len(ls[i].rows) <= MaxRows /\ ls[i].at \in -1 .. MaxRows

VARIABLES
  app,        \* where the process is
  lost,       \* a pointer that points to nothing was used
  views,      \* of each tab: its Playlist, without the shuffled modes
  tabs,       \* m_TabWidgetPlaylist
  made,       \* how many views were made in this session
  usedView,   \* m_UsedPlaylistView
  usedItem,   \* m_UsedMediaItem: the file, and whether the pointer still holds
  player,     \* its status, its file, whether all of it has been played
  finishes,   \* ends of items: threads under way, and calls queued
  trying,     \* a file has failed to open within a slot
  button,     \* what the play button shows; timer: m_TimerUpdateUi is active
  timer,
  editor,     \* m_CurrentItem, the text in the table, m_UnsavedFields not empty
  loading,    \* a loading thread: the view and file it is to send
  disk,       \* the tags in the files; the lists' files and the number of tabs
  events,
  \* For the properties only:
  again,      \* the play button opened what had failed to open before
  elsewhere,  \* files whose tags were changed while in a tab not in use
  closed,     \* the lists at the last regular close; torn: killed before its end
  torn

window == <<views, tabs, made, usedView, usedItem, trying, button, timer>>
windowVars == <<app, lost, window, player, finishes, editor, loading, disk, events, again, elsewhere, closed, torn>>

View == 1 .. MaxViews
NoView == 0

Mode == {"Normal", "Repeat", "RepeatOne"}
SizeModulus == 2 ^ 16   \* stands for 2^64

Empty == [rows |-> <<>>, at |-> -1, mode |-> "Repeat"]
Closed == [status |-> "Closed", url |-> NoUrl, over |-> FALSE]
NoItem == [url |-> NoUrl, holds |-> FALSE]
NoTag == [url |-> NoUrl, tag |-> 0, text |-> 0, unsaved |-> FALSE]

Alive == {tabs[i] : i \in DOMAIN tabs}
Row(u) == [url |-> u, tag |-> disk.tags[u]]
Lists(ts) == [i \in DOMAIN ts |-> views[ts[i]]]

NotLoading == [view |-> NoView, url |-> NoUrl]
NoFinishes == [threads |-> 0, queued |-> 0]

WindowInit ==
  /\ app = "down" /\ lost = FALSE
  /\ views = [v \in View |-> Empty] /\ tabs = <<>> /\ made = 0
  /\ usedView = NoView /\ usedItem = NoItem /\ player = Closed /\ finishes = NoFinishes
  /\ trying = FALSE /\ button = "play" /\ timer = FALSE /\ editor = NoTag /\ loading = NotLoading
  /\ \E ls \in Before :
       /\ disk = [tags |-> [u \in Url |-> 0], lists |-> ls, tabCount |-> Len(ls)]
       /\ closed = ls
  /\ events = 0 /\ again = FALSE /\ elsewhere = {} /\ torn = FALSE

Session == UNCHANGED <<app, disk, closed, torn>>

-----------------------------------------------------------------------------
(* Playing.                                                                *)

(* Mutant of OffsetToIndex: the end of a list is not its end in any mode.  *)
OffsetToIndexWraps(list, offset) ==
  LET n == Len(list.rows)
      i == IF list.mode = "RepeatOne" \/ n = 0 THEN list.at ELSE ((list.at + offset) % SizeModulus) % n
  IN IF i \in 0 .. n - 1 THEN i ELSE -1

(* OffsetToIndex, of lists that are not shuffled.                          *)
OffsetToIndex(list, offset) ==
  LET n == Len(list.rows)
      sum == list.at + offset
      i == CASE list.mode = "Normal" -> sum
             [] list.mode = "Repeat" -> IF n = 0 THEN -1 ELSE (sum % SizeModulus) % n
             [] list.mode = "RepeatOne" -> list.at
  IN IF i \in 0 .. n - 1 THEN i ELSE -1

(* LoadMediaItem: what was typed for the item before is gone.              *)
LoadTag(row) == [url |-> row.url, tag |-> row.tag, text |-> row.tag, unsaved |-> FALSE]

(* The player closes what it has; the timer is stopped only if it was not  *)
(* playing.                                                                *)
PlayMediaItem(v, row) ==
  /\ usedView' = v /\ usedItem' = [url |-> row.url, holds |-> TRUE]
  /\ \/ /\ player' = [status |-> "Playing", url |-> row.url, over |-> FALSE]
        /\ timer' = TRUE /\ button' = "pause" /\ trying' = FALSE
        /\ editor' = LoadTag(row)
     \/ /\ row.url \in Flaky
        /\ player' = Closed /\ trying' = TRUE
        /\ timer' = (timer /\ player.status \in {"Playing", "Closed"})
        /\ UNCHANGED <<button, editor>>
  /\ again' = FALSE
  /\ UNCHANGED <<tabs, made, loading, elsewhere>>

(* NextItem or PrevItem of the view in use, whether it is there or not.    *)
Advance(offset) ==
  IF usedView \in Alive
  THEN LET list == views[usedView]
           i == OffsetToIndex(list, offset)
       IN IF i >= 0
          THEN /\ views' = [views EXCEPT ![usedView].at = i]
               /\ PlayMediaItem(usedView, list.rows[i + 1])
               /\ UNCHANGED lost
          ELSE /\ trying' = FALSE
               /\ UNCHANGED <<lost, views, tabs, made, usedView, usedItem, button, timer, player, editor, loading, again, elsewhere>>
  ELSE /\ lost' = (usedView # NoView)
       /\ UNCHANGED <<window, player, editor, loading, again, elsewhere>>

Ready == app = "up" /\ ~trying /\ ~lost
Event == Ready /\ events < EventBound /\ events' = events + 1

SlotBtnNext == Event /\ Advance(1) /\ Session /\ UNCHANGED finishes
SlotBtnPrev == Event /\ Advance(-1) /\ Session /\ UNCHANGED finishes

(* Open failed: the slot waits a moment and goes on to the next.           *)
TryNext ==
  /\ app = "up" /\ trying /\ ~lost
  /\ Advance(1)
  /\ Session /\ UNCHANGED <<events, finishes>>

(* A double click plays the row, from the tab that is shown.               *)
DoubleClick(v, k) ==
  /\ Event /\ v \in Alive
  /\ views' = [views EXCEPT ![v].at = k - 1]
  /\ PlayMediaItem(v, views[v].rows[k])
  /\ Session /\ UNCHANGED <<finishes, lost>>

(* The player says the item is over, on a thread of its own, which queues  *)
(* a call.                                                                 *)
PlayOut ==
  /\ app = "up" /\ player.status = "Playing" /\ ~player.over
  /\ player' = [player EXCEPT !.over = TRUE]
  /\ finishes' = [finishes EXCEPT !.threads = @ + 1]
  /\ Session /\ UNCHANGED <<lost, window, editor, loading, events, again, elsewhere>>

SlotPlayerFinished ==
  /\ finishes.threads > 0
  /\ finishes' = [threads |-> finishes.threads - 1, queued |-> finishes.queued + 1]
  /\ UNCHANGED <<app, lost, window, player, editor, loading, disk, events, again, elsewhere, closed, torn>>

SlotUiPlayerFinished ==
  /\ Ready /\ finishes.queued > 0
  /\ finishes' = [finishes EXCEPT !.queued = @ - 1]
  /\ Advance(1)
  /\ Session /\ UNCHANGED events

(* The button plays, pauses or resumes; a player that is closed is opened  *)
(* with the item in use, which the tag editor is not told of.              *)
SlotBtnPlay ==
  /\ Event
  /\ \/ /\ player.status = "Closed" /\ usedItem # NoItem
        /\ lost' = ~usedItem.holds
        /\ \/ usedItem.holds /\ player' = [status |-> "Playing", url |-> usedItem.url, over |-> FALSE]
              /\ timer' = TRUE /\ button' = "pause" /\ again' = TRUE
           \/ (usedItem.holds => usedItem.url \in Flaky) /\ UNCHANGED <<player, timer, button, again>>
     \/ /\ player.status = "Playing"
        /\ player' = [player EXCEPT !.status = "Paused"]
        /\ timer' = FALSE /\ button' = "play" /\ UNCHANGED <<lost, again>>
     \/ /\ player.status = "Paused"
        /\ player' = [player EXCEPT !.status = "Playing"]
        /\ timer' = TRUE /\ button' = "pause" /\ UNCHANGED <<lost, again>>
  /\ Session /\ UNCHANGED <<views, tabs, made, usedView, usedItem, trying, finishes, editor, loading, elsewhere>>

-----------------------------------------------------------------------------
(* Tabs and their lists.                                                   *)

Playing == <<usedView, trying, button, timer, player, finishes, editor, again>>

NewTab ==
  /\ Event /\ made < MaxViews
  /\ made' = made + 1 /\ tabs' = Append(tabs, made')
  /\ Session /\ UNCHANGED <<lost, views, usedItem, loading, elsewhere, Playing>>

(* The last tab stays.  The view is deleted, and its list with it.         *)
CloseTab(i) ==
  /\ Event /\ Len(tabs) > 1
  /\ tabs' = RemoveAt(tabs, i)
  /\ usedItem' = [usedItem EXCEPT !.holds = @ /\ usedView # tabs[i]]
  /\ Session /\ UNCHANGED <<lost, views, made, loading, elsewhere, Playing>>

(* The items are kept in a deque: a removal may move those that are left.  *)
RemoveRow(v, k) ==
  /\ Event /\ v \in Alive
  /\ views' = [views EXCEPT ![v].rows = RemoveAt(@, k), ![v].at = IF Len(views[v].rows) = 1 THEN -1 ELSE @]
  /\ usedItem' \in {usedItem, IF v = usedView THEN [usedItem EXCEPT !.holds = FALSE] ELSE usedItem}
  /\ Session /\ UNCHANGED <<lost, tabs, made, loading, elsewhere, Playing>>

SetMode(v, m) ==
  /\ Event /\ v \in Alive /\ views[v].mode # m
  /\ views' = [views EXCEPT ![v].mode = m]
  /\ Session /\ UNCHANGED <<lost, tabs, made, usedItem, loading, elsewhere, Playing>>

(* Loading: the thread reads the tags, and sends the row to its view.      *)
Load(v, u) ==
  /\ Event /\ v \in Alive /\ loading.view = NoView /\ Len(views[v].rows) < MaxRows
  /\ loading' = [view |-> v, url |-> u]
  /\ Session /\ UNCHANGED <<lost, views, tabs, made, usedItem, elsewhere, Playing>>

SlotListRowGot ==
  /\ Ready /\ loading.view # NoView
  /\ lost' = (loading.view \notin Alive)
  /\ views' = IF loading.view \notin Alive THEN views
              ELSE [views EXCEPT ![loading.view].rows = Append(@, Row(loading.url))]
  /\ loading' = NotLoading
  /\ Session /\ UNCHANGED <<tabs, made, usedItem, events, elsewhere, Playing>>

-----------------------------------------------------------------------------
(* The tag editor.                                                         *)

SlotCellChanged ==
  /\ Event /\ editor.url # NoUrl
  /\ editor' = [editor EXCEPT !.text = 1 - @, !.unsaved = TRUE]
  /\ Session /\ UNCHANGED <<lost, window, player, finishes, loading, again, elsewhere>>

(* UpdateTag: the table shows the item again.                              *)
Reverted == [editor EXCEPT !.text = editor.tag, !.unsaved = FALSE]

SlotBtnCancel ==
  /\ Event /\ editor.unsaved
  /\ editor' = Reverted
  /\ Session /\ UNCHANGED <<lost, window, player, finishes, loading, again, elsewhere>>

Updated(rows) == [k \in DOMAIN rows |-> IF rows[k].url = editor.url THEN [rows[k] EXCEPT !.tag = editor.text] ELSE rows[k]]

(* Mutant of OnMediaItemUpdated: the search ends at the first row found.   *)
OnMediaItemUpdatedFirst ==
  views' = [views EXCEPT ![usedView].rows =
    [k \in DOMAIN @ |-> IF @[k].url = editor.url /\ \A j \in 1 .. k - 1 : @[j].url # editor.url
                        THEN [@[k] EXCEPT !.tag = editor.text] ELSE @[k]]]

(* Every row of the view in use that is of the file.                       *)
OnMediaItemUpdated == views' = [views EXCEPT ![usedView].rows = Updated(@)]

(* Saved into the file, and told to the view in use; or not saved.         *)
SlotBtnSave ==
  /\ Event /\ editor.unsaved
  /\ \/ /\ disk' = [disk EXCEPT !.tags[editor.url] = editor.text]
        /\ editor' = [editor EXCEPT !.tag = editor.text, !.unsaved = FALSE]
        /\ lost' = (usedView \notin Alive)
        /\ IF usedView \in Alive THEN OnMediaItemUpdated ELSE UNCHANGED views
        /\ elsewhere' = elsewhere \cup (IF loading.url = editor.url
             \/ \E v \in Alive \ {usedView} : \E k \in DOMAIN views[v].rows : views[v].rows[k].url = editor.url
             THEN {editor.url} ELSE {})
     \/ editor' = Reverted /\ UNCHANGED <<disk, lost, views, elsewhere>>
  /\ UNCHANGED <<app, tabs, made, usedView, usedItem, trying, button, timer, player, finishes, loading, again, closed, torn>>

-----------------------------------------------------------------------------
(* Sessions.                                                               *)

(* As many tabs as were noted, with the lists in the files that exist.     *)
Restored == [i \in 1 .. disk.tabCount |-> IF i \in DOMAIN disk.lists THEN disk.lists[i] ELSE Empty]

StartSession ==
  /\ app = "down" /\ events < EventBound
  /\ app' = "up"
  /\ made' = disk.tabCount /\ tabs' = [i \in 1 .. disk.tabCount |-> i]
  /\ views' = [v \in View |-> IF v \in DOMAIN Restored THEN Restored[v] ELSE Empty]
  /\ UNCHANGED <<lost, usedView, usedItem, trying, button, timer, player, finishes, editor, loading, disk, events, again, elsewhere, closed, torn>>

(* The process has ended, and what it kept is gone.                        *)
Gone ==
  /\ app' = "down" /\ lost' = FALSE
  /\ views' = [v \in View |-> Empty] /\ tabs' = <<>> /\ made' = 0
  /\ usedView' = NoView /\ usedItem' = NoItem /\ player' = Closed /\ finishes' = NoFinishes
  /\ trying' = FALSE /\ button' = "play" /\ timer' = FALSE /\ editor' = NoTag /\ loading' = NotLoading
  /\ again' = FALSE

(* Mutant of CloseEvent: the list of the first tab is not written.         *)
CloseEventNotFirst ==
  /\ Ready
  /\ app' = "closing" /\ torn' = TRUE /\ closed' = Lists(tabs)
  /\ disk' = [disk EXCEPT !.lists = [i \in 1 .. (IF Len(@) > Len(tabs) THEN Len(@) ELSE Len(tabs)) |->
                IF i \in 2 .. Len(tabs) THEN views[tabs[i]] ELSE IF i \in DOMAIN @ THEN @[i] ELSE Empty]]
  /\ UNCHANGED <<lost, window, player, finishes, editor, loading, events, again, elsewhere>>

(* The lists are written when the window closes; files of lists that are   *)
(* not there any more stay.                                                *)
CloseEvent ==
  /\ Ready
  /\ app' = "closing" /\ torn' = TRUE /\ closed' = Lists(tabs)
  /\ disk' = [disk EXCEPT !.lists = [i \in 1 .. (IF Len(@) > Len(tabs) THEN Len(@) ELSE Len(tabs)) |->
                IF i \in DOMAIN tabs THEN views[tabs[i]] ELSE @[i]]]
  /\ UNCHANGED <<lost, window, player, finishes, editor, loading, events, again, elsewhere>>

(* Their number is, when the event loop has ended.                         *)
SaveEnv ==
  /\ app = "closing" /\ Gone
  /\ disk' = [disk EXCEPT !.tabCount = Len(tabs)]
  /\ torn' = FALSE
  /\ UNCHANGED <<events, elsewhere, closed>>

(* The process is killed, or dies of a pointer: the lists keep the tags    *)
(* they had.                                                               *)
Outdated(u) ==
  \E i \in DOMAIN disk.lists : \E k \in DOMAIN disk.lists[i].rows :
    LET row == disk.lists[i].rows[k] IN row.url = u /\ row # Row(u)

Kill ==
  /\ app # "down" /\ Gone
  /\ elsewhere' = elsewhere \cup {u \in Url : Outdated(u)}
  /\ UNCHANGED <<disk, events, closed, torn>>

User ==
  \/ SlotBtnNext \/ SlotBtnPrev \/ SlotBtnPlay \/ NewTab
  \/ \E i \in DOMAIN tabs : CloseTab(i)
  \/ \E v \in Alive : \/ \E k \in DOMAIN views[v].rows : DoubleClick(v, k) \/ RemoveRow(v, k)
                      \/ \E m \in Mode : SetMode(v, m)
                      \/ \E u \in Url : Load(v, u)
  \/ SlotCellChanged \/ SlotBtnCancel \/ SlotBtnSave \/ CloseEvent

UiThread == TryNext \/ SlotUiPlayerFinished \/ SlotListRowGot

WindowNext ==
  \/ User \/ UiThread \/ PlayOut \/ SlotPlayerFinished
  \/ StartSession \/ SaveEnv \/ Kill

WindowSpec == WindowInit /\ [][WindowNext]_windowVars

(* The UI thread does not stop within a slot.                              *)
FairWindowSpec == WindowSpec /\ WF_windowVars(TryNext)

-----------------------------------------------------------------------------
(* Properties.                                                             *)

(* Every variable stays in its domain.                                     *)
WindowTypeOK ==
  /\ app \in {"up", "closing", "down"} /\ {lost, trying, timer, again, torn} \subseteq BOOLEAN
  /\ tabs \in Seq(View) /\ usedView \in View \cup {NoView}
  /\ player.status \in {"Closed", "Playing", "Paused"} /\ button \in {"play", "pause"}
  /\ \A v \in View : Len(views[v].rows) \in 0 .. MaxRows + 1 /\ views[v].at \in -1 .. MaxRows

(* What the window shows is what the player does: the button and the timer *)
(* follow its status, and the tag editor, which writes into files, has the *)
(* item that plays; but for one that opened at a second try only.          *)
ShowsWhatPlays ==
  app = "up" /\ player.status # "Closed" =>
    /\ button = (IF player.status = "Playing" THEN "pause" ELSE "play")
    /\ timer = (player.status = "Playing")
    /\ ~again => editor.url = player.url

(* The rows of the tabs, and the editor, have the tags that the files have;*)
(* but for a file that was in a tab not in use when they were changed, and *)
(* for the lists of a session that did not come to its end.                *)
TagsAgree ==
  app = "up" =>
    \A v \in Alive : \A k \in DOMAIN views[v].rows :
      LET row == views[v].rows[k] IN row.url \notin elsewhere => row.tag = disk.tags[row.url]

DesktopInv == WindowTypeOK /\ ShowsWhatPlays /\ TagsAgree

(* A session begins with the lists with which the last one was closed,     *)
(* unless that was killed between writing the lists and their number.      *)
SessionKept == StartSession /\ ~torn => [i \in DOMAIN tabs' |-> views'[tabs'[i]]] = closed

(* The search for a file that opens comes to an end, wherever it starts,   *)
(* unless the only one it may try is one that does not open: for then the  *)
(* slots call each other until the stack is full.                          *)
CanEnd ==
  usedView \in Alive =>
    LET list == views[usedView]
    IN \/ list.mode = "Normal"
       \/ list.mode = "Repeat" /\ \E k \in DOMAIN list.rows : list.rows[k].url \notin Flaky

SearchEnds == trying /\ CanEnd ~> ~trying \/ app = "down" \/ lost
=============================================================================

------------------------------- MODULE Views -------------------------------
(***************************************************************************)
(* The terminal client's screen: the layers of MainUi.cc, which of its     *)
(* views have a window (Ncurses.h), which one has the keys, which playlist *)
(* is chosen, and that the server is told (PlaylistSwitch and PlaylistSync *)
(* of Session.cc).                                                         *)
(*                                                                         *)
(* Two threads: that of the user interface, which takes a key at a time    *)
(* and draws before the next; and the client's receiving thread, which     *)
(* appends to lists under their mutexes, and switches the playlist without *)
(* any.  Here a switch is one step: what comes of the two threads being in *)
(* the layers, and in the curses library, at once is not looked into.      *)
(***************************************************************************)
EXTENDS Integers, Sequences, Functions

CONSTANTS
  PlaylistCount,  \* PLAYLIST_COUNT; the lists are 0 .. PlaylistCount - 1
  PipeBound,      \* bound: requests on their way for which no key is pressed
  ItemBound       \* bound: items that are appended

VARIABLES
  layers,      \* layerStack, the bottom first: [mask, views, focused], focused a stack too
  visible,     \* views that have a window
  hasFocus,    \* m_Focused of the explorer and of the lists
  iPlaylist, switchPlaylistTo,
  placed,      \* views laid out since they got their window, and the mask or the terminal's size changed
  items, drawn, needRefresh,  \* of each list: how many, how many its window has, m_NeedRefresh
  selected,    \* of the server: selectedPlaylist
  link,        \* -1 before there is a connection; then how many lists were asked for
  c2s, s2c,
  blind        \* for the properties only: a switch was made while help covered the lists

screen == <<layers, visible, hasFocus, iPlaylist, placed, drawn, needRefresh>>
vars == <<screen, switchPlaylistTo, items, selected, link, c2s, s2c, blind>>

List == 0 .. PlaylistCount - 1
None == -1
Explorer == -2
Help == -3
Status == -4
View == List \cup {Explorer, Help, Status}
Base == {"playlist", "status"}

(* Stacks: the last is on top.                                             *)
Last(s) == s[Len(s)]
Front(s) == SubSeq(s, 1, Len(s) - 1)

Top(ls) == ls[Len(ls)]
Focused == Last(Top(layers).focused)

Init ==
  /\ layers = <<[mask |-> Base, views |-> {1, Status}, focused |-> <<1>>]>>
  /\ visible = {1, Status} /\ hasFocus = {1}
  /\ iPlaylist = 1 /\ switchPlaylistTo = None
  /\ placed = visible
  /\ items = [l \in List |-> 0] /\ drawn = items /\ needRefresh = items
  /\ selected \in List /\ link = -1 /\ c2s = <<>> /\ s2c = <<>>
  /\ blind = FALSE

-----------------------------------------------------------------------------
(* Refresh of views that have a window: a list's counter goes down by one. *)
(* Those without have nothing drawn; their counter goes down too.          *)
Refreshed(views) ==
  /\ drawn' = [l \in List |-> IF l \notin visible' THEN 0 ELSE IF l \in views THEN items[l] ELSE drawn[l]]
  /\ needRefresh' = [l \in List |-> IF l \in views /\ needRefresh[l] > 0 THEN needRefresh[l] - 1 ELSE needRefresh[l]]

(* The views that are laid out: lists other than the chosen one are not.   *)
LaidOut(mask, list) ==
  IF mask = {"help"} THEN {Help}
  ELSE {list, Status} \cup (IF "explorer" \in mask THEN {Explorer} ELSE {})

(* The layers become ls; those of vis that the top one lacks stay as they  *)
(* are.                                                                    *)
UpdateTopLayout(ls, vis, list) ==
  LET top == Top(ls) IN
  /\ layers' = ls /\ visible' = vis \cup top.views /\ iPlaylist' = list
  /\ placed' = visible' \cap (LaidOut(top.mask, list) \cup IF top.mask = Top(layers).mask THEN placed \cap vis ELSE {})
  /\ Refreshed(top.views)

(* A socket without a connection loses what is sent.                       *)
Send(m) == c2s' = IF link = -1 THEN c2s ELSE Append(c2s, m)

(* Mutant of Chosen: the focus stays with the list that goes.              *)
ChosenOnly(layer, n) == [layer EXCEPT !.views = (@ \ {iPlaylist}) \cup {n}]

(* The top layer once list n is chosen.                                    *)
Chosen(layer, n) ==
  [layer EXCEPT !.views = (@ \ {iPlaylist}) \cup {n},
                !.focused = IF iPlaylist \in hasFocus THEN Append(Front(@), n) ELSE @]

SwitchPlaylist(n) ==
  IF n = iPlaylist THEN UNCHANGED <<screen, c2s, blind>>
  ELSE /\ UpdateTopLayout([layers EXCEPT ![Len(layers)] = Chosen(@, n)], visible \ {iPlaylist}, n)
       /\ hasFocus' = IF iPlaylist \in hasFocus THEN (hasFocus \ {iPlaylist}) \cup {n} ELSE hasFocus
       /\ Send([op |-> "Switch", list |-> n])
       /\ blind' = (blind \/ Len(layers) > 1)

-----------------------------------------------------------------------------
(* The thread of the user interface.                                       *)

UiThread == UNCHANGED <<items, selected, link, s2c>>

(* A key is taken when what the last one asked for has been done.          *)
Key == UiThread /\ switchPlaylistTo = None

SyncRefresh ==
  /\ UiThread
  /\ IF switchPlaylistTo # None
     THEN SwitchPlaylist(switchPlaylistTo) /\ switchPlaylistTo' = None
     ELSE LET views == {l \in List \cap Top(layers).views : needRefresh[l] > 0} IN
          /\ views # {} /\ UNCHANGED visible /\ Refreshed(views)
          /\ UNCHANGED <<layers, hasFocus, iPlaylist, placed, c2s, blind, switchPlaylistTo>>

DigitKey(n) ==
  /\ Key /\ n # iPlaylist /\ Len(c2s) < PipeBound
  /\ SwitchPlaylist(n)
  /\ UNCHANGED switchPlaylistTo

(* Left and right, in a list; in the explorer they change the directory.   *)
SlotSwitchPlaylist(step) ==
  /\ Key /\ Focused \in List /\ Len(c2s) < PipeBound
  /\ switchPlaylistTo' = IF iPlaylist + step \in List THEN iPlaylist + step ELSE iPlaylist
  /\ UNCHANGED <<screen, c2s, blind>>

(* "a" on a file of the explorer.                                          *)
SlotReqUserOpen ==
  /\ Key /\ Focused = Explorer /\ Len(c2s) < PipeBound
  /\ Send([op |-> "Append", list |-> iPlaylist])
  /\ UNCHANGED <<screen, switchPlaylistTo, blind>>

ShowOrHideExplorer ==
  /\ Key /\ Len(layers) = 1
  /\ LET layer == layers[1] IN
     IF Explorer \in visible
     THEN /\ hasFocus' = (hasFocus \ {Focused}) \cup {iPlaylist}
          /\ UpdateTopLayout(
               <<[mask |-> layer.mask \ {"explorer"}, views |-> layer.views \ {Explorer},
                  focused |-> Append(Front(Front(layer.focused)), iPlaylist)]>>, visible \ {Explorer}, iPlaylist)
     ELSE /\ hasFocus' = (hasFocus \ {Focused}) \cup {Explorer}
          /\ UpdateTopLayout(
               <<[mask |-> layer.mask \cup {"explorer"}, views |-> layer.views \cup {Explorer},
                  focused |-> Append(layer.focused, Explorer)]>>, visible, iPlaylist)
  /\ UNCHANGED <<switchPlaylistTo, c2s, blind>>

(* The help view has no flag for the focus.                                *)
ShowOrHideHelp ==
  LET hidden == visible \ Top(layers).views IN
  /\ Key
  /\ IF Help \in visible
     THEN /\ UpdateTopLayout(Front(layers), hidden, iPlaylist)
          /\ hasFocus' = hasFocus \cup {Last(layers[1].focused)}
     ELSE /\ UpdateTopLayout(Append(layers, [mask |-> {"help"}, views |-> {Help}, focused |-> <<Help>>]),
                             hidden, iPlaylist)
          /\ hasFocus' = hasFocus \ {Focused}
  /\ UNCHANGED <<switchPlaylistTo, c2s, blind>>

(* Tab.                                                                    *)
SwitchFocus ==
  /\ Key /\ Len(layers) = 1 /\ Explorer \in visible
  /\ LET other == IF Focused = Explorer THEN iPlaylist ELSE Explorer IN
     /\ layers' = [layers EXCEPT ![1].focused = Append(Front(@), other)]
     /\ hasFocus' = (hasFocus \ {Focused}) \cup {other}
  /\ UNCHANGED visible /\ Refreshed({iPlaylist})
  /\ UNCHANGED <<iPlaylist, placed, switchPlaylistTo, c2s, blind>>

OnResize ==
  /\ Key
  /\ visible' = visible \cup Top(layers).views /\ Refreshed(Top(layers).views)
  /\ placed' = visible' \cap LaidOut(Top(layers).mask, iPlaylist)
  /\ UNCHANGED <<layers, iPlaylist, hasFocus, switchPlaylistTo, c2s, blind>>

-----------------------------------------------------------------------------
(* The receiving thread, and the server.                                   *)

(* The connection, and a request for each list.                            *)
SlotConnected ==
  /\ link < PlaylistCount /\ link' = link + 1
  /\ c2s' = IF link = -1 THEN c2s ELSE Append(c2s, [op |-> "Sync", list |-> link])
  /\ UNCHANGED <<screen, switchPlaylistTo, items, selected, s2c, blind>>

(* There is room for items to come.                                        *)
Room == FoldFunction(+, 0, items) + Len(s2c) < ItemBound

Received(op) == s2c # <<>> /\ Head(s2c).op = op /\ s2c' = Tail(s2c)

SlotAppend ==
  /\ Received("Append")
  /\ LET l == Head(s2c).list IN
     /\ items' = [items EXCEPT ![l] = @ + 1]
     /\ needRefresh' = [needRefresh EXCEPT ![l] = IF l \in visible THEN @ + 1 ELSE @]
  /\ UNCHANGED <<layers, visible, hasFocus, iPlaylist, placed, drawn, switchPlaylistTo, selected, link, c2s, blind>>

SlotSwitch ==
  /\ Received("Switch")
  /\ SwitchPlaylist(Head(s2c).list)
  /\ UNCHANGED <<switchPlaylistTo, items, selected, link>>

(* A session of the server takes a request.                                *)
Handle ==
  /\ c2s # <<>> /\ c2s' = Tail(c2s)
  /\ LET m == Head(c2s) IN
     /\ selected' = IF m.op = "Switch" THEN m.list ELSE selected
     /\ s2c' = IF m.op = "Sync" /\ m.list = selected THEN Append(s2c, [op |-> "Switch", list |-> selected])
               ELSE IF m.op = "Append" /\ Room THEN Append(s2c, m) ELSE s2c
  /\ UNCHANGED <<screen, switchPlaylistTo, items, link, blind>>

(* Another client appends.                                                 *)
Other(l) ==
  /\ link # -1 /\ Room
  /\ s2c' = Append(s2c, [op |-> "Append", list |-> l])
  /\ UNCHANGED <<screen, switchPlaylistTo, items, selected, link, c2s, blind>>

Next ==
  \/ SyncRefresh \/ SlotReqUserOpen \/ ShowOrHideExplorer \/ ShowOrHideHelp \/ SwitchFocus \/ OnResize
  \/ \E n \in List : DigitKey(n) \/ Other(n)
  \/ \E step \in {-1, 1} : SlotSwitchPlaylist(step)
  \/ SlotConnected \/ SlotAppend \/ SlotSwitch \/ Handle

Spec == Init /\ [][Next]_vars

-----------------------------------------------------------------------------
(* Properties.                                                             *)

(* What has a window is what the top layer lists.                          *)
TopShown == visible = Top(layers).views

(* The one list of the bottom layer is the chosen one; without help, one   *)
(* view takes the keys, and it can be seen; all that is seen has been laid *)
(* out for what is on the screen.  Not after a switch under help.          *)
ChosenSeen ==
  ~blind =>
    /\ layers[1].views \cap List = {iPlaylist}
    /\ Len(layers) = 1 => hasFocus = {Focused} /\ Focused \in visible
    /\ visible \subseteq placed

(* A list that is seen is drawn as it is, or will be.                      *)
DrawnOrDue == \A l \in List \cap visible : drawn[l] = items[l] \/ needRefresh[l] > 0

(* With nothing on its way, the list the server will show to the next      *)
(* client is the one chosen here.                                          *)
ServerKnows ==
  link = PlaylistCount /\ c2s = <<>> /\ s2c = <<>> => selected = iPlaylist

(* All four.                                                               *)
ScreenInv == TopShown /\ ChosenSeen /\ DrawnOrDue /\ ServerKnows
=============================================================================

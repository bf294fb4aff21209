------------------------------- MODULE Status -------------------------------
(***************************************************************************)
(* What a terminal client shows of the player: the player requests of      *)
(* apps/ncurses/Session.cc, the periodic sync of ClientPlayerHandler.cc,   *)
(* the keys and slots of StatusView.cc, from the client's start on.        *)
(*                                                                         *)
(* The player itself is two variables, what it plays and whether it does:  *)
(* module Server has the rest.  Every request holds ServerContext::mtx     *)
(* from its first access to its reply and is one step; what other sessions *)
(* and the ends of items do to the player happens between two requests.    *)
(* Something has been played since the server's first start: before that   *)
(* "n" reads a list that is not there, see module Server.                  *)
(***************************************************************************)
EXTENDS Integers, Sequences, FiniteSets

CONSTANTS
  Item,        \* the media items
  NoItem,      \* what is shown before there is one
  VolumeTop,   \* the volume goes from 0 to 100 in this many steps
  Modes,       \* the number of play modes
  KeyBound,    \* bound: how many keys are pressed
  OtherBound   \* bound: how often others change something, or an item ends

VARIABLES
  running, current,   \* server: the player plays; the item of ItemInPlaying
  volume, mode,       \* server: volume and play mode
  c2s, s2c,           \* the connection
  link,               \* client: "trying", "connected", "up" when syncing
  status,             \* ClientPlayerHandler: m_Status, its playing and item
  waitSync,           \* ClientPlayerHandler: m_WaitSyncReply
  shown,              \* StatusView: m_PlayerStatus
  shownVolume, shownMode, waitReply,  \* StatusView: m_Volume, m_PlayMode, m_WaitReply
  keys, others,       \* how many keys, how many changes from elsewhere
  \* For the properties only:
  missed,             \* the item changed and this client was not sent it
  foreign             \* another session changed the volume or the mode

server  == <<running, current, volume, mode>>
pipes   == <<c2s, s2c>>
handler == <<link, status, waitSync>>
view    == <<shown, shownVolume, shownMode, waitReply>>
vars == <<server, pipes, handler, view, keys, others, missed, foreign>>

Unknown == -1  \* a volume or a mode the view has not been told

Message ==
  [op : {"Sync"}, running : BOOLEAN]
  \cup [op : {"Volume", "PlayMode"}, value : Int]
  \cup [op : {"Pause", "Seek", "PlayNext", "Play"}]
  \cup [op : {"ItemInfo"}, item : Item]

Init ==
  /\ running \in BOOLEAN /\ current \in Item
  /\ volume = 0 /\ mode = 0
  /\ c2s = <<>> /\ s2c = <<>>
  /\ link = "trying"
  /\ status = [playing |-> FALSE, item |-> NoItem] /\ shown = status
  /\ waitSync = FALSE /\ waitReply = FALSE
  /\ shownVolume = Unknown /\ shownMode = Unknown
  /\ keys = 0 /\ others = 0 /\ missed = FALSE /\ foreign = FALSE

-----------------------------------------------------------------------------
(* The client.                                                             *)

(* The socket connects; until then what is sent is lost.                   *)
Connect ==
  /\ link = "trying" /\ link' = "connected"
  /\ UNCHANGED <<server, pipes, status, waitSync, view, keys, others, missed, foreign>>

(* The periodic sync starts, volume and mode are asked for.                *)
SlotConnected ==
  /\ link = "connected" /\ link' = "up"
  /\ status' = [status EXCEPT !.playing = FALSE]
  /\ c2s' = c2s \o <<[op |-> "Volume", value |-> 0], [op |-> "PlayMode", value |-> 0]>>
  /\ UNCHANGED <<server, s2c, waitSync, view, keys, others, missed, foreign>>

(* Mutant of StartSync: the next sync does not wait for the last.          *)
StartSyncEager ==
  /\ link = "up"
  /\ waitSync' = TRUE
  /\ shown' = status
  /\ c2s' = Append(c2s, [op |-> "Sync", running |-> status.playing])
  /\ Len(c2s') < 4
  /\ UNCHANGED <<server, s2c, link, status, shownVolume, shownMode, waitReply, keys, others, missed, foreign>>

(* The periodic task: show what the last sync brought, and sync.           *)
StartSync ==
  /\ link = "up"
  /\ ~waitSync /\ waitSync' = TRUE
  /\ shown' = status
  /\ c2s' = Append(c2s, [op |-> "Sync", running |-> status.playing])
  /\ UNCHANGED <<server, s2c, link, status, shownVolume, shownMode, waitReply, keys, others, missed, foreign>>

(* A key of the status view, unless a reply is awaited; before there is a  *)
(* connection the request is lost and the view waits.                      *)
InjectKey(m) ==
  /\ keys < KeyBound /\ keys' = keys + 1
  /\ ~waitReply /\ waitReply' = TRUE
  /\ c2s' = IF link = "trying" THEN c2s ELSE Append(c2s, m)
  /\ UNCHANGED <<server, s2c, handler, shown, shownVolume, shownMode, others, missed, foreign>>

(* Enter in a playlist, which has a flag of its own: see module Mirror.    *)
PlayKey ==
  /\ link = "up" /\ keys < KeyBound /\ keys' = keys + 1
  /\ c2s' = Append(c2s, [op |-> "Play"])
  /\ UNCHANGED <<server, s2c, handler, view, others, missed, foreign>>

Receive(op) ==
  /\ s2c # <<>> /\ Head(s2c).op = op /\ s2c' = Tail(s2c)
  /\ UNCHANGED <<server, c2s, link, keys, others, missed, foreign>>

(* The client's handler of Sync.                                           *)
HandleSync ==
  /\ Receive("Sync")
  /\ waitSync' = FALSE
  /\ status' = [status EXCEPT !.playing = Head(s2c).running]
  /\ UNCHANGED view

HandleItemInfo ==
  /\ Receive("ItemInfo")
  /\ status' = [status EXCEPT !.item = Head(s2c).item]
  /\ UNCHANGED <<waitSync, view>>

(* SlotPause, SlotSeek, SlotPlayNext                                       *)
SlotReply ==
  /\ \E op \in {"Pause", "Seek", "PlayNext"} : Receive(op)
  /\ waitReply' = FALSE
  /\ UNCHANGED <<status, waitSync, shown, shownVolume, shownMode>>

SlotVolume ==
  /\ Receive("Volume")
  /\ shownVolume' = Head(s2c).value /\ waitReply' = FALSE
  /\ UNCHANGED <<status, waitSync, shown, shownMode>>

SlotPlayMode ==
  /\ Receive("PlayMode")
  /\ shownMode' = Head(s2c).value /\ waitReply' = FALSE
  /\ UNCHANGED <<status, waitSync, shown, shownVolume>>

(* A Play's reply is the playlist view's.                                  *)
IgnorePlay == Receive("Play") /\ UNCHANGED <<status, waitSync, view>>

-----------------------------------------------------------------------------
(* The session's handlers.                                                 *)

Serve(op) ==
  /\ c2s # <<>> /\ Head(c2s).op = op /\ c2s' = Tail(c2s)
  /\ UNCHANGED <<handler, view, keys, others, foreign>>

Answer(some) == s2c' = s2c \o some

PlayerPause ==
  /\ Serve("Pause")
  /\ running' \in {~running, running}  \* nothing is open: nothing happens
  /\ Answer(<<[op |-> "Pause"]>>)
  /\ UNCHANGED <<current, volume, mode, missed>>

PlayerSeek ==
  /\ Serve("Seek")
  /\ Answer(<<[op |-> "Seek"]>>)
  /\ UNCHANGED <<server, missed>>

(* One step up, down or none, within the bounds.                           *)
PlayerVolume ==
  /\ Serve("Volume")
  /\ LET vol == volume + Head(c2s).value IN
     volume' = IF vol > VolumeTop THEN VolumeTop ELSE IF vol < 0 THEN 0 ELSE vol
  /\ Answer(<<[op |-> "Volume", value |-> volume']>>)
  /\ UNCHANGED <<running, current, mode, missed>>

PlayerPlayMode ==
  /\ Serve("PlayMode")
  /\ mode' = (mode + Head(c2s).value) % Modes
  /\ Answer(<<[op |-> "PlayMode", value |-> mode']>>)
  /\ UNCHANGED <<running, current, volume, missed>>

Info == [op |-> "ItemInfo", item |-> current']

(* Mutant of PlayerPlayNext: the news is kept from the session that asked. *)
PlayerPlayNextSecret ==
  /\ Serve("PlayNext")
  /\ \/ current' \in Item /\ running' \in BOOLEAN /\ Answer(<<[op |-> "PlayNext"]>>)
     \/ UNCHANGED <<current, running>> /\ Answer(<<[op |-> "PlayNext"]>>)
  /\ missed' = FALSE
  /\ UNCHANGED <<volume, mode>>

(* The next item, whose file may not open, is announced to every session,  *)
(* this one included; or there is none.                                    *)
PlayerPlayNext ==
  /\ Serve("PlayNext")
  /\ \/ /\ current' \in Item /\ running' \in BOOLEAN
        /\ Answer(<<Info, [op |-> "PlayNext"]>>) /\ missed' = FALSE
     \/ UNCHANGED <<current, running, missed>> /\ Answer(<<[op |-> "PlayNext"]>>)
  /\ UNCHANGED <<volume, mode>>

(* An item that cannot be opened is not announced to anyone.               *)
PlaylistPlay ==
  /\ Serve("Play")
  /\ \/ /\ current' \in Item /\ running' = TRUE
        /\ Answer(<<Info, [op |-> "Play"]>>) /\ missed' = FALSE
     \/ /\ current' \in Item /\ running' = FALSE
        /\ Answer(<<[op |-> "Play"]>>)
        /\ missed' = (missed \/ current' # current)
  /\ UNCHANGED <<volume, mode>>

(* Mutant of PlayerSync: the item is sent when playing stops.              *)
PlayerSyncStop ==
  /\ Serve("Sync")
  /\ LET starts == Head(c2s).running /\ ~running IN
     /\ Answer((IF starts THEN <<[op |-> "ItemInfo", item |-> current]>> ELSE <<>>)
               \o <<[op |-> "Sync", running |-> running]>>)
     /\ missed' = (missed /\ ~starts)
  /\ UNCHANGED server

(* A client that does not know yet that the player runs is sent the item.  *)
PlayerSync ==
  /\ Serve("Sync")
  /\ LET starts == ~Head(c2s).running /\ running IN
     /\ Answer((IF starts THEN <<[op |-> "ItemInfo", item |-> current]>> ELSE <<>>)
               \o <<[op |-> "Sync", running |-> running]>>)
     /\ missed' = (missed /\ ~starts)
  /\ UNCHANGED server

-----------------------------------------------------------------------------
(* Elsewhere.                                                              *)

Other ==
  /\ others < OtherBound /\ others' = others + 1
  /\ UNCHANGED <<c2s, handler, view, keys>>

(* An item ended, or another client asked for the next one: SlotFinished,  *)
(* PlayNext.  The news may be overwritten in the send buffer before it is  *)
(* sent, by a reply this session sends outside the lock: see module Mirror.*)
SlotPlayNextItem ==
  /\ Other
  /\ current' \in Item /\ running' \in BOOLEAN
  /\ \/ link # "trying" /\ Answer(<<Info>>) /\ missed' = FALSE
     \/ UNCHANGED s2c /\ missed' = (missed \/ link # "trying")
  /\ UNCHANGED <<volume, mode, foreign>>

(* Another client plays an item of its choice, which is news to it alone.  *)
OthersPlay ==
  /\ Other
  /\ current' \in Item /\ running' \in BOOLEAN
  /\ missed' = (missed \/ link # "trying")
  /\ UNCHANGED <<volume, mode, s2c, foreign>>

OthersPause ==
  /\ Other
  /\ running' = ~running
  /\ UNCHANGED <<current, volume, mode, s2c, missed, foreign>>

OthersAdjust ==
  /\ Other
  /\ \/ volume' \in 0 .. VolumeTop /\ UNCHANGED mode
     \/ mode' \in 0 .. Modes - 1 /\ UNCHANGED volume
  /\ foreign' = TRUE
  /\ UNCHANGED <<running, current, s2c, missed>>

-----------------------------------------------------------------------------

Keys ==
  \/ \E op \in {"Pause", "Seek", "PlayNext"} : InjectKey([op |-> op])
  \/ \E value \in {-1, 1} : InjectKey([op |-> "Volume", value |-> value])
  \/ InjectKey([op |-> "PlayMode", value |-> 1])
  \/ PlayKey

Requests ==
  \/ PlayerPause \/ PlayerSeek \/ PlayerVolume \/ PlayerPlayMode \/ PlayerPlayNext
  \/ PlaylistPlay \/ PlayerSync

Slots ==
  HandleSync \/ HandleItemInfo \/ SlotReply \/ SlotVolume \/ SlotPlayMode \/ IgnorePlay

Elsewhere == SlotPlayNextItem \/ OthersPlay \/ OthersPause \/ OthersAdjust

Next ==
  Connect \/ SlotConnected \/ StartSync \/ Keys \/ Requests \/ Slots \/ Elsewhere

Spec == Init /\ [][Next]_vars

(* The session's thread, the client's receiving thread (which connects in  *)
(* the end, or gives up and ends: a client that never connects is not      *)
(* claimed anything of) and the periodic thread run.                       *)
FairSpec ==
  /\ Spec
  /\ WF_vars(SlotConnected) /\ WF_vars(Requests) /\ WF_vars(Slots) /\ WF_vars(StartSync)

-----------------------------------------------------------------------------
(* Properties.                                                             *)

(* Every variable stays in its domain.                                     *)
TypeOK ==
  /\ {running, waitSync, waitReply, missed, foreign} \subseteq BOOLEAN /\ current \in Item
  /\ volume \in 0 .. VolumeTop /\ mode \in 0 .. Modes - 1
  /\ \A pipe \in {c2s, s2c} : \A k \in DOMAIN pipe : pipe[k] \in Message
  /\ link \in {"trying", "connected", "up"}
  /\ {status, shown} \subseteq [playing : BOOLEAN, item : Item \cup {NoItem}]
  /\ shownVolume \in {Unknown} \cup 0 .. VolumeTop
  /\ shownMode \in {Unknown} \cup 0 .. Modes - 1

(* How many messages of a kind a pipe holds.                               *)
Count(op, pipe) == Cardinality({k \in DOMAIN pipe : pipe[k].op = op})

(* "Client should wait for Server's ItemSync before sending next ItemSync" *)
(* (Protocol.h:132): at most one is on its way there or back, and none     *)
(* falls out, which would end the syncing for ever.                        *)
OneSync == Count("Sync", c2s) + Count("Sync", s2c) = IF waitSync THEN 1 ELSE 0

(* The last item that the client has been told of, once all that is on its *)
(* way has arrived.                                                        *)
Told(item) ==
  \/ status.item = item /\ \A k \in DOMAIN s2c : s2c[k].op # "ItemInfo"
  \/ \E k \in DOMAIN s2c : /\ s2c[k] = [op |-> "ItemInfo", item |-> item]
                           /\ \A j \in k + 1 .. Len(s2c) : s2c[j].op # "ItemInfo"

(* A client that knows that something plays has been told what plays, or   *)
(* will have been with what is on its way, unless others changed the item  *)
(* behind its back.                                                        *)
ToldIsCurrent == status.playing /\ ~missed => Told(current)

(* When the replies are in, the view shows the server's volume and mode,   *)
(* unless another client has changed them.                                 *)
SettingsAgree ==
  link = "up" /\ ~foreign /\ c2s = <<>> /\ s2c = <<>> =>
    shownVolume = volume /\ shownMode = mode

(* What the run checks of the syncing: the types, the one sync that is     *)
(* under way, and the settings both ends agree on.                         *)
SyncInv == TypeOK /\ OneSync /\ SettingsAgree

LeftAlone == others = OtherBound /\ keys = KeyBound

(* A server left alone, the view comes to show the item that plays, and    *)
(* that it plays.                                                          *)
ComesToShow ==
  (LeftAlone /\ link = "up" /\ running /\ ~missed) ~>
    (shown = [playing |-> TRUE, item |-> current] \/ ~running \/ missed)

=============================================================================

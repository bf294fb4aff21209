------------------------------- MODULE Mirror -------------------------------
(***************************************************************************)
(* A playlist of the server and the copy a terminal client shows: the      *)
(* playlist requests of apps/ncurses/Session.cc, the copy and the cursor   *)
(* of PlaylistView.cc, the two directions of the connection.               *)
(*                                                                         *)
(* The client is followed in full, from connection to quitting and to the  *)
(* next connection; what other sessions do to the same list is OthersEdit. *)
(* A session composes what it sends in one buffer, m_SendOutBuf.  Most     *)
(* requests hold ServerContext::mtx until their reply is sent and are one  *)
(* step; Remove, Move and Clear let go of it first, so that their replies  *)
(* and the news of SlotPlayNextItem, which other threads send under the    *)
(* mutex, can meet in the buffer.                                          *)
(*                                                                         *)
(* Something of the list has been played: without that, Move trips the     *)
(* assertion that module Playlist describes.                               *)
(***************************************************************************)
EXTENDS Integers, Sequences, FiniteSets, SequencesExt

CONSTANTS
  Item,        \* the media items; the list has them all at first
  Chunk,       \* MEDIAITEMS_IN_CHUNK
  Syncs,       \* PLAYLIST_COUNT, the lists a client syncs; this is the first
  PipeBound,   \* bound: no key while so many messages are on their way
  EventBound   \* bound: how often the client quits, others edit or send news

ASSUME BoundsAssumption ==
  /\ Chunk \in Nat \ {0} /\ Syncs \in Nat \ {0}
  /\ PipeBound \in Nat /\ EventBound \in Nat

ASSUME ItemAssumption == IsFiniteSet(Item)

VARIABLES
  list, selected,   \* server: playlists[i], selectedItem[i]
  aborted,          \* a process has read past the end of its list: not followed on
  buffer,           \* session: the message in m_SendOutBuf, <<>> when it has been sent
  reply, composed,  \* session: the reply being sent after the unlock; in the buffer?
  news,             \* session: a slot has composed and not yet sent
  c2s, s2c,         \* the connection
  up,               \* there is a client
  mirror, cursor,   \* client: m_List, m_ItemSelected
  waitReply,        \* client: m_WaitReply
  \* What happened since this client came, for the properties only:
  edited,           \* another session edited the list
  clobbered,        \* the buffer was overwritten between compose and send
  unanswered,       \* a Play came without a reply
  early,            \* a key was pressed before the lists were there
  stale,            \* it was told a selection past the end of the list
  events            \* how many quits, edits and news there were

server  == <<list, selected, aborted>>
session == <<buffer, reply, composed, news>>
pipes   == <<c2s, s2c>>
view    == <<up, mirror, cursor, waitReply>>
history == <<edited, clobbered, unanswered, early, stale>>
vars == <<server, session, pipes, view, history, events>>

Sync(own)      == [op |-> "Sync", own |-> own]
Select(pos)    == [op |-> "Select", pos |-> pos]
Play(pos)      == [op |-> "Play", pos |-> pos]
Append_(some)  == [op |-> "Append", items |-> some]
Remove_(pos)   == [op |-> "Remove", pos |-> pos]
Move(pos, dir) == [op |-> "Move", pos |-> pos, dir |-> dir]
Clear          == [op |-> "Clear"]
ItemInfo       == [op |-> "ItemInfo"]

(* The requests a view sends one at a time.                                *)
Gated == {"Play", "Remove", "Move", "Clear"}

Index(s) == 0 .. Len(s) - 1
At(s, i) == s[i + 1]
Swap(s, i, j) == [s EXCEPT ![i + 1] = At(s, j), ![j + 1] = At(s, i)]

NoHistory ==
  /\ edited' = FALSE /\ clobbered' = FALSE /\ unanswered' = FALSE
  /\ early' = FALSE /\ stale' = FALSE

Init ==
  /\ list = SetToSeq(Item)
  /\ selected = 0 /\ aborted = FALSE
  /\ buffer = <<>> /\ reply = <<>> /\ composed = FALSE /\ news = FALSE
  /\ c2s = <<>> /\ s2c = <<>>
  /\ up = FALSE /\ mirror = <<>> /\ cursor = 0 /\ waitReply = FALSE
  /\ edited = FALSE /\ clobbered = FALSE /\ unanswered = FALSE /\ early = FALSE
  /\ stale = FALSE
  /\ events = 0

(* Something from outside the client's keys and their service.             *)
Event == events < EventBound /\ events' = events + 1

-----------------------------------------------------------------------------
(* The client's keys.                                                      *)

Request(m) == c2s' = Append(c2s, m)

Pending(op, pipe) == \E k \in DOMAIN pipe : pipe[k].op = op

Key ==
  /\ up /\ ~aborted /\ Len(c2s) + Len(s2c) < PipeBound
  /\ early' = (early \/ Pending("Sync", c2s) \/ Pending("Select", s2c))
  /\ UNCHANGED <<server, session, s2c, up, mirror, edited, clobbered, unanswered, stale, events>>

(* The keys that move the cursor; selecting is not gated.                  *)
Scroll ==
  /\ Key /\ mirror # <<>>
  /\ cursor' \in {IF cursor > 0 THEN cursor - 1 ELSE cursor,
                  IF cursor < Len(mirror) - 1 THEN cursor + 1 ELSE cursor,
                  0, Len(mirror) - 1}
  /\ Request(Select(cursor'))
  /\ UNCHANGED waitReply

(* Mutant of ReqGated: a request goes out while another one has no reply.  *)
ReqGatedTwice(m) ==
  /\ Key /\ mirror # <<>>
  /\ waitReply' = TRUE /\ Request(m)
  /\ UNCHANGED cursor

ReqGated(m) ==
  /\ Key /\ mirror # <<>>
  /\ ~waitReply /\ waitReply' = TRUE /\ Request(m)
  /\ UNCHANGED cursor

ReqPlay   == ReqGated(Play(cursor))
ReqRemove == ReqGated(Remove_(cursor))
ReqMove   == \E dir \in {-1, 1} : ReqGated(Move(cursor, dir))
ReqClear  == ReqGated(Clear)

(* A file or directory picked in the explorer: an item that is neither in  *)
(* the list nor asked for stands for it, which bounds the list.            *)
SlotReqUserOpen ==
  /\ Key
  /\ \E i \in Item \ ToSet(list) : Append_(<<i>>) \notin ToSet(c2s) /\ Request(Append_(<<i>>))
  /\ UNCHANGED <<cursor, waitReply>>

-----------------------------------------------------------------------------
(* The session's handlers.  A handler takes the first message when the one *)
(* before it is done; those that lock wait for a slot that is sending.     *)

Deliver(some) == s2c' = IF up THEN s2c \o some ELSE s2c

Handle(op) ==
  /\ ~aborted /\ c2s # <<>> /\ Head(c2s).op = op
  /\ reply = <<>>
  /\ c2s' = Tail(c2s)
  /\ UNCHANGED <<news, view, edited, clobbered, early, events>>

Locked(op) == Handle(op) /\ ~news

(* Under the lock, replies are composed and sent in one go.                *)
Answer(some) == Deliver(some) /\ UNCHANGED <<buffer, reply, composed>>

AnswerUnlocked(m) ==
  /\ reply' = <<m>>
  /\ UNCHANGED <<buffer, composed, s2c, unanswered, stale>>

(* SendMediaItemsByChunk                                                   *)
Chunks(some) ==
  [k \in 1 .. (Len(some) + Chunk - 1) \div Chunk |->
     Append_(SubSeq(some, (k - 1) * Chunk + 1, (IF k * Chunk < Len(some) THEN k * Chunk ELSE Len(some))))]

(* Every Sync repeats the selected items of all lists.                     *)
PlaylistSync ==
  /\ Locked("Sync")
  /\ Answer((IF Head(c2s).own THEN Chunks(list) ELSE <<>>) \o <<Select(selected)>>)
  /\ stale' = (stale \/ (up /\ selected \notin Index(list) \cup {0}))
  /\ UNCHANGED <<server, unanswered>>

(* Not under the lock.                                                     *)
PlaylistSelect ==
  /\ Handle("Select")
  /\ LET pos == Head(c2s).pos IN
     selected' = IF pos \in Index(list) \/ list = <<>> THEN pos ELSE selected
  /\ UNCHANGED <<list, aborted, buffer, reply, composed, s2c, unanswered, stale>>

(* An item outside the list is not played, and not answered.               *)
PlaylistPlay ==
  /\ Locked("Play")
  /\ \/ /\ Head(c2s).pos \in Index(list)
        /\ \/ Answer(<<ItemInfo, Play(Head(c2s).pos)>>)
           \/ Answer(<<Play(Head(c2s).pos)>>)  \* the file could not be opened
        /\ UNCHANGED unanswered
     \/ /\ Head(c2s).pos \notin Index(list)
        /\ Answer(<<>>) /\ unanswered' = (unanswered \/ up)
  /\ UNCHANGED <<server, stale>>

(* What cannot be loaded is not answered.                                  *)
PlaylistAppend ==
  /\ Locked("Append")
  /\ LET new == Head(c2s).items IN
     \/ list' = list \o new /\ Answer(Chunks(new))
     \/ list' = list /\ Answer(<<>>)
  /\ UNCHANGED <<selected, aborted, unanswered, stale>>

PlaylistRemove ==
  /\ Locked("Remove")
  /\ LET pos == Head(c2s).pos IN
     list' = IF pos \in Index(list) THEN RemoveAt(list, pos + 1) ELSE list
  /\ AnswerUnlocked(Head(c2s))
  /\ UNCHANGED <<selected, aborted>>

(* Mutant of Moved: the last place cannot be moved to.                     *)
MovedShort(s, pos, dir) ==
  LET newPos == IF dir > 0 THEN pos + 2 ELSE pos - 1 IN
  IF Len(s) >= 2 /\ newPos \in 0 .. Len(s) - 1 /\ pos \in Index(s)
  THEN Swap(s, pos, IF dir > 0 THEN pos + 1 ELSE pos - 1) ELSE s

(* The list after its move to before newPos, which leaves lists of less    *)
(* than two items alone: neighbours change places.                         *)
Moved(s, pos, dir) ==
  LET newPos == IF dir > 0 THEN pos + 2 ELSE pos - 1 IN
  IF Len(s) >= 2 /\ newPos \in 0 .. Len(s) /\ pos \in Index(s)
  THEN Swap(s, pos, IF dir > 0 THEN pos + 1 ELSE pos - 1) ELSE s

(* The guard lets one past the end through, which Move then reads.         *)
PlaylistMove ==
  /\ Locked("Move")
  /\ LET m == Head(c2s) IN
     /\ list' = Moved(list, m.pos, m.dir)
     /\ aborted' = (Len(list) >= 2 /\ m.pos = Len(list) /\ m.dir < 0)
  /\ AnswerUnlocked(Head(c2s))
  /\ UNCHANGED selected

PlaylistClear ==
  /\ Locked("Clear")
  /\ list' = <<>>
  /\ AnswerUnlocked(Head(c2s))
  /\ UNCHANGED <<selected, aborted>>

(* The reply of Remove, Move or Clear, after the unlock.                   *)
ReplyCompose ==
  /\ ~aborted /\ reply # <<>> /\ ~composed
  /\ buffer' = reply /\ composed' = TRUE
  /\ clobbered' = (clobbered \/ news)
  /\ UNCHANGED <<server, reply, news, pipes, view, edited, unanswered, early, stale, events>>

ReplySend ==
  /\ ~aborted /\ composed
  /\ Deliver(buffer)
  /\ reply' = <<>> /\ composed' = FALSE
  /\ buffer' = IF news THEN buffer ELSE <<>>
  /\ UNCHANGED <<server, news, c2s, view, history, events>>

(* SlotPlayNextItem, on the thread of another session or of a finisher,    *)
(* which holds the mutex from compose to send.                             *)
NewsCompose ==
  /\ ~aborted /\ up /\ ~news /\ Event
  /\ news' = TRUE /\ buffer' = <<ItemInfo>>
  /\ clobbered' = (clobbered \/ composed)
  /\ UNCHANGED <<server, reply, composed, pipes, view, edited, unanswered, early, stale>>

NewsSend ==
  /\ ~aborted /\ news
  /\ Deliver(buffer) /\ news' = FALSE
  /\ buffer' = IF composed THEN buffer ELSE <<>>
  /\ UNCHANGED <<server, reply, composed, c2s, view, history, events>>

-----------------------------------------------------------------------------
(* The client's slots, on its receiving thread.                            *)

Receive(op) ==
  /\ up /\ ~aborted /\ s2c # <<>> /\ Head(s2c).op = op
  /\ s2c' = Tail(s2c)
  /\ UNCHANGED <<server, session, up, history, events>>

SlotSelect ==
  /\ Receive("Select")
  /\ cursor' = Head(s2c).pos
  /\ UNCHANGED <<c2s, mirror, waitReply>>

SlotPlay ==
  /\ Receive("Play")
  /\ waitReply' = FALSE
  /\ UNCHANGED <<c2s, mirror, cursor>>

SlotAppend ==
  /\ Receive("Append")
  /\ mirror' = mirror \o Head(s2c).items
  /\ UNCHANGED <<c2s, cursor, waitReply>>

(* What a reply makes of the copy.                                         *)
Applied(s, m) ==
  CASE m.op = "Append" -> s \o m.items
    [] m.op = "Remove" -> IF m.pos \in Index(s) THEN RemoveAt(s, m.pos + 1) ELSE s
    [] m.op = "Move"   -> LET newPos == IF m.dir > 0 THEN m.pos + 1 ELSE m.pos - 1 IN
                          IF newPos \in Index(s) /\ m.pos \in Index(s)
                          THEN Swap(s, m.pos, newPos) ELSE s
    [] m.op = "Clear"  -> <<>>
    [] OTHER           -> s

(* Mutant of SlotRemove: the cursor stays where it was.                    *)
SlotRemoveStill ==
  /\ Receive("Remove")
  /\ mirror' = Applied(mirror, Head(s2c))
  /\ cursor' = cursor
  /\ waitReply' = FALSE /\ Request(Select(cursor'))

SlotRemove ==
  /\ Receive("Remove")
  /\ mirror' = Applied(mirror, Head(s2c))
  /\ cursor' = IF Head(s2c).pos \in Index(mirror) /\ mirror' # <<>> /\ cursor >= Len(mirror') - 1
               THEN Len(mirror') - 1 ELSE cursor
  /\ waitReply' = FALSE /\ Request(Select(cursor'))

(* The code swaps when the new place is in the copy, whether or not the    *)
(* old one is.                                                             *)
SlotMove ==
  /\ up /\ ~aborted /\ s2c # <<>> /\ Head(s2c).op = "Move" /\ s2c' = Tail(s2c)
  /\ UNCHANGED <<list, selected, session, up, history, events>>
  /\ LET m == Head(s2c)
         newPos == IF m.dir > 0 THEN m.pos + 1 ELSE m.pos - 1 IN
     /\ mirror' = Applied(mirror, m)
     /\ cursor' = IF newPos \in Index(mirror) THEN newPos ELSE cursor
     /\ aborted' = (aborted \/ (newPos \in Index(mirror) /\ m.pos \notin Index(mirror)))
  /\ waitReply' = FALSE /\ Request(Select(cursor'))

(* Mutant of SlotClear: the view goes on waiting.                          *)
SlotClearWaiting ==
  /\ Receive("Clear")
  /\ mirror' = <<>> /\ cursor' = 0
  /\ waitReply' = waitReply /\ Request(Select(cursor'))

SlotClear ==
  /\ Receive("Clear")
  /\ mirror' = <<>> /\ cursor' = 0
  /\ waitReply' = FALSE /\ Request(Select(cursor'))

(* The status view's business.                                             *)
IgnoreNews ==
  /\ Receive("ItemInfo")
  /\ UNCHANGED <<c2s, mirror, cursor, waitReply>>

-----------------------------------------------------------------------------
(* Coming and going.                                                       *)

(* SlotConnected asks for every list.                                      *)
Connect ==
  /\ ~up /\ ~aborted /\ c2s = <<>> /\ reply = <<>> /\ ~news
  /\ up' = TRUE
  /\ c2s' = [i \in 1 .. Syncs |-> Sync(i = 1)]
  /\ NoHistory
  /\ UNCHANGED <<server, session, s2c, mirror, cursor, waitReply, events>>

(* The client is a process: what it showed and waited for goes with it.    *)
Quit ==
  /\ up /\ Event
  /\ up' = FALSE /\ mirror' = <<>> /\ cursor' = 0 /\ waitReply' = FALSE
  /\ s2c' = <<>>
  /\ UNCHANGED <<server, session, c2s, history>>

(* The session of a client that has gone reads what was sent to the end,   *)
(* or loses it with the connection.                                        *)
LoseRest ==
  /\ ~up /\ c2s # <<>> /\ c2s' = <<>>
  /\ UNCHANGED <<server, session, s2c, view, history, events>>

(* A request of another session, handled between two of this one.          *)
OthersEdit ==
  /\ ~aborted /\ ~news /\ Event
  /\ \/ \E i \in Index(list) : list' = RemoveAt(list, i + 1)
     \/ \E i \in Index(list), dir \in {-1, 1} : list' = Moved(list, i, dir)
     \/ \E i \in Item \ ToSet(list) : list' = Append(list, i)
     \/ list' = <<>>
  /\ selected' \in {selected} \cup Index(list')
  /\ edited' = TRUE
  /\ UNCHANGED <<aborted, session, pipes, view, clobbered, unanswered, early, stale>>

-----------------------------------------------------------------------------

Keys == Scroll \/ ReqPlay \/ ReqRemove \/ ReqMove \/ ReqClear \/ SlotReqUserOpen

Serve ==
  \/ PlaylistSync \/ PlaylistSelect \/ PlaylistPlay \/ PlaylistAppend
  \/ PlaylistRemove \/ PlaylistMove \/ PlaylistClear
  \/ ReplyCompose \/ ReplySend \/ NewsSend

Show ==
  SlotSelect \/ SlotPlay \/ SlotAppend \/ SlotRemove \/ SlotMove \/ SlotClear \/ IgnoreNews

Next ==
  Keys \/ Serve \/ Show \/ NewsCompose \/ Connect \/ Quit \/ LoseRest \/ OthersEdit

Spec == Init /\ [][Next]_vars

(* The session and the client's receiving thread are threads that run.     *)
FairSpec == Spec /\ WF_vars(Serve) /\ WF_vars(Show)

-----------------------------------------------------------------------------
(* Properties.                                                             *)

(* What the two pipes, the buffer and a pending reply hold.                *)
Message ==
  [op : {"Sync"}, own : BOOLEAN] \cup [op : {"Select", "Play", "Remove"}, pos : Int]
  \cup [op : {"Move"}, pos : Int, dir : {-1, 1}]
  \cup [op : {"Append"}, items : Seq(Item)] \cup [op : {"Clear", "ItemInfo"}]

(* Every variable stays in its domain; two editors of the buffer at most.  *)
TypeOK ==
  /\ list \in Seq(Item) /\ mirror \in Seq(Item)
  /\ {selected, cursor} \subseteq Int
  /\ {aborted, composed, news, up, waitReply, edited, clobbered, unanswered, early, stale} \subseteq BOOLEAN
  /\ \A pipe \in {buffer, reply, c2s, s2c} : \A k \in DOMAIN pipe : pipe[k] \in Message
  /\ Len(buffer) <= 1 /\ Len(reply) <= 1
  /\ composed => reply # <<>>

(* What a copy becomes when messages arrive, one after the other.          *)
After(copy, some) ==
  LET after[k \in 0 .. Len(some)] ==
        IF k = 0 THEN copy ELSE Applied(after[k - 1], some[k])
  IN after[Len(some)]

(* What the copy becomes when all that is on its way has arrived.          *)
Arrived == After(mirror, s2c \o reply)

Alone == up /\ ~edited /\ ~clobbered /\ ~aborted

(* A client whose list nobody else edits shows the server's list, once the *)
(* replies on their way are applied: the slots of the view, with their own *)
(* ideas of what an index means, repeat exactly what the server did.       *)
MirrorFollows ==
  Alone /\ ~(\E k \in DOMAIN c2s : c2s[k] = Sync(TRUE)) => Arrived = list

(* How many requests, or replies to them, that a view waits for.           *)
GatedIn(pipe) == Cardinality({k \in DOMAIN pipe : pipe[k].op \in Gated})

Outstanding == GatedIn(c2s) + GatedIn(reply) + GatedIn(s2c)

(* A view waits if and only if exactly one of its requests, or the reply,  *)
(* is under way, as long as no reply fell out (Play of an item that is not *)
(* there; two senders in one buffer).                                      *)
OneOutstanding ==
  up /\ ~clobbered /\ ~unanswered /\ ~aborted =>
    Outstanding = IF waitReply THEN 1 ELSE 0

Quiet == c2s = <<>> /\ s2c = <<>> /\ reply = <<>> /\ ~news

(* When all is delivered, the server keeps as selected the item the client *)
(* shows as selected, unless others edited, or a key came in before the    *)
(* initial selection had (that key's selection is then taken back in the   *)
(* view and not in the server), or the server's own was past the end.      *)
SelectionAgrees == Alone /\ ~early /\ ~stale /\ Quiet => cursor = selected

(* What the run checks of the view: the types, the one request a view has  *)
(* under way while it waits, and the selection both ends agree on.         *)
ViewInv == TypeOK /\ OneOutstanding /\ SelectionAgrees

(* Nobody reads past the end of a list unless others edited it, or the     *)
(* selection was already past the end when the client came.                *)
StaleOnly == [][aborted' /\ ~aborted => edited \/ clobbered \/ stale]_vars

(* A view that waits gets its reply, or its client quits, or the reply has *)
(* fallen out.                                                             *)
RepliesCome ==
  (up /\ waitReply /\ ~clobbered /\ ~unanswered) ~> (~waitReply \/ clobbered \/ unanswered \/ aborted)
=============================================================================

-------------------------------- MODULE Wire --------------------------------
(***************************************************************************)
(* One direction of the connection of a terminal client and its session:   *)
(* how a request or a reply becomes bytes in the one send buffer of its    *)
(* end (SEND_PACKET, GetPayloadBuffer, SendOut), how the bytes go through  *)
(* the socket in pieces (SendN, RecvN) and how the other end makes a       *)
(* message of them again (Header::Read, Handle).  Several threads send:    *)
(* the client's hold m_SendOutBufMutex from GetPayloadBuffer to SendOut,   *)
(* the session's hold ServerContext::mtx, but for three replies.           *)
(***************************************************************************)
EXTENDS BufObj, FiniteSets

CONSTANTS
  Sender,              \* threads that send
  Nobody,              \* not one of them
  MEDIAITEMS_IN_CHUNK, \* items sent in one message
  Index, Pos, Direct,  \* a playlist, a place in it, a direction
  Str,                 \* a string
  Item,                \* an item, as the values of its fields
  Short,               \* sizes of what is sent or received when it is less than was
  CutBound             \*   asked for, and how often that happens

VARIABLES
  end,        \* "client" or "session", who sends
  jobs,       \* what each thread still has to send
  stage,      \* how far each is with its message
  mutex,      \* who holds the lock of the end that sends
  out, size,  \* m_SendOutBuf: its memory, and how much of it is in use
  loose,      \* the threads whose place in it was freed
  sent,       \* per thread in SendN, how far it is and how much is left
  stream,     \* the bytes in the socket
  got, head,  \* what RecvN has, and the header it belongs to
  ended,      \* the receiving thread has left its loop
  closed,     \* which end shut the socket down
  killed,     \* the sender wrote to a socket that was shut down
  meant, delivered,  \* the messages sent, and those made of the bytes
  met,        \* two threads used the buffer at a time: both under lock, or not
  fault,      \* something was written or read beyond a buffer
  cuts

buffer == <<mutex, out, size, loose>>
receiver == <<got, head, ended, delivered>>
wire ==
  <<end, jobs, stage, buffer, sent, stream, receiver, closed, killed, meant, met, fault, cuts>>

-----------------------------------------------------------------------------
(* The protocol.                                                           *)
STR_MAGIC == <<77, 79, 85, 83>>

Group == <<"App", "Player", "Playlist">>

Op ==
  [App |-> <<"StopService", "Suffixes">>,
   Player |-> <<"Pause", "Seek", "Volume", "PlayMode", "PlayNext", "Sync", "ItemInfo", "ItemProgress">>,
   Playlist |-> <<"Switch", "Select", "Play", "Append", "Remove", "Move", "Clear", "Sync">>]

Code(names, name) == CHOOSE k \in DOMAIN names : names[k] = name

IsVaildEm(names, v) == v \in DOMAIN names

(* What each request of the client and each reply of the session writes    *)
(* after the op.                                                           *)
Requests ==
  [App |-> [StopService |-> <<>>],
   Player |->
     [Pause |-> <<>>, Seek |-> <<"char">>, Volume |-> <<"char">>, PlayMode |-> <<"char">>,
      PlayNext |-> <<"char">>, Sync |-> <<"char">>],
   Playlist |->
     [Switch |-> <<"char">>, Select |-> <<"char", "int">>, Play |-> <<"char", "int">>,
      Append |-> <<"char", "string">>, Remove |-> <<"char", "int">>,
      Move |-> <<"char", "int", "char">>, Clear |-> <<"char">>, Sync |-> <<"char">>]]

Replies ==
  [App |-> [Suffixes |-> <<"strings">>],
   Player |->
     [Pause |-> <<>>, Seek |-> <<>>, Volume |-> <<"char">>, PlayMode |-> <<"string">>,
      PlayNext |-> <<"char">>, Sync |-> <<"char">>, ItemInfo |-> <<"item", "int", "long">>,
      ItemProgress |-> <<"long", "int">>],
   Playlist |->
     [Switch |-> <<"char">>, Select |-> <<"char", "int">>, Play |-> <<"char", "char">>,
      Append |-> <<"char", "items">>, Remove |-> <<"char", "int">>,
      Move |-> <<"char", "int", "char">>, Clear |-> <<"char">>]]

(* What the session's handlers and the client's read of them.              *)
SessionReads ==
  [App |-> [StopService |-> <<>>],
   Player |->
     [Pause |-> <<>>, Seek |-> <<"char">>, Volume |-> <<"char">>, PlayMode |-> <<"char">>,
      PlayNext |-> <<"char">>, Sync |-> <<"char">>],
   Playlist |->
     [Switch |-> <<"char">>, Select |-> <<"char", "int">>, Play |-> <<"char", "int">>,
      Append |-> <<"char", "string">>, Remove |-> <<"char", "int">>,
      Move |-> <<"char", "int", "char">>, Clear |-> <<"char">>, Sync |-> <<"char">>]]

(* Mutant of ClientReads: the direction of a move before its places.       *)
ClientReadsSwapped == [Replies EXCEPT !.Playlist.Move = <<"char", "char", "int">>]

ClientReads ==
  [App |-> [Suffixes |-> <<"strings">>],
   Player |->
     [Pause |-> <<>>, Seek |-> <<>>, Volume |-> <<"char">>, PlayMode |-> <<"string">>,
      PlayNext |-> <<"char">>, Sync |-> <<"char">>, ItemInfo |-> <<"item", "int", "long">>,
      ItemProgress |-> <<"long", "int">>],
   Playlist |->
     [Switch |-> <<"char">>, Select |-> <<"char", "int">>, Play |-> <<"char", "char">>,
      Append |-> <<"char", "items">>, Remove |-> <<"char", "int">>,
      Move |-> <<"char", "int", "char">>, Clear |-> <<"char">>]]

-----------------------------------------------------------------------------
Message(group, op, args) == [group |-> group, op |-> op, args |-> args]

(* A message of the client, and one or more that a session sends under its *)
(* lock or after giving it back.                                           *)
Locked(messages) == [locked |-> TRUE, messages |-> messages]
Bare(message) == [locked |-> FALSE, messages |-> <<message>>]

(* The calls of the client's user: those of its handlers and StopService.  *)
UserRequests ==
  {Locked(<<m>>) : m \in
    {Message("App", "StopService", <<>>), Message("Player", "Pause", <<>>)}
    \cup {Message("Player", op, <<Direct>>) : op \in {"Seek", "Volume", "PlayMode", "PlayNext"}}
    \cup {Message("Playlist", op, <<Index>>) : op \in {"Switch", "Clear", "Sync"}}
    \cup {Message("Playlist", op, <<Index, Pos>>) : op \in {"Select", "Play", "Remove"}}
    \cup {Message("Playlist", "Append", <<Index, Str>>),
          Message("Playlist", "Move", <<Index, Pos, Direct>>)}}

(* The call of its timer (StartSync).                                      *)
SyncRequest == Locked(<<Message("Player", "Sync", <<0>>)>>)

(* SendMediaItemsByChunk: the list in chunks.                              *)
SendMediaItemsByChunk(list) ==
  LET From(k) == (k - 1) * MEDIAITEMS_IN_CHUNK
      chunks == (Len(list) + MEDIAITEMS_IN_CHUNK - 1) \div MEDIAITEMS_IN_CHUNK
  IN [k \in 1 .. chunks |->
       Message("Playlist", "Append",
         <<Index, SubSeq(list, From(k) + 1, IF k < chunks THEN From(k + 1) ELSE Len(list))>>)]

SendMediaItemInfo == Message("Player", "ItemInfo", <<Item, Pos, Pos>>)

(* The replies of a session's handlers.                                    *)
SessionReplies ==
  LET sync == Message("Player", "Sync", <<1>>)
      progress == Message("Player", "ItemProgress", <<Pos, Index>>)
  IN {Locked(<<m>>) : m \in
       {Message("App", "Suffixes", <<<<<<Str>>, <<Str>>>>>>), sync,
        Message("Player", "Pause", <<>>), Message("Player", "Seek", <<>>),
        Message("Player", "Volume", <<Pos>>), Message("Player", "PlayMode", <<Str>>),
        Message("Player", "PlayNext", <<0>>)}}
     \cup {Locked(<<SendMediaItemInfo, Message("Player", "PlayNext", <<1>>)>>),
           Locked(<<progress, sync>>), Locked(<<SendMediaItemInfo, progress, sync>>),
           Locked(<<SendMediaItemInfo, Message("Playlist", "Play", <<Index, 1>>)>>),
           Locked(SendMediaItemsByChunk(<<Item, Item, Item>>)),
           Locked(SendMediaItemsByChunk(<<Item>>)
                  \o <<Message("Playlist", "Switch", <<Index>>),
                       Message("Playlist", "Select", <<Index, Pos>>)>>),
           Bare(Message("Playlist", "Remove", <<Index, Pos>>)),
           Bare(Message("Playlist", "Move", <<Index, Pos, Direct>>)),
           Bare(Message("Playlist", "Clear", <<Index>>))}

(* SlotPlayNextItem, from a thread of the player.                          *)
NextItem == Locked(<<SendMediaItemInfo>>)

-----------------------------------------------------------------------------
PutArg(b, type, v) ==
  CASE type = "strings" -> PutArray(b, <<"string">>, v)
    [] type = "items" -> PutList(b, ItemWritten, v)
    [] type = "item" -> PutAll(b, ItemWritten, v)
    [] OTHER -> PutValue(b, type, v)

TakeArg(b, type) ==
  CASE type = "strings" -> TakeArray(b, <<"string">>)
    [] type = "items" -> TakeList(b, ItemRead)
    [] type = "item" -> TakeAll(b, ItemRead)
    [] OTHER -> TakeValue(b, type)

(* The stream after << of SEND_PACKET: the op and its arguments.           *)
Stream(b, m) ==
  LET types == (IF end = "client" THEN Requests ELSE Replies)[m.group][m.op]
  IN FoldLeft(LAMBDA c, k : PutArg(c, types[k], m.args[k]),
       PutRaw(b, "char", Code(Op[m.group], m.op)), [k \in DOMAIN types |-> k])

HeaderSize == 4 + Size("char") + Size("int")

Write(group, payloadSize) ==
  PutRaw(PutRaw(PutChars(Buffer(Fresh(HeaderSize)), STR_MAGIC), "char", Code(Group, group)),
    "int", payloadSize).mem

-----------------------------------------------------------------------------
(* The thread of the user, or of the session; the others are of the timer  *)
(* or of the player.                                                       *)
Main == CHOOSE t \in Sender : TRUE

NoHeader == [group |-> 0, payloadSize |-> -1]

Init ==
  /\ end \in {"client", "session"}
  /\ \E one \in (IF end = "client" THEN UserRequests ELSE SessionReplies) :
       jobs = [t \in Sender |->
         IF t = Main THEN <<one>> ELSE IF end = "client" THEN <<SyncRequest>> ELSE <<NextItem>>]
  /\ stage = [t \in Sender |-> "idle"] /\ mutex = Nobody
  /\ out = <<>> /\ size = 0 /\ loose = {}
  /\ sent = [t \in Sender |-> [at |-> 0, rest |-> 0]]
  /\ stream = <<>> /\ got = <<>> /\ head = NoHeader
  /\ ended = FALSE /\ closed = "no" /\ killed = FALSE
  /\ meant = <<>> /\ delivered = <<>> /\ met = "no" /\ fault = FALSE /\ cuts = 0

Current(t) == jobs[t][1].messages[1]

(* Mutant of NeedsLock: only the timer locks.                              *)
NeedsLockTimer(t) == t # Main

NeedsLock(t) == IF end = "client" THEN TRUE ELSE jobs[t][1].locked

Using == {u \in Sender : stage[u] # "idle"}

(* GetPayloadBuffer.  What follows resize there never shrinks the buffer:  *)
(* its size is by then the one it is compared with.                        *)
GetPayloadBuffer(t) ==
  LET payloadSize == Stream(NoMemory, Current(t)).off
      totalSize == HeaderSize + payloadSize
      room == Max({Len(out), totalSize})
      resized == [i \in 1 .. room |-> IF i <= size THEN out[i] ELSE <<"char", 0, 1>>]
  IN /\ ~killed /\ ~fault /\ stage[t] = "idle" /\ jobs[t] # <<>>
     /\ NeedsLock(t) => mutex \in {Nobody, t}
     /\ mutex' = IF NeedsLock(t) THEN t ELSE mutex
     /\ out' = Put(Buffer(resized), Write(Current(t).group, payloadSize)).mem
     /\ size' = totalSize
     /\ loose' = IF room > Len(out) THEN loose \cup Using ELSE loose
     /\ stage' = [stage EXCEPT ![t] = "begun"]
     /\ meant' = Append(meant, Current(t))
     /\ met' = IF Using = {} \/ met = "bare" THEN met
               ELSE IF \A u \in Using \cup {t} : jobs[u][1].locked THEN "locked" ELSE "bare"
     /\ UNCHANGED <<end, jobs, sent, stream, receiver, closed, killed, fault, cuts>>

(* BufObj(buf) << ...: into memory that may have been freed meanwhile.     *)
Fill(t) ==
  LET filled == Stream([Buffer(out) EXCEPT !.off = HeaderSize], Current(t))
  IN /\ ~killed /\ ~fault /\ stage[t] = "begun"
     /\ fault' = (t \in loose \/ filled.over)
     /\ out' = IF t \in loose THEN out ELSE filled.mem
     /\ stage' = [stage EXCEPT ![t] = "filled"]
     /\ UNCHANGED <<end, jobs, mutex, size, loose, sent, stream, receiver, closed, killed, meant, met, cuts>>

(* SendOut: what SendN is called with.                                     *)
SendOut(t) ==
  /\ ~killed /\ ~fault /\ stage[t] = "filled"
  /\ stage' = [stage EXCEPT ![t] = "sending"]
  /\ sent' = [sent EXCEPT ![t] = [at |-> 0, rest |-> size]]
  /\ loose' = loose \ {t}
  /\ UNCHANGED <<end, jobs, mutex, out, size, stream, receiver, closed, killed, meant, met, fault, cuts>>

(* The job after its first message.                                        *)
Advance(t) ==
  LET job == jobs[t][1]
      last == Len(job.messages) = 1
  IN /\ stage' = [stage EXCEPT ![t] = "idle"]
     /\ jobs' = [jobs EXCEPT ![t] =
          IF last THEN Tail(jobs[t])
          ELSE <<[job EXCEPT !.messages = Tail(job.messages)]>> \o Tail(jobs[t])]
     /\ mutex' = IF mutex = t /\ last THEN Nobody ELSE mutex

(* One round of SendN: n bytes go, unless the buffer was freed.            *)
SendN(t, n) ==
  LET at == sent[t].at
      rest == sent[t].rest
  IN /\ ~killed /\ ~fault /\ stage[t] = "sending"
     /\ n \in 1 .. rest /\ (n < rest => n \in Short /\ cuts < CutBound)
     /\ closed # "sender"
     /\ cuts' = IF n < rest THEN cuts + 1 ELSE cuts
     /\ fault' = (t \in loose)
     /\ stream' = IF closed = "no" /\ t \notin loose
                  THEN stream \o SubSeq(out, at + 1, at + n) ELSE stream
     /\ sent' = [sent EXCEPT ![t] = [at |-> at + n, rest |-> rest - n]]
     /\ IF n = rest THEN Advance(t) ELSE UNCHANGED <<stage, jobs, mutex>>
     /\ UNCHANGED <<end, out, size, loose, receiver, closed, killed, meant, met>>

(* A send to a socket that either end has shut down raises SIGPIPE, which  *)
(* nobody handles; to one the other end closed, not always at once.        *)
Killed(t) ==
  /\ ~killed /\ ~fault /\ stage[t] = "sending" /\ closed # "no"
  /\ killed' = TRUE
  /\ UNCHANGED <<end, jobs, stage, buffer, sent, stream, receiver, closed, meant, met, fault, cuts>>

-----------------------------------------------------------------------------
(* What the handlers make of a payload: the op, and what it is read with.  *)
Handle(group, payload) ==
  LET first == TakeRaw(Buffer(payload), "char")
      name == Group[group]
      reads == (IF end = "client" THEN SessionReads ELSE ClientReads)[name]
      known == IsVaildEm(Op[name], first.val) /\ Op[name][first.val] \in DOMAIN reads
      op == Op[name][first.val]
      read ==
        FoldLeft(
          LAMBDA t, type :
            LET arg == TakeArg(t.buf, type) IN [buf |-> arg.buf, val |-> Append(t.val, arg.val)],
          [buf |-> first.buf, val |-> <<>>], reads[op])
  IN IF known THEN [messages |-> <<Message(name, op, read.val)>>, over |-> read.buf.over]
     ELSE [messages |-> <<>>, over |-> FALSE]

(* Header::Read; a bad header is skipped by the client and ends a session. *)
Header(cells) ==
  LET group == TakeRaw([Buffer(cells) EXCEPT !.off = 4], "char")
      magic == TakeChars(Buffer(cells), 4).val = STR_MAGIC
  IN IF magic /\ IsVaildEm(Group, group.val)
     THEN [group |-> group.val, payloadSize |-> TakeRaw(group.buf, "int").val] ELSE NoHeader

Missing == (IF head = NoHeader THEN HeaderSize ELSE head.payloadSize) - Len(got)

(* RecvN has all it was asked for.  A session that is asked to stop the    *)
(* service reads no further.                                               *)
Complete(cells) ==
  IF head = NoHeader
  THEN LET read == Header(cells)
       IN /\ head' = IF read.payloadSize > 0 THEN read ELSE NoHeader
          /\ ended' = (read = NoHeader /\ end = "client")
          /\ UNCHANGED <<delivered, fault>>
  ELSE LET handled == Handle(head.group, cells)
       IN /\ delivered' = delivered \o handled.messages
          /\ fault' = handled.over
          /\ head' = NoHeader
          /\ ended' = (\E m \in ToSet(handled.messages) : m.op = "StopService")

(* Mutant of RecvN: Recv once, and take what comes for all.                *)
RecvOnce(n) ==
  /\ ~ended /\ ~fault /\ n \in 1 .. Min({Missing, Len(stream)})
  /\ n < Min({Missing, Len(stream)}) => n \in Short /\ cuts < CutBound
  /\ cuts' = IF n < Min({Missing, Len(stream)}) THEN cuts + 1 ELSE cuts
  /\ stream' = SubSeq(stream, n + 1, Len(stream))
  /\ got' = <<>> /\ Complete(SubSeq(stream, 1, n))
  /\ UNCHANGED <<end, jobs, stage, buffer, sent, closed, killed, meant, met>>

(* One round of RecvN.                                                     *)
RecvN(n) ==
  LET cells == got \o SubSeq(stream, 1, n)
  IN /\ ~ended /\ ~fault /\ n \in 1 .. Min({Missing, Len(stream)})
     /\ n < Min({Missing, Len(stream)}) => n \in Short /\ cuts < CutBound
     /\ cuts' = IF n < Min({Missing, Len(stream)}) THEN cuts + 1 ELSE cuts
     /\ stream' = SubSeq(stream, n + 1, Len(stream))
     /\ IF n = Missing THEN got' = <<>> /\ Complete(cells)
        ELSE got' = cells /\ UNCHANGED <<head, ended, delivered, fault>>
     /\ UNCHANGED <<end, jobs, stage, buffer, sent, closed, killed, meant, met>>

(* Nothing more comes: RecvN fails, whatever it has.                       *)
EndOfStream ==
  /\ ~ended /\ stream = <<>> /\ (closed # "no" \/ killed)
  /\ ended' = TRUE
  /\ UNCHANGED <<end, jobs, stage, buffer, sent, stream, got, head, delivered, closed, killed, meant, met, fault, cuts>>

(* Stop, of the one end or the other.                                      *)
Shutdown(who) ==
  /\ closed = "no" /\ ~killed /\ ~fault /\ closed' = who
  /\ UNCHANGED <<end, jobs, stage, buffer, sent, stream, receiver, killed, meant, met, fault, cuts>>

Next ==
  \/ \E t \in Sender :
       \/ GetPayloadBuffer(t) \/ Fill(t) \/ SendOut(t) \/ Killed(t)
       \/ \E n \in 1 .. sent[t].rest : SendN(t, n)
  \/ \E n \in 1 .. Len(stream) : RecvN(n)
  \/ EndOfStream
  \/ \E who \in {"sender", "receiver"} : Shutdown(who)

Spec == Init /\ [][Next]_wire

-----------------------------------------------------------------------------
(* As long as no two threads used the send buffer at a time, the messages  *)
(* the other end's handlers see are the first of those that were sent,     *)
(* with the values they were sent with, however the bytes were cut and     *)
(* wherever the connection broke; nothing is written or read beyond a      *)
(* buffer; and when all is sent and received, none is missing.  Two threads*)
(* meet in the buffer only when a session replies to Remove, Move or Clear,*)
(* for which it has given its lock back: never in a client.                *)
WireInv ==
  /\ met = "no" =>
       /\ IsPrefix(delivered, meant) /\ ~fault
       /\ (closed = "no" /\ Using = {} /\ stream = <<>>) => delivered = meant
  /\ met # "locked"
  /\ met = "bare" => end = "session"

=============================================================================

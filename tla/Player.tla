------------------------------- MODULE Player -------------------------------
(***************************************************************************)
(* The playback engine of core/PlayerImpl.h: three threads around three    *)
(* mailboxes.                                                              *)
(*                                                                         *)
(*   control   the thread inside a Player call (Open, Play, Pause, Resume, *)
(*             Seek*, Close, the destructor).  Every application of the    *)
(*             repository makes its calls under one mutex of its own, so   *)
(*             there is one such thread at a time; pc is where it stands.  *)
(*   decoder   fills buffers: DecoderMailbox --DECODE--> OutputMailbox     *)
(*   output    plays buffers: OutputMailbox --OUTPUT--> DecoderMailbox     *)
(*                                                                         *)
(* BufferCount buffers circulate.  They are at home in BufferMailbox; Play *)
(* and Resume hand them out to the decoder, and a suspended or finished    *)
(* worker sends the ones it receives back home, which is what Pause waits  *)
(* for.  PROCEED, SUSPEND and QUIT are mails too: PROCEED is queued at the *)
(* back, SUSPEND and QUIT at the front.                                    *)
(*                                                                         *)
(* One step is one operation on a mailbox together with the accesses to    *)
(* thread-private data around it.  The indices and the codec are shared    *)
(* without a lock; that no two threads ever touch them together is not     *)
(* assumed here but stated by WorkersAtRest below.                         *)
(***************************************************************************)
EXTENDS Integers, Sequences

CONSTANTS
  BufferCount,   \* m_BufferCount: how many unit buffers circulate
  MaxUnit,       \* the longest track, in units
  Batch,         \* how many units one DecodeUnit may deliver
  MailBound,     \* bound: no call starts while a mailbox is longer than this
  FinisherBound  \* bound: no call starts while so many finishers are pending

ASSUME BufferCountAssumption == BufferCount \in Nat \ {0}
ASSUME MaxUnitAssumption == MaxUnit \in Nat
ASSUME BatchAssumption == Batch \subseteq Nat \ {0}
ASSUME BoundAssumption == MailBound \in Nat /\ FinisherBound \in Nat

VARIABLES
  status,          \* m_Status
  pc, op, target,  \* the control thread: where, in which call, seek position
  unitBeg, unitEnd,            \* the range being played, in units
  decoderIndex, outputIndex,   \* next unit to decode and to play
  total, codecPos,             \* the open decoder: its length and position
  content,                     \* the units each buffer holds
  decoderMailbox, outputMailbox, bufferMailbox,
  dPc, dStatus, dBuf,          \* the decoder thread
  oPc, oStatus, oBuf,          \* the output thread
  finishers                    \* detached threads about to emit SigFinished

control == <<status, pc, op, target>>
range   == <<unitBeg, unitEnd>>
codec   == <<total, codecPos>>
decoder == <<dPc, dStatus, dBuf>>
output  == <<oPc, oStatus, oBuf>>
vars == <<control, range, codec, decoderIndex, outputIndex, content,
          decoderMailbox, outputMailbox, bufferMailbox,
          decoder, output, finishers>>

-----------------------------------------------------------------------------

Buffer   == 1 .. BufferCount
NoBuffer == 0
Unit     == 0 .. MaxUnit

Token(action)     == [action |-> action, buffer |-> NoBuffer]
Mail(action, buf) == [action |-> action, buffer |-> buf]

Tokens      == [action : {"PROCEED", "SUSPEND", "QUIT"}, buffer : {NoBuffer}]
DecoderMail == Tokens \cup [action : {"DECODE"}, buffer : Buffer]
OutputMail  == Tokens \cup [action : {"OUTPUT"}, buffer : Buffer]
HomeMail    == [action : {"NONE", "DECODE", "OUTPUT"}, buffer : Buffer]

PushFront(mail, box) == <<mail>> \o box

(* The buffers among the mails of a mailbox. *)
Held(box) == {box[i].buffer : i \in DOMAIN box} \ {NoBuffer}

(* No buffer is anywhere but at home. *)
AllHome ==
  /\ Held(decoderMailbox) = {} /\ Held(outputMailbox) = {}
  /\ dBuf = NoBuffer /\ oBuf = NoBuffer

Init ==
  /\ status = "Closed" /\ pc = "idle" /\ op = "none" /\ target = 0
  /\ unitBeg = 0 /\ unitEnd = 0 /\ decoderIndex = 0 /\ outputIndex = 0
  /\ total = 0 /\ codecPos = 0
  /\ content = [b \in Buffer |-> [from |-> 0, count |-> 0]]
  /\ decoderMailbox = <<>> /\ outputMailbox = <<>> /\ bufferMailbox = <<>>
  /\ dPc = "take" /\ dStatus = "IDLE" /\ dBuf = NoBuffer
  /\ oPc = "take" /\ oStatus = "IDLE" /\ oBuf = NoBuffer
  /\ finishers = 0

-----------------------------------------------------------------------------
(* The control thread.                                                     *)

(* The caller's mutex is free, and the bounds of the model are respected.  *)
CallReady ==
  /\ pc = "idle"
  /\ Len(decoderMailbox) <= MailBound /\ Len(outputMailbox) <= MailBound
  /\ finishers <= FinisherBound

(* Open of a file of n units.  BufferMailbox is emptied, the memory of the *)
(* old buffers is freed and fresh, zeroed ones are put in.  The error      *)
(* returns leave the player as it was.                                     *)
Open(n) ==
  /\ CallReady /\ status = "Closed"
  /\ bufferMailbox' = [i \in Buffer |-> Mail("NONE", i)]
  /\ content' = [b \in Buffer |-> [from |-> 0, count |-> 0]]
  /\ total' = n /\ codecPos' = 0
  /\ status' = "Stopped"
  /\ UNCHANGED <<pc, op, target, range, decoderIndex, outputIndex,
                 decoderMailbox, outputMailbox, decoder, output, finishers>>

(* Play from beg to end, both clamped to the file; PlayRange up to the     *)
(* PROCEED for the output thread.                                          *)
Play(beg, end) ==
  /\ CallReady /\ status = "Stopped"
  /\ beg <= total /\ end <= total
  /\ unitBeg' = beg /\ unitEnd' = end /\ outputIndex' = beg
  /\ outputMailbox' = Append(outputMailbox, Token("PROCEED"))
  /\ pc' = "proceedDecoder" /\ op' = "Play"
  /\ UNCHANGED <<status, target, codec, decoderIndex, content, decoderMailbox,
                 bufferMailbox, decoder, output, finishers>>

Resume ==
  /\ CallReady /\ status = "Paused"
  /\ outputMailbox' = Append(outputMailbox, Token("PROCEED"))
  /\ pc' = "proceedDecoder" /\ op' = "Resume"
  /\ UNCHANGED <<status, target, range, codec, decoderIndex, outputIndex,
                 content, decoderMailbox, bufferMailbox, decoder, output,
                 finishers>>

(* Mutant of ProceedDecoder: the codec is not moved along with the index.  *)
ProceedUnsought ==
  /\ pc = "proceedDecoder"
  /\ decoderIndex' = outputIndex
  /\ decoderMailbox' = Append(decoderMailbox, Token("PROCEED"))
  /\ pc' = "handOut"
  /\ UNCHANGED <<status, op, target, range, codec, outputIndex, content,
                 outputMailbox, bufferMailbox, decoder, output, finishers>>

(* The rest of PlayRange and of Resume: both leave the decoder at the      *)
(* output's position.                                                      *)
ProceedDecoder ==
  /\ pc = "proceedDecoder"
  /\ decoderIndex' = outputIndex /\ codecPos' = outputIndex
  /\ decoderMailbox' = Append(decoderMailbox, Token("PROCEED"))
  /\ pc' = "handOut"
  /\ UNCHANGED <<status, op, target, range, total, outputIndex, content,
                 outputMailbox, bufferMailbox, decoder, output, finishers>>

(* One turn of the loop that hands the buffers at home to the decoder.     *)
(* Empty() is read without the lock; only this thread removes buffers, so  *)
(* what it reads is the state of the mailbox at some moment of the read.   *)
HandOut ==
  /\ pc = "handOut" /\ bufferMailbox # <<>>
  /\ decoderMailbox' =
       Append(decoderMailbox, Mail("DECODE", Head(bufferMailbox).buffer))
  /\ bufferMailbox' = Tail(bufferMailbox)
  /\ UNCHANGED <<control, range, codec, decoderIndex, outputIndex, content,
                 outputMailbox, decoder, output, finishers>>

HandOutDone ==
  /\ pc = "handOut" /\ bufferMailbox = <<>>
  /\ status' = "Playing" /\ pc' = "idle" /\ op' = "none"
  /\ UNCHANGED <<target, range, codec, decoderIndex, outputIndex, content,
                 decoderMailbox, outputMailbox, bufferMailbox, decoder,
                 output, finishers>>

(* A call that begins with Pause: Pause itself, a seek while playing, and  *)
(* Close or the destructor unless the player is already paused.            *)
StartPausing(call) ==
  /\ pc' = "suspendDecoder" /\ op' = call
  /\ UNCHANGED <<status, range, codec, decoderIndex, outputIndex, content,
                 decoderMailbox, outputMailbox, bufferMailbox, decoder,
                 output, finishers>>

Pause ==
  /\ CallReady /\ status = "Playing"
  /\ StartPausing("Pause") /\ UNCHANGED target

SuspendDecoder ==
  /\ pc = "suspendDecoder"
  /\ decoderMailbox' = PushFront(Token("SUSPEND"), decoderMailbox)
  /\ pc' = "suspendOutput"
  /\ UNCHANGED <<status, op, target, range, codec, decoderIndex, outputIndex,
                 content, outputMailbox, bufferMailbox, decoder, output,
                 finishers>>

SuspendOutput ==
  /\ pc = "suspendOutput"
  /\ outputMailbox' = PushFront(Token("SUSPEND"), outputMailbox)
  /\ pc' = "waitBuffers"
  /\ UNCHANGED <<status, op, target, range, codec, decoderIndex, outputIndex,
                 content, decoderMailbox, bufferMailbox, decoder, output,
                 finishers>>

(* Mutant of BuffersBack: waits for one buffer too few.                    *)
BuffersBackEarly == pc = "waitBuffers" /\ Len(bufferMailbox) >= BufferCount - 1

(* m_BufferMailbox.Wait(m_BufferCount) returns; the call goes on with what *)
(* follows its Pause.                                                      *)
BuffersBack == pc = "waitBuffers" /\ Len(bufferMailbox) >= BufferCount

Paused ==
  /\ BuffersBack /\ op = "Pause"
  /\ status' = "Paused" /\ pc' = "idle" /\ op' = "none"
  /\ UNCHANGED <<target, range, codec, decoderIndex, outputIndex, content,
                 decoderMailbox, outputMailbox, bufferMailbox, decoder,
                 output, finishers>>

(* DoSeekUnit, and the clamp of DoSeekTime to the file.                    *)
ClampToRange(unit) ==
  IF unit < unitBeg THEN unitBeg ELSE IF unit > unitEnd THEN unitEnd ELSE unit

DoSeekUnit(unit) ==
  /\ codecPos' = ClampToRange(unit)
  /\ decoderIndex' = ClampToRange(unit) /\ outputIndex' = ClampToRange(unit)

SeekInPlace(unit) ==
  /\ CallReady /\ status \in {"Paused", "Stopped"}
  /\ unit <= total
  /\ DoSeekUnit(unit)
  /\ UNCHANGED <<control, range, total, content, decoderMailbox,
                 outputMailbox, bufferMailbox, decoder, output, finishers>>

SeekPlaying(unit) ==
  /\ CallReady /\ status = "Playing"
  /\ unit <= total /\ target' = unit
  /\ StartPausing("Seek")

(* The seek after its Pause, up to the first line of its Resume.           *)
SeekPaused ==
  /\ BuffersBack /\ op = "Seek"
  /\ status' = "Paused"
  /\ DoSeekUnit(target)
  /\ outputMailbox' = Append(outputMailbox, Token("PROCEED"))
  /\ pc' = "proceedDecoder" /\ op' = "Resume" /\ target' = 0
  /\ UNCHANGED <<range, total, content, decoderMailbox, bufferMailbox,
                 decoder, output, finishers>>

(* What Close does once the player is paused.  The destructor goes on.     *)
CloseDecoder(call) ==
  /\ total' = 0 /\ codecPos' = 0
  /\ status' = "Closed"
  /\ pc' = IF call = "Close" THEN "idle" ELSE "quitDecoder"
  /\ op' = IF call = "Close" THEN "none" ELSE call
  /\ UNCHANGED <<target, range, decoderIndex, outputIndex, content,
                 decoderMailbox, outputMailbox, bufferMailbox, decoder,
                 output, finishers>>

Close ==
  /\ CallReady
  /\ \/ status \in {"Playing", "Stopped"} /\ StartPausing("Close")
                                          /\ UNCHANGED target
     \/ status = "Paused" /\ CloseDecoder("Close")

Destroy ==
  /\ CallReady
  /\ \/ status \in {"Playing", "Stopped"} /\ StartPausing("Destroy")
                                          /\ UNCHANGED target
     \/ status \in {"Paused", "Closed"} /\ CloseDecoder("Destroy")

Closed ==
  /\ BuffersBack /\ op \in {"Close", "Destroy"}
  /\ CloseDecoder(op)

(* The destructor after its Close: QUIT to both threads, join, Clear.      *)
QuitDecoder ==
  /\ pc = "quitDecoder"
  /\ decoderMailbox' = PushFront(Token("QUIT"), decoderMailbox)
  /\ pc' = "quitOutput"
  /\ UNCHANGED <<status, op, target, range, codec, decoderIndex, outputIndex,
                 content, outputMailbox, bufferMailbox, decoder, output,
                 finishers>>

QuitOutput ==
  /\ pc = "quitOutput"
  /\ outputMailbox' = PushFront(Token("QUIT"), outputMailbox)
  /\ pc' = "join"
  /\ UNCHANGED <<status, op, target, range, codec, decoderIndex, outputIndex,
                 content, decoderMailbox, bufferMailbox, decoder, output,
                 finishers>>

Join ==
  /\ pc = "join" /\ dPc = "exit" /\ oPc = "exit"
  /\ bufferMailbox' = <<>>
  /\ pc' = "dead" /\ op' = "none"
  /\ UNCHANGED <<status, target, range, codec, decoderIndex, outputIndex,
                 content, decoderMailbox, outputMailbox, decoder, output,
                 finishers>>

Control ==
  \/ \E n \in Unit : Open(n)
  \/ \E beg, end \in Unit : Play(beg, end)
  \/ \E unit \in Unit : SeekInPlace(unit) \/ SeekPlaying(unit)
  \/ Resume \/ ProceedDecoder \/ HandOut \/ HandOutDone
  \/ Pause \/ SuspendDecoder \/ SuspendOutput \/ Paused \/ SeekPaused
  \/ Close \/ Destroy \/ Closed \/ QuitDecoder \/ QuitOutput \/ Join

-----------------------------------------------------------------------------
(* The decoder thread.                                                     *)

(* Take a mail; all but DECODE are served at once.  A PROCEED for a        *)
(* running thread is the "unexpected" case and changes nothing.            *)
DecoderTake ==
  /\ dPc = "take" /\ decoderMailbox # <<>>
  /\ decoderMailbox' = Tail(decoderMailbox)
  /\ LET mail == Head(decoderMailbox) IN
       \/ mail.action = "QUIT"    /\ dPc' = "exit" /\ UNCHANGED <<dStatus, dBuf>>
       \/ mail.action = "PROCEED" /\ dStatus' = "RUNNING" /\ UNCHANGED <<dPc, dBuf>>
       \/ mail.action = "SUSPEND" /\ dStatus' = "IDLE" /\ UNCHANGED <<dPc, dBuf>>
       \/ mail.action = "DECODE"  /\ dPc' = "hold" /\ dBuf' = mail.buffer
                                  /\ UNCHANGED dStatus
  /\ UNCHANGED <<control, range, codec, decoderIndex, outputIndex, content,
                 outputMailbox, bufferMailbox, output, finishers>>

(* Idle, or the range is decoded: the buffer goes home.                    *)
DecoderBounce ==
  /\ dPc = "hold" /\ (dStatus = "IDLE" \/ decoderIndex >= unitEnd)
  /\ bufferMailbox' = Append(bufferMailbox, Mail("DECODE", dBuf))
  /\ dPc' = "take" /\ dBuf' = NoBuffer
  /\ UNCHANGED <<control, range, codec, decoderIndex, outputIndex, content,
                 decoderMailbox, outputMailbox, dStatus, output, finishers>>

(* Mutant of Decode: the thread stops one unit before the end.             *)
DecodeShort(n) ==
  LET units == IF codecPos + n > total THEN total - codecPos ELSE n IN
  /\ dPc = "hold" /\ dStatus = "RUNNING" /\ decoderIndex < unitEnd
  /\ content' = [content EXCEPT ![dBuf] = [from |-> codecPos, count |-> units]]
  /\ codecPos' = codecPos + units
  /\ decoderIndex' = decoderIndex + units
  /\ dStatus' = IF decoderIndex' >= unitEnd - 1 THEN "IDLE" ELSE "RUNNING"
  /\ dPc' = "send"
  /\ UNCHANGED <<control, range, total, outputIndex, decoderMailbox,
                 outputMailbox, bufferMailbox, dBuf, output, finishers>>

(* DecodeUnit reads up to n units at the codec's position, fewer at the    *)
(* end of the file.                                                        *)
Decode(n) ==
  LET units == IF codecPos + n > total THEN total - codecPos ELSE n IN
  /\ dPc = "hold" /\ dStatus = "RUNNING" /\ decoderIndex < unitEnd
  /\ content' = [content EXCEPT ![dBuf] = [from |-> codecPos, count |-> units]]
  /\ codecPos' = codecPos + units
  /\ decoderIndex' = decoderIndex + units
  /\ dStatus' = IF decoderIndex' >= unitEnd THEN "IDLE" ELSE "RUNNING"
  /\ dPc' = "send"
  /\ UNCHANGED <<control, range, total, outputIndex, decoderMailbox,
                 outputMailbox, bufferMailbox, dBuf, output, finishers>>

DecoderSend ==
  /\ dPc = "send"
  /\ outputMailbox' = Append(outputMailbox, Mail("OUTPUT", dBuf))
  /\ dPc' = "take" /\ dBuf' = NoBuffer
  /\ UNCHANGED <<control, range, codec, decoderIndex, outputIndex, content,
                 decoderMailbox, bufferMailbox, dStatus, output, finishers>>

DecoderThread ==
  DecoderTake \/ DecoderBounce \/ (\E n \in Batch : Decode(n)) \/ DecoderSend

-----------------------------------------------------------------------------
(* The output thread.                                                      *)

OutputTake ==
  /\ oPc = "take" /\ outputMailbox # <<>>
  /\ outputMailbox' = Tail(outputMailbox)
  /\ LET mail == Head(outputMailbox) IN
       \/ mail.action = "QUIT"    /\ oPc' = "exit" /\ UNCHANGED <<oStatus, oBuf>>
       \/ mail.action = "PROCEED" /\ oStatus' = "RUNNING" /\ UNCHANGED <<oPc, oBuf>>
       \/ mail.action = "SUSPEND" /\ oStatus' = "IDLE" /\ UNCHANGED <<oPc, oBuf>>
       \/ mail.action = "OUTPUT"  /\ oPc' = "hold" /\ oBuf' = mail.buffer
                                  /\ UNCHANGED oStatus
  /\ UNCHANGED <<control, range, codec, decoderIndex, outputIndex, content,
                 decoderMailbox, bufferMailbox, decoder, finishers>>

(* Mutant of OutputBounce: the buffer is dropped.                          *)
OutputBounceDrops ==
  /\ oPc = "hold" /\ (oStatus = "IDLE" \/ outputIndex >= unitEnd)
  /\ oPc' = "take" /\ oBuf' = NoBuffer
  /\ UNCHANGED <<control, range, codec, decoderIndex, outputIndex, content,
                 decoderMailbox, outputMailbox, bufferMailbox, oStatus, decoder,
                 finishers>>

OutputBounce ==
  /\ oPc = "hold" /\ (oStatus = "IDLE" \/ outputIndex >= unitEnd)
  /\ bufferMailbox' = Append(bufferMailbox, Mail("OUTPUT", oBuf))
  /\ oPc' = "take" /\ oBuf' = NoBuffer
  /\ UNCHANGED <<control, range, codec, decoderIndex, outputIndex, content,
                 decoderMailbox, outputMailbox, oStatus, decoder, finishers>>

(* Mutants of Write: one unit counted for a whole buffer; the end of the   *)
(* range signalled a unit early.                                           *)
WriteUntil(units, last) ==
  /\ oPc = "hold" /\ oStatus = "RUNNING" /\ outputIndex < unitEnd
  /\ outputIndex' = outputIndex + units
  /\ IF outputIndex' >= last
       THEN oStatus' = "IDLE" /\ finishers' = finishers + 1
       ELSE UNCHANGED <<oStatus, finishers>>
  /\ oPc' = "send"
  /\ UNCHANGED <<control, range, codec, decoderIndex, content, decoderMailbox,
                 outputMailbox, bufferMailbox, oBuf, decoder>>
WriteOne   == WriteUntil(1, unitEnd)
WriteEarly == WriteUntil(content[oBuf].count, unitEnd - 1)

(* Write the buffer to the device.  A failed Write sleeps for as long as   *)
(* the buffer lasts and counts as played.  The one that reaches the end of *)
(* the range stops the thread and detaches a finisher.                     *)
Write ==
  /\ oPc = "hold" /\ oStatus = "RUNNING" /\ outputIndex < unitEnd
  /\ outputIndex' = outputIndex + content[oBuf].count
  /\ IF outputIndex' >= unitEnd
       THEN oStatus' = "IDLE" /\ finishers' = finishers + 1
       ELSE UNCHANGED <<oStatus, finishers>>
  /\ oPc' = "send"
  /\ UNCHANGED <<control, range, codec, decoderIndex, content, decoderMailbox,
                 outputMailbox, bufferMailbox, oBuf, decoder>>

OutputSend ==
  /\ oPc = "send"
  /\ decoderMailbox' = Append(decoderMailbox, Mail("DECODE", oBuf))
  /\ oPc' = "take" /\ oBuf' = NoBuffer
  /\ UNCHANGED <<control, range, codec, decoderIndex, outputIndex, content,
                 outputMailbox, bufferMailbox, oStatus, decoder, finishers>>

OutputThread == OutputTake \/ OutputBounce \/ Write \/ OutputSend

-----------------------------------------------------------------------------

(* A finisher gets the caller's mutex and runs the slot bound to           *)
(* SigFinished; the Player calls the slot makes are calls like any other.  *)
Finished ==
  /\ finishers > 0 /\ pc = "idle"
  /\ finishers' = finishers - 1
  /\ UNCHANGED <<control, range, codec, decoderIndex, outputIndex, content,
                 decoderMailbox, outputMailbox, bufferMailbox, decoder, output>>

Next == Control \/ DecoderThread \/ OutputThread \/ Finished

Spec == Init /\ [][Next]_vars

(* The two threads are created by the constructor and always scheduled; a  *)
(* call in progress goes on.  Nobody has to make another call.             *)
InCall == ProceedDecoder \/ HandOut \/ HandOutDone \/ SuspendDecoder
          \/ SuspendOutput \/ Paused \/ SeekPaused \/ Closed \/ QuitDecoder
          \/ QuitOutput \/ Join

FairSpec == Spec /\ WF_vars(DecoderThread) /\ WF_vars(OutputThread)
                 /\ WF_vars(InCall)
-----------------------------------------------------------------------------
(* Properties.                                                             *)

(* Every variable stays in its domain; the mailboxes hold only the mails   *)
(* their thread has a case for.                                            *)
TypeOK ==
  /\ status \in {"Closed", "Stopped", "Playing", "Paused"}
  /\ pc \in {"idle", "proceedDecoder", "handOut", "suspendDecoder",
             "suspendOutput", "waitBuffers", "quitDecoder", "quitOutput",
             "join", "dead"}
  /\ op \in {"none", "Play", "Resume", "Pause", "Seek", "Close", "Destroy"}
  /\ target \in Unit
  /\ unitBeg \in Unit /\ unitEnd \in Unit
  /\ decoderIndex \in Nat /\ outputIndex \in Nat
  /\ total \in Unit /\ codecPos \in Nat
  /\ content \in [Buffer -> [from : Nat, count : Nat]]
  /\ decoderMailbox \in Seq(DecoderMail)
  /\ outputMailbox \in Seq(OutputMail)
  /\ bufferMailbox \in Seq(HomeMail)
  /\ dPc \in {"take", "hold", "send", "exit"} /\ dStatus \in {"IDLE", "RUNNING"}
  /\ dBuf \in Buffer \cup {NoBuffer}
  /\ oPc \in {"take", "hold", "send", "exit"} /\ oStatus \in {"IDLE", "RUNNING"}
  /\ oBuf \in Buffer \cup {NoBuffer}
  /\ finishers \in Nat

(* Where the control thread touches what the workers share with it without *)
(* a lock: between calls unless it plays, in Play, Resume and a seek before*)
(* buffers are handed out, after the wait of Pause, and in the destructor. *)
ControlOwns ==
  \/ pc = "idle" /\ status # "Playing"
  \/ pc = "proceedDecoder" \/ BuffersBack
  \/ pc \in {"quitDecoder", "quitOutput", "join", "dead"}

(* Whenever the control thread may touch the indices, the codec or the     *)
(* memory of the buffers, no buffer is with a worker or on its way to one: *)
(* Close never closes a decoder that is decoding, Open never frees memory  *)
(* that is being filled or played, a seek never races with the indices.    *)
WorkersAtRest == ControlOwns => AllHome

(* No two mails of a mailbox carry the same buffer.                        *)
Distinct(box) ==
  \A i, j \in DOMAIN box :
    box[i].buffer = box[j].buffer /\ box[i].buffer # NoBuffer => i = j

(* No buffer is in two places, however suspensions and ends of range       *)
(* interleave: never handed out twice, never home and under way.           *)
NoDuplicate ==
  /\ Distinct(decoderMailbox) /\ Distinct(outputMailbox) /\ Distinct(bufferMailbox)
  /\ Held(decoderMailbox) \cap Held(outputMailbox) = {}
  /\ Held(decoderMailbox) \cap Held(bufferMailbox) = {}
  /\ Held(outputMailbox) \cap Held(bufferMailbox) = {}
  /\ dBuf \notin Held(decoderMailbox) \cup Held(outputMailbox) \cup Held(bufferMailbox)
  /\ oBuf \notin Held(decoderMailbox) \cup Held(outputMailbox) \cup Held(bufferMailbox)
  /\ dBuf = oBuf => dBuf = NoBuffer

(* No buffer of an open player is lost: Pause could not get it back.       *)
NoneLost ==
  status # "Closed" =>
    Buffer \subseteq Held(decoderMailbox) \cup Held(outputMailbox)
                      \cup Held(bufferMailbox) \cup {dBuf, oBuf}

(* What the output thread plays is the unit at its own index: no unit of   *)
(* the range is skipped or played twice, across pauses and seeks.          *)
PlaysInOrder ==
  oPc = "hold" /\ oStatus = "RUNNING" /\ outputIndex < unitEnd
    => content[oBuf].from = outputIndex

(* The end is signalled only when all that was decoded was played: no      *)
(* decoded buffer of the range is still under way when SigFinished fires.  *)
FinishAfterLast ==
  [][finishers' > finishers => outputIndex' = decoderIndex]_vars

(* Between calls a player that does not play holds still: no index, codec  *)
(* position or buffer content changes but by a call.                       *)
HoldsStill ==
  [][(pc = "idle" /\ status # "Playing" /\ (DecoderThread \/ OutputThread))
       => UNCHANGED <<decoderIndex, outputIndex, codec, content, bufferMailbox>>]_vars

(* Pause, and every call that begins with it, gets its buffers back.       *)
PauseReturns == pc = "waitBuffers" ~> pc # "waitBuffers"

(* The destructor's joins return.                                          *)
JoinReturns == pc = "join" ~> pc = "dead"

(* Every call returns.                                                     *)
CallsReturn == PauseReturns /\ JoinReturns

(* Left alone, a player inside its range plays to the end of it.           *)
PlaysToEnd ==
  (pc = "idle" /\ status = "Playing" /\ outputIndex < unitEnd)
    ~> (pc # "idle" \/ outputIndex >= unitEnd)

(* What the help screen promises of the pause key: once the output thread  *)
(* has taken the SUSPEND of a Pause that waits, it plays nothing more.     *)
PauseStops ==
  [][Write => ~(/\ pc = "waitBuffers" /\ op = "Pause"
                /\ \A i \in DOMAIN outputMailbox :
                     outputMailbox[i].action # "SUSPEND")]_vars

(* What the calls in progress amount to for the caller: Play and Resume    *)
(* take effect where they begin, the other calls where they end.           *)
CallStatus == IF pc \in {"proceedDecoder", "handOut"} THEN "Playing" ELSE status

Promise == INSTANCE Playback WITH
  status <- CallStatus,
  left   <- CallStatus \in {"Playing", "Paused"} /\ outputIndex < unitEnd

(* The player is a Playback: with all its threads and mailboxes a paused,  *)
(* stopped or closed player never plays out and never signals a finish,    *)
(* and one that plays signals it once each time it gets to the end.        *)
ImplementsPlayback == Promise!Spec
-----------------------------------------------------------------------------
(* The inductive invariant behind the properties.                          *)

(* Buffers can be under way: between the first buffer handed out and the   *)
(* end of the Pause that calls them back.                                  *)
Flowing == status = "Playing" \/ pc = "handOut"

CallShape ==
  /\ pc \in {"proceedDecoder", "handOut"} => status \in {"Stopped", "Paused"}
  /\ pc \in {"suspendDecoder", "suspendOutput", "waitBuffers"}
       => status = "Playing" \/ op \in {"Close", "Destroy"}
  /\ pc \in {"quitDecoder", "quitOutput", "join", "dead"} => status = "Closed"
  /\ ~Flowing => AllHome

(* What is decoded is inside the file.                                     *)
InFile ==
  /\ status \in {"Playing", "Paused"} \/ pc \in {"proceedDecoder", "handOut"}
       => unitEnd <= total
  /\ Flowing => codecPos = decoderIndex

HandShape ==
  /\ dBuf # NoBuffer <=> dPc \in {"hold", "send"}
  /\ oBuf # NoBuffer <=> oPc \in {"hold", "send"}

SafeInv == TypeOK /\ CallShape /\ InFile /\ HandShape /\ NoDuplicate /\ NoneLost

(* The output thread plays, or will when it gets to a queued PROCEED.      *)
MayPlay == oStatus = "RUNNING"
           \/ \E i \in DOMAIN outputMailbox : outputMailbox[i].action = "PROCEED"

IsOutput(i) == outputMailbox[i].action = "OUTPUT"
First(b)    == content[b].from
End(b)      == content[b].from + content[b].count

(* The unit that follows what the output thread has in hand, and the unit  *)
(* the decoder has in hand or decodes next.                                *)
AfterOutput   == IF oPc = "hold" THEN End(oBuf) ELSE outputIndex
BeforeDecoder == IF dPc = "send" THEN First(dBuf) ELSE decoderIndex

(* The buffers under way hold consecutive units, from the output index to  *)
(* the decoder's, all of them inside the range: at the decoder's end, from *)
(* buffer to buffer in the mailbox, in the output thread's hand, and at    *)
(* the output's end unless that thread plays no more before it is resumed. *)
DecoderEnd ==
  dPc = "send" => End(dBuf) = decoderIndex /\ First(dBuf) < unitEnd

Links ==
  \A i \in DOMAIN outputMailbox : IsOutput(i) =>
    /\ First(outputMailbox[i].buffer) < unitEnd
    /\ \A j \in DOMAIN outputMailbox : i < j => IsOutput(j)
    /\ i + 1 \in DOMAIN outputMailbox =>
         First(outputMailbox[i + 1].buffer) = End(outputMailbox[i].buffer)
    /\ i + 1 \notin DOMAIN outputMailbox =>
         End(outputMailbox[i].buffer) = BeforeDecoder

OutputHand ==
  oBuf # NoBuffer =>
    /\ \A i \in DOMAIN outputMailbox : outputMailbox[i].action # "PROCEED"
    /\ oPc = "hold" => First(oBuf) < unitEnd /\ (MayPlay => First(oBuf) = outputIndex)

OutputEnd ==
  MayPlay \/ oPc = "hold" =>
    /\ \A i \in DOMAIN outputMailbox :
         IsOutput(i) /\ (\A j \in DOMAIN outputMailbox : j < i => ~IsOutput(j))
           => First(outputMailbox[i].buffer) = AfterOutput
    /\ (\A i \in DOMAIN outputMailbox : ~IsOutput(i)) => AfterOutput = BeforeDecoder

Chained == DecoderEnd /\ Links /\ OutputHand /\ OutputEnd

OrderInv == Flowing => Chained

PlayerInv == SafeInv /\ OrderInv
=============================================================================

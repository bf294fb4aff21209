----------------------------- MODULE Conversion -----------------------------
\* Conversion::Impl, the worker that decodes an item and feeds an encoder
\* (core/ConversionImpl.h), with the plug-ins of Codecs below it and
\* the task dialog of the Qt application above it (apps/qt5/DlgConvertTask.cpp).
\* The dialog lives on the UI thread; each conversion has a thread of its own,
\* and shares with the dialog the flags m_Finished and m_Canceled.
EXTENDS Codecs, FiniteSets, SequencesExt

CONSTANTS Task,         \* the conversions the user may start, each once
          Chosen        \* what each may be of

NoEnd == -1             \* msEnd of the last track of a sheet
Whole == [has |-> FALSE, beg |-> 0, end |-> NoEnd]

Extent == {Whole} \cup [has : {TRUE}, beg : Nat, end : Nat \cup {NoEnd}]

\* An item: the file, and the range of it in milliseconds; and where it goes.
Item == [kind : Kinds, count : Nat, bad : SUBSET Nat, range : Extent,
         to : EncoderKinds, room : Nat]

ASSUME ConversionAssumption ==
    /\ MaxRun \in Nat \ {0} /\ MaxHeld \in Nat
    /\ IsFiniteSet(Task) /\ \A t \in Task : Chosen[t] \subseteq Item

VARIABLES conv,         \* the conversions
          list,         \* the tasks the dialog shows, newest first
          timer,        \* m_ProgressTimer runs
          ui            \* what the UI thread is doing

vars == <<conv, list, timer, ui>>

Least(a, b) == IF a < b THEN a ELSE b

\* unitPerMs: a frame lasts two milliseconds, a millisecond two samples.
UnitsOf(kind, ms) == IF kind \in Frames THEN ms \div 2 ELSE 2 * ms

UnitBeg(i) ==
    IF i.range.has THEN Least(UnitsOf(i.kind, i.range.beg), i.count) ELSE 0

\* An open end is taken for the unit count, and that for milliseconds.
UnitEnd(i) ==
    IF i.range.has
    THEN Least(UnitsOf(i.kind, IF i.range.end # NoEnd THEN i.range.end ELSE i.count),
               i.count)
    ELSE i.count

-----------------------------------------------------------------------------
Nothing == [kind |-> "lpcm", count |-> 0, bad |-> {}, range |-> Whole,
            to |-> "lpcm", room |-> 0]

Fresh(i, pc) ==
    [pc |-> pc, item |-> i, dec |-> Closed(i.kind, i.count, i.bad),
     enc |-> NoOutput(i.to, i.room), off |-> 0, buf |-> <<>>, cnt |-> 0,
     failed |-> FALSE, finished |-> pc = "none", canceled |-> FALSE]

Idle == [pc |-> "idle", task |-> {}, i |-> 0]

Init == /\ conv = [t \in Task |-> Fresh(Nothing, "none")]
        /\ list = <<>>
        /\ timer = FALSE
        /\ ui = Idle

TypeOK ==
    /\ \A t \in Task :
         /\ conv[t].pc \in {"none", "open", "output", "seek", "loop", "close",
                            "finish", "exit", "joinable"}
         /\ conv[t].dec \in Decoder
         /\ conv[t].off \in Nat /\ conv[t].cnt \in Nat
         /\ conv[t].enc \in Encoder /\ conv[t].buf \in Seq(Nat)
         /\ {conv[t].failed, conv[t].finished, conv[t].canceled}
              \subseteq BOOLEAN
    /\ list \in Seq(Task) /\ IsInjective(list)
    /\ timer \in BOOLEAN
    /\ ui.pc \in {"idle", "update", "join"} /\ ui.task \subseteq Task
    /\ ui.i \in 0 .. Cardinality(Task) + 2

-----------------------------------------------------------------------------
\* The worker.

OpenDecoder(t) ==
    /\ conv[t].pc = "open"
    /\ \E a \in Open(conv[t].dec) :
         conv' = [conv EXCEPT ![t] = [@ EXCEPT !.dec = a.dec,
                    !.pc = IF a.ok THEN "output" ELSE "finish", !.failed = ~a.ok]]
    /\ UNCHANGED <<list, timer, ui>>

\* A failure leaves the decoder open.
OpenOutput(t) ==
    /\ conv[t].pc = "output"
    /\ \E a \in OpenFile(conv[t].enc) :
         conv' = [conv EXCEPT ![t] = [@ EXCEPT !.enc = a.enc,
                    !.pc = IF a.ok THEN "seek" ELSE "finish", !.failed = ~a.ok]]
    /\ UNCHANGED <<list, timer, ui>>

\* Mutant of SetRange: the decoder stays where opening it left it.
SetRangeOnly(t) ==
    /\ conv[t].pc = "seek"
    /\ conv' = [conv EXCEPT ![t].off = UnitBeg(conv[t].item), ![t].pc = "loop"]
    /\ UNCHANGED <<list, timer, ui>>

\* The answer of SetUnitIndex is not looked at.
SetRange(t) ==
    /\ conv[t].pc = "seek"
    /\ \E d \in SetUnitIndex(conv[t].dec, UnitBeg(conv[t].item)) :
         conv' = [conv EXCEPT ![t] = [@ EXCEPT !.dec = d,
                    !.off = UnitBeg(conv[t].item), !.pc = "loop"]]
    /\ UNCHANGED <<list, timer, ui>>

\* One turn of the loop; neither answer is looked at, and what DecodeUnit does
\* not write is what the turn before left.
Transcode(t) ==
    /\ conv[t].pc = "loop"
    /\ conv[t].off < UnitEnd(conv[t].item) /\ ~conv[t].canceled
    /\ \E a \in DecodeUnit(conv[t].dec, conv[t].buf, conv[t].cnt) :
         \E e \in Encode(conv[t].enc, a.buf) :
           conv' = [conv EXCEPT ![t] = [@ EXCEPT !.dec = a.dec, !.buf = a.buf,
                      !.cnt = a.count, !.enc = e,
                      !.off = conv[t].off + a.count]]
    /\ UNCHANGED <<list, timer, ui>>

\* Mutant of LeaveLoop: only the end of the range ends the loop.
LeaveLoopDeaf(t) ==
    /\ conv[t].pc = "loop"
    /\ conv[t].off >= UnitEnd(conv[t].item)
    /\ conv' = [conv EXCEPT ![t].pc = "close"]
    /\ UNCHANGED <<list, timer, ui>>

LeaveLoop(t) ==
    /\ conv[t].pc = "loop"
    /\ conv[t].off >= UnitEnd(conv[t].item) \/ conv[t].canceled
    /\ conv' = [conv EXCEPT ![t].pc = "close"]
    /\ UNCHANGED <<list, timer, ui>>

\* Mutant of CloseBoth: the encoder is not flushed.
CloseBothUnflushed(t) ==
    /\ conv[t].pc = "close"
    /\ conv' = [conv EXCEPT ![t].enc = CloseOutput(@), ![t].dec = Close(@),
                            ![t].pc = "finish"]
    /\ UNCHANGED <<list, timer, ui>>

CloseBoth(t) ==
    /\ conv[t].pc = "close"
    /\ conv' = [conv EXCEPT ![t] = [@ EXCEPT !.enc = CloseOutput(Flush(conv[t].enc)),
                                    !.dec = Close(conv[t].dec), !.pc = "finish"]]
    /\ UNCHANGED <<list, timer, ui>>

Finish(t) ==
    /\ conv[t].pc = "finish"
    /\ conv' = [conv EXCEPT ![t] = [@ EXCEPT !.finished = TRUE, !.pc = "exit"]]
    /\ UNCHANGED <<list, timer, ui>>

Exit(t) ==
    /\ conv[t].pc = "exit"
    /\ conv' = [conv EXCEPT ![t].pc = "joinable"]
    /\ UNCHANGED <<list, timer, ui>>

Worker(t) == \/ OpenDecoder(t) \/ OpenOutput(t) \/ SetRange(t) \/ Transcode(t)
             \/ LeaveLoop(t) \/ CloseBoth(t) \/ Finish(t) \/ Exit(t)

-----------------------------------------------------------------------------
\* The dialog.

\* Run, with the flags of a new conversion.
AddTask(t, i) ==
    /\ ui.pc = "idle" /\ conv[t].pc = "none"
    /\ conv' = [conv EXCEPT ![t] = [Fresh(i, "open") EXCEPT !.finished = FALSE]]
    /\ list' = <<t>> \o list
    /\ timer' = TRUE
    /\ UNCHANGED ui

\* The first half of Cancel; the second is the join.
Canceled(t) == [conv EXCEPT ![t].canceled = TRUE]

SlotCancelTask(t) ==
    /\ ui.pc = "idle" /\ Contains(list, t)
    /\ conv' = Canceled(t)
    /\ ui' = [pc |-> "join", task |-> {t}, i |-> 0]
    /\ UNCHANGED <<list, timer>>

\* Mutant of SlotUpdateProgress: the loop starts at the second row.
SlotUpdateProgressFromTwo ==
    /\ ui.pc = "idle" /\ timer
    /\ ui' = [pc |-> "update", task |-> {}, i |-> 2]
    /\ UNCHANGED <<conv, list, timer>>

\* The timer's tick.
SlotUpdateProgress ==
    /\ ui.pc = "idle" /\ timer
    /\ ui' = [pc |-> "update", task |-> {}, i |-> 1]
    /\ UNCHANGED <<conv, list, timer>>

\* The bar of one row; a finished one goes with the conversion's last owner,
\* whose destructor cancels and joins.
UpdateRow ==
    /\ ui.pc = "update" /\ ui.i <= Len(list)
    /\ LET t == list[ui.i] IN
         IF conv[t].finished
         THEN conv' = Canceled(t) /\ ui' = [ui EXCEPT !.pc = "join", !.task = {t}]
         ELSE conv' = conv /\ ui' = [ui EXCEPT !.i = @ + 1]
    /\ UNCHANGED <<list, timer>>

\* The row that moves up to the one removed is passed over.
AfterRow(i) == IF i = 0 THEN Idle ELSE [pc |-> "update", task |-> {}, i |-> i + 1]

Join ==
    /\ ui.pc = "join" /\ \A t \in ui.task : conv[t].pc = "joinable"
    /\ \E k \in DOMAIN list : list[k] \in ui.task /\ list' = RemoveAt(list, k)
    /\ ui' = AfterRow(ui.i)
    /\ UNCHANGED <<conv, timer>>

StopsTimer == list = <<>>

EndUpdate ==
    /\ ui.pc = "update" /\ ui.i > Len(list)
    /\ timer' = (timer /\ ~StopsTimer)
    /\ ui' = Idle
    /\ UNCHANGED <<conv, list>>

UiThread == SlotUpdateProgress \/ UpdateRow \/ Join \/ EndUpdate

Next == \/ \E t \in Task : Worker(t) \/ SlotCancelTask(t)
        \/ \E t \in Task : \E i \in Chosen[t] : AddTask(t, i)
        \/ UiThread

Spec == Init /\ [][Next]_vars

\* Threads run, and the UI thread serves the timer.
FairSpec == Spec /\ (\A t \in Task : WF_vars(Worker(t))) /\ WF_vars(UiThread)

-----------------------------------------------------------------------------
\* What the user asked for: the unit the range ends before.
LastUnit(i) ==
    IF i.range.has /\ i.range.end # NoEnd
    THEN Least(UnitsOf(i.kind, i.range.end), i.count) ELSE i.count

\* An open end of a file whose unit is a frame: UnitEnd is short.
OpenEnded(i) == i.kind \in Frames /\ i.range.has /\ i.range.end = NoEnd

\* Plug-ins that count a unit they could not decode, or give the file up.
Counting == {"mpg123", "wma", "mac", "lpcm"}

Ends(i) == i.bad = {} \/ i.kind \in Counting

Over(t) == conv[t].pc \in {"finish", "exit", "joinable"}

\* What stands in the output of an intact file is at any time the units of the
\* range one after the other from its first: none missing, repeated or out of
\* place, whatever the plug-in counts and the encoder keeps back, wherever a
\* Cancel cuts it off and when the disk is full.
InOrder ==
    \A t \in Task : conv[t].item.bad = {} =>
        \A k \in DOMAIN conv[t].enc.file :
            conv[t].enc.file[k] = UnitBeg(conv[t].item) + k - 1

\* The output of a conversion of an intact file that finished by itself holds the
\* range to its last unit, and not a whole run more; of a conversion that was
\* canceled, too, the header tells what the file holds.  An open end in frames
\* is left out, and so is a disk that was full.
WholeRange ==
    \A t \in Task :
        LET i == conv[t].item
            e == conv[t].enc
            last == UnitBeg(i) + Len(e.file)
        IN Over(t) /\ ~conv[t].failed /\ ~e.full =>
             /\ ~conv[t].canceled /\ i.bad = {} /\ ~OpenEnded(i) =>
                  last >= LastUnit(i) /\ (e.file # <<>> => last < LastUnit(i) + MaxRun)
             /\ e.kind = "lpcm" => e.header = Len(e.file)

\* The thread of a conversion runs only while the dialog holds the conversion:
\* no row goes, by the timer or by its button, before the thread was joined.
HeldWhileRunning ==
    \A t \in Task : conv[t].pc \notin {"none", "joinable"} => Contains(list, t)

\* The timer runs as long as a row is shown, so that its conversion is noticed.
TimerRuns == list # <<>> => timer

\* What the run checks of every state: the types and the three above.
ConversionInv == TypeOK /\ InOrder /\ HeldWhileRunning /\ TimerRuns

\* A conversion whose decoder counts ends and leaves the dialog, though the loop
\* over the rows passes over the one after a row it removes.
AllLeave ==
    \A t \in Task :
        (Contains(list, t) /\ Ends(conv[t].item)) ~> ~Contains(list, t)

\* The UI thread is never held by a join for good: also a decoder that counts
\* nothing is left once Cancel has set the flag.
CancelReturns == ui.pc = "join" ~> ui.pc # "join"

\* Both: conversions leave the dialog, and a Cancel returns.
AllEnd == AllLeave /\ CancelReturns

=============================================================================

------------------------------ MODULE Outputs ------------------------------
(***************************************************************************)
(* The output plug-ins, one of which the player loads: CoreAudio, ALSA, OSS*)
(* and sndio.  The player opens the plug-in when it is loaded, without     *)
(* looking at the result, sets it up for each file, and writes buffers if  *)
(* the setup succeeded, one call at a time.                                *)
(*                                                                         *)
(* A device answers as it likes: it may refuse, or grant another format.   *)
(* What the plug-in makes of that is the model.  Failing to write is told  *)
(* to the player, which goes on with the next buffer.                      *)
(*                                                                         *)
(* CoreAudio: plugins/coreaudio/Output.cc on the driver in                 *)
(* plugins/coreaudio/cmus/coreaudio.c, which passes what it is given to a  *)
(* render callback through a ring buffer, that two threads share.  The one *)
(* that calls the plug-in writes and then waits until as much again has    *)
(* room; the callback, on a thread of the system, reads and signals.  The  *)
(* indexes are written by one thread each, outside the mutex; the mutex    *)
(* covers the waiting only.  Memory is taken for sequentially consistent,  *)
(* which the fences are there for.                                         *)
(*                                                                         *)
(* A frame is its number since the last Setup, 0 is what no one wrote.     *)
(***************************************************************************)
EXTENDS Integers, Sequences

CONSTANTS
  RingSize,     \* coreaudio_buffer_frame_size, a power of two
  Lengths,      \* how much a Write may be of
  FrameBound,   \* bound: how many frames are written between two Setups
  Format,       \* [channels, rate, bits], what files and devices may have
  NoFormat,
  SetupBound    \* bound: how many files are opened

VARIABLES
  ring,       \* coreaudio_ring_buffer; masked: its masks are set
  unit,       \* the audio unit runs
  render,     \* where the callback is, and how much it has taken
  out,        \* where the thread that calls the plug-in is, in which length
  sent,       \* how many frames were written since the last Setup
  heard,      \* what the device was given since then
  grew,       \* for the properties only: a Write was longer than the one before
  plug,       \* the plug-in
  device,     \* open, the format it has, whether it was started
  known,      \* the format of the last complete setup; ALSA keeps the frame's length
  asked,      \* the format of the last Setup
  ready,      \* the last Setup succeeded
  setups,
  crashed,    \* the library was handed no device, or a division by zero
  \* For the properties only:
  failed,     \* a Write since the last Setup failed
  overruled   \* ALSA: a failure was overruled; OSS, sndio: a Setup failed

-----------------------------------------------------------------------------
(* The ring.                                                               *)

Sizes == RingSize \in Nat \ {0} /\ Lengths \subseteq Nat /\ FrameBound \in Nat

ringVars == <<ring, unit, render, out, sent, heard, grew>>

Silence == [p \in 0 .. RingSize - 1 |-> 0]
NoRing == [size |-> 0, masked |-> FALSE, w |-> 0, r |-> 0, mem |-> Silence]

Least(a, b) == IF a < b THEN a ELSE b

(* An index runs through the ring twice before it is 0 again.              *)
Wrapped(x) == IF ring.masked THEN x % (2 * ring.size) ELSE 0

ReadAvailable == Wrapped(ring.w - ring.r)
WriteAvailable == ring.size - ReadAvailable

(* The n places from an index on, around the end of the memory.            *)
Places(index, n) == [k \in 1 .. n |-> (index + k - 1) % ring.size]

InitRing ==
  /\ ring = NoRing /\ unit = FALSE
  /\ render = [at |-> "idle", n |-> 0]
  /\ out = [at |-> "idle", len |-> RingSize, n |-> 0]
  /\ sent = 0 /\ heard = <<>> /\ grew = FALSE

-----------------------------------------------------------------------------
(* Write: as much as has room, of which the caller is not told; then wait. *)

WriteRegions(len) ==
  /\ out.at = "idle" /\ sent + len <= FrameBound
  /\ out' = [at |-> "copy", len |-> len, n |-> Least(len, WriteAvailable)]
  /\ grew' = (grew \/ len > out.len)
  /\ UNCHANGED <<ring, unit, render, sent, heard>>

WriteCopy ==
  /\ out.at = "copy"
  /\ LET place == Places(ring.w, out.n) IN
     ring' = [ring EXCEPT !.mem = [p \in DOMAIN ring.mem |->
       IF \E k \in DOMAIN place : place[k] = p
       THEN sent + (CHOOSE k \in DOMAIN place : place[k] = p) ELSE ring.mem[p]]]
  /\ out' = [out EXCEPT !.at = "advance"]
  /\ UNCHANGED <<unit, render, sent, heard, grew>>

AdvanceWrite ==
  /\ out.at = "advance"
  /\ ring' = [ring EXCEPT !.w = Wrapped(ring.w + out.n)]
  /\ sent' = sent + out.len
  /\ out' = [out EXCEPT !.at = "wait"]
  /\ UNCHANGED <<unit, render, heard, grew>>

(* op_pcm_wait: under the mutex, and released by the wait alone.           *)
Wait ==
  /\ out.at = "wait"
  /\ out' = [out EXCEPT !.at = IF WriteAvailable >= out.len THEN "idle" ELSE "asleep"]
  /\ UNCHANGED <<ring, unit, render, sent, heard, grew>>

-----------------------------------------------------------------------------
(* The callback: reads what there is, up to what it is asked for.          *)

ReadRegions ==
  /\ unit /\ render.at = "idle"
  /\ \E count \in 1 .. RingSize :
       render' = [at |-> "copy", n |-> Least(count, ReadAvailable)]
  /\ UNCHANGED <<ring, unit, out, sent, heard, grew>>

ReadCopy ==
  /\ render.at = "copy"
  /\ LET place == Places(ring.r, render.n) IN
     heard' = heard \o [k \in DOMAIN place |-> ring.mem[place[k]]]
  /\ render' = [render EXCEPT !.at = "advance"]
  /\ UNCHANGED <<ring, unit, out, sent, grew>>

(* Mutant of AdvanceRead: the index is not advanced by what was read but   *)
(* to what is there to read by now.                                        *)
AdvanceReadAll ==
  /\ render.at = "advance"
  /\ ring' = [ring EXCEPT !.r = ring.w]
  /\ render' = [render EXCEPT !.at = "signal"]
  /\ UNCHANGED <<unit, out, sent, heard, grew>>

AdvanceRead ==
  /\ render.at = "advance"
  /\ ring' = [ring EXCEPT !.r = Wrapped(ring.r + render.n)]
  /\ render' = [render EXCEPT !.at = "signal"]
  /\ UNCHANGED <<unit, out, sent, heard, grew>>

(* Mutant of Signal: nobody is woken.                                      *)
SignalNobody ==
  /\ render.at = "signal"
  /\ render' = [at |-> "idle", n |-> 0]
  /\ UNCHANGED <<out, ring, unit, sent, heard, grew>>

(* The mutex is free: a thread that holds it sleeps or is done in a step.  *)
Signal ==
  /\ render.at = "signal"
  /\ render' = [at |-> "idle", n |-> 0]
  /\ out' = IF out.at = "asleep" THEN [out EXCEPT !.at = "wait"] ELSE out
  /\ UNCHANGED <<ring, unit, sent, heard, grew>>

Callback == ReadRegions \/ ReadCopy \/ AdvanceRead \/ Signal

-----------------------------------------------------------------------------
(* Setup: drop, close, open.  The callback runs on until close has stopped *)
(* the unit, and again from open on, before the ring is there.             *)

Drop ==
  /\ out.at = "idle"
  /\ ring' = [ring EXCEPT !.r = 0]
  /\ out' = [out EXCEPT !.at = "drop"]
  /\ UNCHANGED <<unit, render, sent, heard, grew>>

DropRest ==
  /\ out.at = "drop"
  /\ ring' = [ring EXCEPT !.w = 0]
  /\ out' = [out EXCEPT !.at = "close"]
  /\ UNCHANGED <<unit, render, sent, heard, grew>>

(* The unit stops when the callback is not in it.                          *)
Stop ==
  /\ out.at = "close" /\ render.at = "idle"
  /\ unit' = FALSE /\ ring' = NoRing
  /\ out' = [out EXCEPT !.at = "open"]
  /\ UNCHANGED <<render, sent, heard, grew>>

(* A unit that cannot be started leaves the plug-in without a ring, which  *)
(* Setup does not look at.                                                 *)
Start ==
  /\ out.at = "open"
  /\ \/ unit' = TRUE /\ out' = [at |-> "init", len |-> RingSize, n |-> 0]
     \/ unit' = FALSE /\ out' = [at |-> "idle", len |-> RingSize, n |-> 0]
  /\ sent' = 0 /\ heard' = <<>> /\ grew' = FALSE
  /\ UNCHANGED <<ring, render>>

InitSize ==
  /\ out.at = "init"
  /\ ring' = [NoRing EXCEPT !.size = RingSize]
  /\ out' = [out EXCEPT !.at = "mask"]
  /\ UNCHANGED <<unit, render, sent, heard, grew>>

InitMasks ==
  /\ out.at = "mask"
  /\ ring' = [ring EXCEPT !.masked = TRUE]
  /\ out' = [out EXCEPT !.at = "idle"]
  /\ UNCHANGED <<unit, render, sent, heard, grew>>

Caller ==
  \/ WriteCopy \/ AdvanceWrite \/ Wait
  \/ DropRest \/ Stop \/ Start \/ InitSize \/ InitMasks

-----------------------------------------------------------------------------
(* The plug-ins.                                                           *)

pluginVars == <<plug, device, known, asked, ready, setups, crashed, failed, overruled>>
vars == <<ringVars, pluginVars>>

(* Samples of 16 bits are among the formats, since ALSA asks for no other. *)
Formats ==
  /\ Format \subseteq [channels : Nat, rate : Nat, bits : Nat] /\ NoFormat \notin Format
  /\ \A g \in Format : [g EXCEPT !.bits = 16] \in Format

idleRing == <<ring, unit, render>>

Kinds == {"alsa", "oss", "sndio", "coreaudio"}

Shut == [open |-> FALSE, has |-> NoFormat, started |-> FALSE]
Opened == [Shut EXCEPT !.open = TRUE]

Init ==
  /\ InitRing
  /\ plug \in Kinds
  /\ device \in {Shut, Opened}
  /\ (plug = "coreaudio" => device.open)
  \* sndio registers for the volume before it looks at the handle.
  /\ crashed = (plug = "sndio" /\ ~device.open)
  /\ known = NoFormat /\ asked = NoFormat /\ ready = FALSE /\ setups = 0
  /\ failed = FALSE /\ overruled = FALSE

-----------------------------------------------------------------------------
(* Setup: what may come out of it.                                         *)

Answer(d, k, ok, over) == [device |-> d, known |-> k, ok |-> ok, overruled |-> over]

(* SetupHwParams: channels and rate become the least the device has when   *)
(* it has not those asked for; samples are of 16 bits in any case.         *)
HwParams(f, g, ok) == [channels |-> g.channels, rate |-> g.rate, bits |-> IF ok THEN 16 ELSE f.bits]

(* A setup that failed is a success when the rate is not the one asked for.*)
SetupAlsa(f) ==
  {LET h == HwParams(f, g, ok)
       before == ok /\ h.channels = f.channels
       after == IF h.rate # f.rate THEN h.rate > 1 ELSE before
   IN Answer([device EXCEPT !.has = IF ok THEN h ELSE NoFormat], IF ok THEN h ELSE known,
             after /\ h.bits = f.bits, h.rate # f.rate) :
     g \in Format, ok \in BOOLEAN}

(* Nothing is done for the format remembered.  A setup that fails half way *)
(* leaves the device with a part of the new format, and remembers the old. *)
SetupOss(f) ==
  IF device.open /\ known = f THEN {Answer(device, known, TRUE, overruled)}
  ELSE {Answer(Shut, known, FALSE, TRUE)}
       \cup {Answer([Opened EXCEPT !.has = g], IF g = f THEN f ELSE known, g = f,
                    overruled \/ g # f) : g \in Format}

(* The same, but the device is not asked what it made of the format.       *)
SetupSndio(f) ==
  IF device.open /\ known = f THEN {Answer(device, known, TRUE, overruled)}
  ELSE {Answer(Opened, known, FALSE, TRUE)}
       \cup {Answer([open |-> TRUE, has |-> g, started |-> TRUE], f, TRUE, overruled) : g \in Format}

Answers(f) ==
  CASE plug = "alsa" -> SetupAlsa(f) [] plug = "oss" -> SetupOss(f) [] plug = "sndio" -> SetupSndio(f)

Request == out.at = "idle" /\ setups < SetupBound /\ setups' = setups + 1

(* A library that is handed no device does not return.                     *)
Setup(f) ==
  /\ Request /\ asked' = f
  /\ plug # "coreaudio"
  /\ \/ /\ \/ plug = "sndio" /\ ~(device.open /\ known = f)
           \/ plug = "alsa" /\ ~device.open
        /\ crashed' = TRUE /\ UNCHANGED <<device, known, ready, overruled>>
     \/ \E a \in Answers(f) :
          /\ plug = "alsa" => device.open
          /\ device' = a.device /\ known' = a.known /\ ready' = a.ok
          /\ overruled' = a.overruled /\ UNCHANGED crashed
  /\ sent' = 0 /\ heard' = <<>> /\ failed' = FALSE
  /\ UNCHANGED <<idleRing, out, grew, plug>>

(* CoreAudio answers that all is well in any case.                         *)
SetupCoreaudio(f) ==
  /\ Request /\ asked' = f
  /\ plug = "coreaudio" /\ Drop
  /\ ready' = TRUE
  /\ UNCHANGED <<plug, device, known, crashed, failed, overruled>>

-----------------------------------------------------------------------------
(* Write.  out.n is what is left of the call.                              *)

(* The loops of ALSA and OSS begin.  The length in frames is divided by    *)
(* the frame's length, which a first setup that failed leaves at zero.     *)
Begin(len) ==
  /\ out.at = "idle" /\ sent + len <= FrameBound
  /\ plug \in {"alsa", "oss"}
  /\ crashed' = (plug = "alsa" /\ known = NoFormat)
  /\ out' = [at |-> "loop", len |-> len, n |-> len]
  /\ sent' = sent + len
  /\ UNCHANGED <<idleRing, heard, grew, plug, device, known, asked, ready, setups, failed, overruled>>

Takes(k) == heard' = heard \o [i \in 1 .. k |-> sent - out.n + i]

(* Mutant of Written: what is left is counted down, the place is not moved.*)
WrittenAgain ==
  /\ out.at = "loop"
  /\ \E k \in (IF plug = "oss" THEN 0 ELSE 1) .. out.n :
       /\ heard' = heard \o [i \in 1 .. k |-> sent - out.len + i]
       /\ out' = IF k = out.n THEN [out EXCEPT !.at = "idle", !.n = 0] ELSE [out EXCEPT !.n = @ - k]
  /\ plug = "alsa" => device.has # NoFormat
  /\ UNCHANGED <<idleRing, sent, grew, pluginVars>>

(* The device takes a part, of which OSS takes none for one as well.       *)
Written ==
  /\ out.at = "loop"
  /\ \E k \in (IF plug = "oss" THEN 0 ELSE 1) .. out.n :
       /\ Takes(k)
       /\ out' = IF k = out.n THEN [out EXCEPT !.at = "idle", !.n = 0] ELSE [out EXCEPT !.n = @ - k]
  /\ plug = "alsa" => device.has # NoFormat
  /\ UNCHANGED <<idleRing, sent, grew, pluginVars>>

(* ALSA prepares and goes on after an underrun, and after a suspension     *)
(* that cannot be resumed; it gives up when that fails in the latter case. *)
(* Any other error is printed, and the loop goes on.                       *)
Suspended ==
  /\ out.at = "loop" /\ plug = "alsa"
  /\ failed' = TRUE /\ out' = [out EXCEPT !.at = "idle", !.n = 0]
  /\ UNCHANGED <<idleRing, sent, heard, grew, plug, device, known, asked, ready, setups, crashed, overruled>>

OssError ==
  /\ out.at = "loop" /\ plug = "oss"
  /\ failed' = TRUE /\ out' = [out EXCEPT !.at = "idle", !.n = 0]
  /\ UNCHANGED <<idleRing, sent, heard, grew, plug, device, known, asked, ready, setups, crashed, overruled>>

(* sndio writes all or tells that it did not; so does one not started.     *)
WriteSndio(len) ==
  /\ out.at = "idle" /\ plug = "sndio" /\ sent + len <= FrameBound
  /\ sent' = sent + len
  /\ \E k \in 0 .. (IF device.started THEN len ELSE 0) :
       /\ heard' = heard \o [i \in 1 .. k |-> sent + i]
       /\ failed' = (failed \/ k < len)
  /\ UNCHANGED <<idleRing, out, grew, plug, device, known, asked, ready, setups, crashed, overruled>>

WriteCoreaudio(len) == plug = "coreaudio" /\ WriteRegions(len) /\ UNCHANGED pluginVars

Write == ready /\ \E len \in Lengths : Begin(len) \/ WriteSndio(len) \/ WriteCoreaudio(len)

Next ==
  /\ ~crashed
  /\ \/ \E f \in Format : Setup(f) \/ SetupCoreaudio(f)
     \/ Write \/ Written \/ Suspended \/ OssError
     \/ (Caller \/ Callback) /\ UNCHANGED pluginVars

Spec == Init /\ [][Next]_vars

(* The thread that calls runs, and so does the system's; a device that has *)
(* been set up takes something in the end.                                 *)
FairSpec ==
  /\ Spec
  /\ WF_vars(~crashed /\ Caller /\ UNCHANGED pluginVars)
  /\ WF_vars(~crashed /\ Callback /\ UNCHANGED pluginVars)
  /\ SF_vars(~crashed /\ Written /\ out'.n < out.n)

-----------------------------------------------------------------------------
(* Properties.                                                             *)

Dropping == out.at \in {"drop", "close"}

(* What was written is on its way or heard, once and in order, though the  *)
(* two threads share nothing but two indexes; unless a Write was longer    *)
(* than the room the one before it had waited for, whose end is then lost  *)
(* unseen, and but for the ring that is being thrown away.                 *)
NothingLost ==
  unit /\ ~Dropping /\ ~grew =>
    /\ heard = [k \in 1 .. Len(heard) |-> k]
    /\ sent = Len(heard) + ReadAvailable - (IF render.at = "advance" THEN render.n ELSE 0)

(* Neither index runs past the other.                                      *)
RingBounded == ~Dropping => ReadAvailable \in 0 .. ring.size

(* Every variable stays in its domain.                                     *)
TypeOK ==
  /\ plug \in Kinds /\ device \in [open : BOOLEAN, has : Format \cup {NoFormat}, started : BOOLEAN]
  /\ {ready, crashed, failed, overruled, grew, unit} \subseteq BOOLEAN
  /\ sent \in 0 .. FrameBound /\ \A k \in DOMAIN heard : heard[k] \in Nat

(* ALSA and OSS: a Setup that answers Ok has given the device the format   *)
(* it was asked for, unless ALSA's check of the rate overruled the others, *)
(* or OSS took the device of a setup that failed for that of the one       *)
(* before.                                                                 *)
FormatAsTold ==
  ready /\ ~overruled /\ plug \in {"alsa", "oss"} => device.has = asked

(* When a Write has returned and none has failed, the device has been      *)
(* given all that was written, once and in order.                          *)
WrittenOnce ==
  plug # "coreaudio" /\ out.at = "idle" /\ ~failed /\ ~crashed => heard = [k \in 1 .. sent |-> k]

OutputInv == TypeOK /\ RingBounded /\ FormatAsTold /\ WrittenOnce

(* What was written is heard once and in order, and the device has the     *)
(* format that it was told to have.                                        *)
SoundInv == OutputInv /\ NothingLost

(* A Write returns, and with it the player's Pause: unless it is longer    *)
(* than the ring, or the unit did not start, or ALSA's device has gone,    *)
(* which the loop takes for something that passes.                         *)
WriteReturns ==
  (out.at \in {"copy", "advance", "wait", "asleep", "loop"} /\ ~crashed
     /\ (plug = "coreaudio" => unit /\ out.len <= RingSize)
     /\ (plug = "alsa" => device.has # NoFormat)) ~> out.at = "idle"
=============================================================================

----------------------------- MODULE MCDesktop -----------------------------
(***************************************************************************)
(* The desktop player, for TLC, from its window (Desktop) down to the      *)
(* device (Outputs).  Each behaviour is of one of the two, and the         *)
(* variables of the other stand still.                                     *)
(***************************************************************************)
EXTENDS Desktop, Outputs

CONSTANTS opens, fails  \* the files

VARIABLE part  \* "window" or "device"

ASSUME DeviceAssumption == Sizes /\ Formats

-----------------------------------------------------------------------------
(* As the application is first started, and after others that left lists.   *)
Left(us, at, mode) == [rows |-> [i \in DOMAIN us |-> [url |-> us[i], tag |-> 0]], at |-> at, mode |-> mode]
Lefts == {<<Empty>>, <<Left(<<opens, fails>>, 0, "Repeat")>>,
          <<Left(<<fails, fails>>, 1, "Normal"), Left(<<opens>>, 0, "RepeatOne")>>}

(* Stereo at a rate, mono at another, and samples of 24 bits.              *)
MCFormat == {[channels |-> 2, rate |-> 44, bits |-> 16], [channels |-> 1, rate |-> 48, bits |-> 16],
             [channels |-> 2, rate |-> 44, bits |-> 24]}

-----------------------------------------------------------------------------
OfWindow(A) == part = "window" /\ A /\ UNCHANGED <<part, vars>>
OfDevice(A) == part = "device" /\ ~crashed /\ A /\ UNCHANGED <<part, windowVars>>

DesktopInit ==
  /\ WindowInit /\ Init
  /\ part \in {"window", "device"}
  /\ part = "window" => plug = "alsa" /\ ~device.open
  /\ part = "device" => disk.lists = <<Empty>>

DesktopNext == OfWindow(WindowNext) \/ OfDevice(Next)

all == <<part, windowVars, vars>>

(* Fairness as in the two modules; a behaviour is of one part only, so that*)
(* one condition can speak of a thread of each.                            *)
DesktopSpec ==
  /\ DesktopInit /\ [][DesktopNext]_all
  /\ WF_all(OfWindow(TryNext) \/ OfDevice(Caller /\ UNCHANGED pluginVars))
  /\ WF_all(OfDevice(Callback /\ UNCHANGED pluginVars))
  /\ SF_all(OfDevice(Written /\ out'.n < out.n))

(* A session begins with the lists the last one ended with.                *)
SessionsKept == [][SessionKept]_windowVars

(* The search for an item that can be opened ends when the list does, and  *)
(* a Write returns (modules Desktop and Outputs).                          *)
CallsEnd == SearchEnds /\ WriteReturns
=============================================================================

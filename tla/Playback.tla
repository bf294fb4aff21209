------------------------------ MODULE Playback ------------------------------
(***************************************************************************)
(* What a Player (sdk/core/Player.h) promises its caller: four states, a   *)
(* range that is played to its end while the player is playing and at no   *)
(* other time, and one SigFinished each time the end is reached.  Calls    *)
(* take effect in one step.  Module Player implements this, with its       *)
(* threads, mailboxes and buffers (Player!ImplementsPlayback); module      *)
(* Server uses it.                                                         *)
(***************************************************************************)
EXTENDS Naturals

VARIABLES
  status,    \* m_Status
  left,      \* something of the range being played is left to play
  finishers  \* detached threads about to emit SigFinished

vars == <<status, left, finishers>>

Init == status = "Closed" /\ left = FALSE /\ finishers = 0

Open ==
  /\ status = "Closed" /\ status' = "Stopped"
  /\ UNCHANGED <<left, finishers>>

(* Play of a range; there may be nothing in it.                            *)
Play(some) ==
  /\ status = "Stopped" /\ status' = "Playing"
  /\ left' = some
  /\ UNCHANGED finishers

Pause ==
  /\ status = "Playing" /\ status' = "Paused"
  /\ UNCHANGED <<left, finishers>>

Resume ==
  /\ status = "Paused" /\ status' = "Playing"
  /\ UNCHANGED <<left, finishers>>

(* A seek, which may lead to the end of the range or back from it.  It     *)
(* does nothing to what will be played from a player that is stopped.      *)
Seek(some) ==
  /\ status \in {"Playing", "Paused"}
  /\ left' = some
  /\ UNCHANGED <<status, finishers>>

Close ==
  /\ status # "Closed" /\ status' = "Closed"
  /\ left' = FALSE
  /\ UNCHANGED finishers

(* The last unit of the range is played; a thread is detached to say so.   *)
(* The status stays Playing.                                               *)
PlayOut ==
  /\ status = "Playing" /\ left
  /\ left' = FALSE /\ finishers' = finishers + 1
  /\ UNCHANGED status

(* A detached thread emits SigFinished.                                    *)
Finished ==
  /\ finishers > 0 /\ finishers' = finishers - 1
  /\ UNCHANGED <<status, left>>

Next ==
  \/ Open \/ Pause \/ Resume \/ Close \/ PlayOut \/ Finished
  \/ \E some \in BOOLEAN : Play(some) \/ Seek(some)

Spec == Init /\ [][Next]_vars

(* Every variable stays in its domain.                                     *)
TypeOK ==
  /\ status \in {"Closed", "Stopped", "Playing", "Paused"}
  /\ left \in BOOLEAN
  /\ finishers \in Nat
=============================================================================

------------------------------ MODULE MCMirror ------------------------------
(***************************************************************************)
(* What a terminal client shows of the server, for TLC: its copy of a list *)
(* (Mirror), and of the player (Status).  Each behaviour is of one of the  *)
(* two connections, and the variables of the other stand still.            *)
(***************************************************************************)
EXTENDS Mirror

CONSTANTS NoItem, VolumeTop, Modes, KeyBound, OtherBound  \* of Status

ASSUME SettingsAssumption == VolumeTop \in Nat /\ Modes \in Nat \ {0}

VARIABLES
  part,  \* "list" or "player"
  running, current, volume, mode, asks, tells, link, status, waitSync,
  shown, shownVolume, shownMode, awaits, keys, others, missed, foreign

player ==
  <<running, current, volume, mode, asks, tells, link, status, waitSync,
    shown, shownVolume, shownMode, awaits, keys, others, missed, foreign>>

S == INSTANCE Status WITH c2s <- asks, s2c <- tells, waitReply <- awaits

ClientInit ==
  /\ Init /\ S!Init
  /\ part \in {"list", "player"}
  /\ part = "list" => ~running /\ current = CHOOSE i \in Item : TRUE

OfList(A) == part = "list" /\ A /\ UNCHANGED <<part, player>>
OfPlayer(A) == part = "player" /\ A /\ UNCHANGED <<part, vars>>

ClientNext == OfList(Next) \/ OfPlayer(S!Next)

all == <<part, vars, player>>

(* Fairness as in the two modules; a behaviour is of one part only, so that*)
(* one condition can speak of a thread of each.                            *)
ClientSpec ==
  /\ ClientInit /\ [][ClientNext]_all
  /\ WF_all(OfList(Serve) \/ OfPlayer(S!Requests))
  /\ WF_all(OfList(Show) \/ OfPlayer(S!Slots))
  /\ WF_all(OfPlayer(S!SlotConnected)) /\ WF_all(OfPlayer(S!StartSync))

(* The client waits for at most one reply, one sync is under way at a time,*)
(* selection, volume and mode agree, and what the client was told plays is *)
(* what plays (modules Mirror and Status).                                 *)
ClientInv == ViewInv /\ S!SyncInv /\ S!ToldIsCurrent

(* Left alone, the client comes to show what plays (module Status).        *)
ComesToShow == S!ComesToShow
=============================================================================

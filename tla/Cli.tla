-------------------------------- MODULE Cli --------------------------------
(***************************************************************************)
(* The command line player: play.cc, with the end of main (main.cc, ctx.cc)*)
(* and the emission of SigFinished that calls its slot.                    *)
(*                                                                         *)
(* Three kinds of threads meet at the context: main, which polls playerQuit*)
(* and then destroys everything; and, one for each item that has ended, the*)
(* detached thread of the player that runs on_finished and, when that has  *)
(* returned, looks at the list of slots once more.                         *)
(***************************************************************************)
EXTENDS Integers, Sequences, FiniteSets, Functions

CONSTANTS
  Track,       \* items, as the files on the command line yield them
  Unopenable,  \* those the player cannot open
  PlayBound    \* bound: how many items are played

VARIABLES
  main,        \* where main is
  context,     \* it has not been destroyed
  playerQuit,  \* read and written without a lock
  mode, order, position,  \* the playlist: in the order in which the mode plays it
  playing,     \* what the player plays, or Silent
  finishers,   \* of each detached thread: where it is
  \* For the properties only:
  listed,      \* the playlist before it was cleared
  played,
  unset,       \* playerQuit was not false before anything set it
  fault        \* what is not there was used: a decoder, the context, the playlist

vars == <<main, context, playerQuit, mode, order, position, playing, finishers, listed, played, unset, fault>>

Silent == "silent"
Thread == 1 .. 2
Repeating == mode \in {"Repeat", "ShuffleRepeat"}

(* The player's slot is connected, the mode is set from the options, and   *)
(* the playlist built; a shuffled one in any order.  playerQuit is not     *)
(* initialised.                                                            *)
Init ==
  /\ main = "first" /\ context = TRUE /\ playerQuit \in BOOLEAN /\ unset = playerQuit
  /\ mode \in {"Normal", "Repeat", "Shuffle", "ShuffleRepeat"}
  /\ \E tracks \in (SUBSET Track) \ {{}} :
       /\ order \in Bijection(1 .. Cardinality(tracks), tracks)
       /\ mode \in {"Normal", "Repeat"} => order = CHOOSE s \in Bijection(1 .. Cardinality(tracks), tracks) : TRUE
  /\ position = 0 /\ playing = Silent /\ finishers = [t \in Thread |-> "none"]
  /\ listed = order /\ played = <<>> /\ fault = FALSE

-----------------------------------------------------------------------------
(* on_finished, up to the mutex, and under it.                             *)

(* Mutant of HasNext: the last one is not seen.                            *)
HasNextShort == Repeating \/ position + 1 < Len(order)

HasNext == Repeating \/ position < Len(order)

(* The playlist is used outside the mutex.                                 *)
Choose == position' = (position % Len(order)) + 1

(* Close, Open whose result is not looked at, and Play, which needs what   *)
(* Open has made.                                                          *)
PlayNext ==
  LET track == order[position] IN
  /\ Len(played) < PlayBound
  /\ IF track \in Unopenable
     THEN fault' = TRUE /\ playing' = Silent /\ UNCHANGED played
     ELSE playing' = track /\ played' = Append(played, track) /\ UNCHANGED fault

(* By main, for the first item.                                            *)
FirstFinished ==
  /\ main = "first"
  /\ IF HasNext THEN Choose /\ main' = "first play" /\ UNCHANGED playerQuit
                ELSE playerQuit' = TRUE /\ main' = "poll" /\ UNCHANGED position
  /\ UNCHANGED <<context, mode, order, playing, finishers, played, listed, unset, fault>>

FirstPlay ==
  /\ main = "first play" /\ main' = "poll"
  /\ PlayNext
  /\ UNCHANGED <<context, playerQuit, mode, order, position, finishers, listed, unset>>

(* The end of an item: a thread for it.                                    *)
SigFinished(t) ==
  /\ playing # Silent /\ finishers[t] = "none" /\ context
  /\ finishers' = [finishers EXCEPT ![t] = "slot"]
  /\ playing' = Silent
  /\ UNCHANGED <<main, context, playerQuit, mode, order, position, played, listed, unset, fault>>

OnFinished(t) ==
  /\ finishers[t] = "slot"
  /\ IF ~context \/ order = <<>> THEN fault' = TRUE /\ UNCHANGED <<playerQuit, position, finishers>>
     ELSE /\ IF HasNext THEN Choose /\ finishers' = [finishers EXCEPT ![t] = "play"] /\ UNCHANGED playerQuit
             ELSE playerQuit' = TRUE /\ finishers' = [finishers EXCEPT ![t] = "after"] /\ UNCHANGED position
          /\ UNCHANGED fault
  /\ UNCHANGED <<main, context, mode, order, playing, played, listed, unset>>

OnFinishedPlay(t) ==
  /\ finishers[t] = "play"
  /\ finishers' = [finishers EXCEPT ![t] = "after"]
  /\ IF ~context \/ order = <<>> THEN fault' = TRUE /\ UNCHANGED <<playing, played>> ELSE PlayNext
  /\ UNCHANGED <<main, context, playerQuit, mode, order, position, listed, unset>>

(* The loop of the emission looks at the number of slots once more.        *)
Emitted(t) ==
  /\ finishers[t] = "after"
  /\ finishers' = [finishers EXCEPT ![t] = "none"]
  /\ fault' = ~context
  /\ UNCHANGED <<main, context, playerQuit, mode, order, position, playing, played, listed, unset>>

-----------------------------------------------------------------------------
(* The thread that shows the time, until playerQuit; it is joined.         *)
Poll ==
  /\ main = "poll" /\ playerQuit /\ main' = "clear"
  /\ UNCHANGED <<context, playerQuit, mode, order, position, playing, finishers, played, listed, unset, fault>>

ClearPlaylist ==
  /\ main = "clear" /\ main' = "reset"
  /\ order' = <<>> /\ position' = 0
  /\ UNCHANGED <<context, playerQuit, mode, playing, finishers, played, listed, unset, fault>>

(* The player goes with the context, and the process after it, with all    *)
(* threads.                                                                *)
Reset ==
  /\ main = "reset" /\ main' = "exit"
  /\ context' = FALSE /\ playing' = Silent
  /\ UNCHANGED <<playerQuit, mode, order, position, finishers, played, listed, unset, fault>>

Exit ==
  /\ main = "exit" /\ main' = "gone"
  /\ finishers' = [t \in Thread |-> "none"]
  /\ UNCHANGED <<context, playerQuit, mode, order, position, playing, played, listed, unset, fault>>

Next ==
  /\ ~fault
  /\ \/ FirstFinished \/ FirstPlay \/ Poll \/ ClearPlaylist \/ Reset \/ Exit
     \/ \E t \in Thread : SigFinished(t) \/ OnFinished(t) \/ OnFinishedPlay(t) \/ Emitted(t)

Spec == Init /\ [][Next]_vars

-----------------------------------------------------------------------------
(* Properties.                                                             *)

(* A list that is not repeated has been played, each item once and in its  *)
(* order, when the program ends; and a list that is repeated does not end. *)
(* Unless playerQuit began as true.                                        *)
PlaysTheList ==
  main = "gone" /\ ~unset => ~Repeating /\ played = listed

(* What is played in a row is what the order says.                         *)
InOrder == \A k \in DOMAIN played : played[k] = listed[((k - 1) % Len(listed)) + 1]

(* Nothing that is not there is used, unless the file cannot be opened, or *)
(* playerQuit began as true, or the program ended while the last finisher  *)
(* was on its way back.                                                    *)
NoFault == fault => unset \/ ~context \/ order[position] \in Unopenable

(* The three; and no two finishers choose at once, for the playlist has no *)
(* lock.                                                                   *)
CliInv ==
  /\ PlaysTheList /\ InOrder /\ NoFault
  /\ \A t, u \in Thread : {finishers[t], finishers[u]} \subseteq {"slot", "play"} => t = u
=============================================================================

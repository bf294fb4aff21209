------------------------------ MODULE Options ------------------------------
(***************************************************************************)
(* Choosing how to convert an item: SlotConvert (SimplePlaylistView.cpp),  *)
(* SlotConvertMediaItem (MainWindow.cpp) and its two dialogs, of encoders  *)
(* (DlgListSelect.cpp) and of the options of one (DlgConvertOption.cpp);   *)
(* the options themselves (Option.h), which live in the encoder (lame) and *)
(* are read there when the thread of the conversion opens its output.      *)
(*                                                                         *)
(* The dialogs show copies: a slider and a box of one number, the place in *)
(* a list of rates, a mark.  What the user sets goes through signals of    *)
(* Qt's widgets, which are calls, into the options.  The dialogs are modal,*)
(* each in an event loop of its own within the slot; threads go on beside. *)
(* No plug-in that is built offers a group of options; lpcm offers none.   *)
(***************************************************************************)
EXTENDS Integers, Sequences

LOCAL INSTANCE Functions

CONSTANTS
  Source,     \* the items of the list
  Foreign,    \* those no decoder is found for
  Encoders,   \* names of encoders, in the order of a map
  Worst,      \* the range of the quality is 0 .. Worst
  Rates,      \* the rates to choose from
  Standard    \* defaultVal, defaultChoice of each option

VARIABLES
  encoderNames,  \* of the encoders that are loaded
  dialog,        \* "none", "encoders", "options"
  chosen,        \* the item, and the row of the first dialog
  conversion,    \* what has been made of them, and the user's values in its encoder
  shown,         \* what the widgets show
  task           \* the conversion that runs; what it agreed to; what it has opened with

vars == <<encoderNames, dialog, chosen, conversion, shown, task>>

Lame == "lame"
NoSource == "none"

(* An option and its values.                                               *)
Option == [quality |-> 0 .. Worst, bit_rate |-> 0 .. Len(Rates) - 1, replay_gain |-> BOOLEAN]
OptionType == [quality |-> "RangedInt", bit_rate |-> "EnumedInt", replay_gain |-> "Boolean"]

(* GetOptions: the options of an encoder; a new one has the default values.*)
OptionsOf(encoder) == IF encoder = Lame THEN DOMAIN Option ELSE {}
Created(encoder) == [o \in OptionsOf(encoder) |-> Standard[o]]

NoChoice == [item |-> NoSource, row |-> 0]
NoConversion == [item |-> NoSource, encoder |-> "", user |-> <<>>]
NoTask == [state |-> "none", item |-> NoSource, encoder |-> "", user |-> <<>>, agreed |-> <<>>, params |-> <<>>]

(* Which encoders there are depends on the plug-ins that are found.        *)
Init ==
  /\ encoderNames \in {SelectSeq(Encoders, LAMBDA e : e \in es) : es \in SUBSET Range(Encoders)}
  /\ dialog = "none" /\ chosen = NoChoice /\ conversion = NoConversion /\ shown = <<>> /\ task = NoTask

-----------------------------------------------------------------------------
(* The widgets of an option: BuildWidgetAndOption.                         *)
Widget(o) == IF OptionType[o] = "RangedInt" THEN [slider |-> Standard[o], box |-> Standard[o]] ELSE [box |-> Standard[o]]

(* Nothing is shown but the defaults, whatever values the options have.    *)
BindWidgetAndOption(options) == shown' = [o \in options |-> Widget(o)]

(* Mutant of SlotIntValChanged: the rate is stored, not its place.         *)
SlotIntValChangedRate(o, val) ==
  conversion' = [conversion EXCEPT !.user[o] = IF OptionType[o] = "EnumedInt" THEN Rates[val + 1] ELSE val]

SlotIntValChanged(o, val) == conversion' = [conversion EXCEPT !.user[o] = val]

(* A slider that is moved moves its box, and a box that changes its slider;*)
(* the box tells of it.                                                    *)
SetWidget(o, val) ==
  /\ dialog = "options" /\ o \in DOMAIN shown /\ val \in Option[o] /\ shown[o].box # val
  /\ shown' = [shown EXCEPT ![o] = [w \in DOMAIN shown[o] |-> val]]
  /\ SlotIntValChanged(o, val)
  /\ UNCHANGED <<encoderNames, dialog, chosen, task>>

-----------------------------------------------------------------------------
(* The slots.                                                              *)

(* The first selected item; nothing is asked if there is no encoder.       *)
SlotConvert(item) ==
  /\ dialog = "none" /\ encoderNames # <<>>
  /\ dialog' = "encoders" /\ chosen' = [item |-> item, row |-> 1]
  /\ UNCHANGED <<encoderNames, conversion, shown, task>>

SelectEncoder(k) ==
  /\ dialog = "encoders" /\ k \in DOMAIN encoderNames /\ chosen.row # k
  /\ chosen' = [chosen EXCEPT !.row = k]
  /\ UNCHANGED <<encoderNames, dialog, conversion, shown, task>>

(* Either dialog is cancelled: the conversion is deleted.                  *)
Cancel ==
  /\ dialog # "none"
  /\ dialog' = "none" /\ chosen' = NoChoice /\ conversion' = NoConversion /\ shown' = <<>>
  /\ UNCHANGED <<encoderNames, task>>

(* CreateConversion fails if there is no decoder for the item.             *)
CreateConversion ==
  /\ dialog = "encoders"
  /\ LET encoder == encoderNames[chosen.row] IN
     IF chosen.item \in Foreign
     THEN dialog' = "none" /\ chosen' = NoChoice /\ UNCHANGED <<conversion, shown>>
     ELSE /\ dialog' = "options"
          /\ conversion' = [item |-> chosen.item, encoder |-> encoder, user |-> Created(encoder)]
          /\ BindWidgetAndOption(OptionsOf(encoder))
          /\ UNCHANGED chosen
  /\ UNCHANGED <<encoderNames, task>>

(* The task runs on a thread of its own; one of them is followed further.  *)
AddTask ==
  /\ dialog = "options"
  /\ \/ task # NoTask /\ UNCHANGED task
     \/ task' = [state |-> "started", item |-> conversion.item, encoder |-> conversion.encoder,
                 user |-> conversion.user, params |-> <<>>,
                 agreed |-> [item |-> chosen.item, encoder |-> encoderNames[chosen.row], shown |-> shown]]
  /\ dialog' = "none" /\ chosen' = NoChoice /\ conversion' = NoConversion /\ shown' = <<>>
  /\ UNCHANGED encoderNames

(* OpenOutput: lame is set up with the user's values.  What the decoder    *)
(* says of channels and samples has been given to an encoder that was not  *)
(* there yet, and is lost.                                                 *)
OpenOutput ==
  /\ task.state = "started"
  /\ task' = [task EXCEPT
       !.state = "opened",
       !.params = IF task.encoder = Lame
                  THEN [quality |-> task.user["quality"], brate |-> Rates[task.user["bit_rate"] + 1],
                        gain |-> task.user["replay_gain"], audio |-> "default"]
                  ELSE [audio |-> "decoder"]]
  /\ UNCHANGED <<encoderNames, dialog, chosen, conversion, shown>>

Next ==
  \/ \E item \in Source : SlotConvert(item)
  \/ \E k \in DOMAIN encoderNames : SelectEncoder(k)
  \/ \E o \in DOMAIN shown : \E val \in Option[o] : SetWidget(o, val)
  \/ CreateConversion \/ AddTask \/ Cancel \/ OpenOutput

Spec == Init /\ [][Next]_vars

-----------------------------------------------------------------------------
(* Properties.                                                             *)

(* While the dialog of options is open, each widget shows what its option  *)
(* is, both of one number the same, and every option has a widget.         *)
ShowsOptions ==
  dialog = "options" =>
    /\ DOMAIN shown = OptionsOf(conversion.encoder)
    /\ \A o \in DOMAIN shown : \A w \in DOMAIN shown[o] : shown[o][w] = conversion.user[o]

(* A conversion has the item and the encoder that were chosen, and opens   *)
(* its file with what the widgets showed when the dialog was accepted,     *)
(* whatever has been chosen for another since.                             *)
DoneAsAgreed ==
  task.state = "opened" =>
    /\ task.item = task.agreed.item /\ task.encoder = task.agreed.encoder
    /\ task.encoder = Lame =>
         /\ task.params.quality = task.agreed.shown["quality"].slider
         /\ task.params.brate = Rates[task.agreed.shown["bit_rate"].box + 1]
         /\ task.params.gain = task.agreed.shown["replay_gain"].box

OptionsInv == ShowsOptions /\ DoneAsAgreed
=============================================================================

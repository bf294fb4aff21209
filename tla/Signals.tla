------------------------------ MODULE Signals ------------------------------
(***************************************************************************)
(* sdk/scx/Signal.h: a signal and its slots.                               *)
(*                                                                         *)
(* There is no lock in it.  sigPlayNextItem of the service is connected,   *)
(* disconnected and emitted under the context's mutex; SigFinished of the  *)
(* player is emitted by a detached thread without one.                     *)
(***************************************************************************)
EXTENDS Integers, Sequences, FiniteSets, Functions

CONSTANTS
  Target,       \* what may be connected: [fn, obj], a function and what it is called on
  NoObject,     \* that of a free function
  Address,      \* where slots are made, which is the id that Connect returns
  EmitBound     \* bound: how many emissions there are

VARIABLES
  guarded,      \* whoever uses the signal holds a mutex
  slots,        \* _slots
  emitting,     \* the loop of operator(): off, at its test, at the element, in the slot; and i
  emits,
  \* For the properties only:
  called,       \* the slots that this emission has called, until
  raced,        \* one is taken out meanwhile
  gone,         \* objects that were disconnected, and not connected since
  astray        \* an element was used that is not there, or a slot destroyed while it ran

vars == <<guarded, slots, emitting, emits, called, raced, gone, astray>>

Idle == [at |-> "off", i |-> 0]
Ids(s) == {slot.id : slot \in Range(s)}
Function == {t.fn : t \in Target}
Object == {t.obj : t \in Target} \ {NoObject}

Init ==
  /\ guarded \in BOOLEAN /\ slots = <<>> /\ emitting = Idle /\ emits = 0
  /\ called = <<>> /\ raced = FALSE /\ gone = {} /\ astray = FALSE

MayUse == guarded => emitting = Idle

-----------------------------------------------------------------------------
(* A slot is new memory: its address is that of no other there is, but may *)
(* be that of one there was.                                               *)
Connect(t) ==
  /\ MayUse /\ Address \ Ids(slots) # {}
  /\ slots' = Append(slots, [id |-> CHOOSE id \in Address : id \notin Ids(slots), fn |-> t.fn, obj |-> t.obj])
  /\ gone' = gone \ {t.obj}
  /\ UNCHANGED <<guarded, emitting, emits, called, raced, astray>>

(* Mutant of Without: the last that fits stays.                            *)
WithoutMost(s, fits) ==
  LET last == {k \in DOMAIN s : s[k] \in fits /\ \A j \in DOMAIN s : s[j] \in fits => j <= k} IN
  SelectSeq(s, LAMBDA slot : slot \notin fits \/ \E k \in last : s[k] = slot)

(* EraseIf, and the loop over ids: the order of the others stays.          *)
Without(s, fits) ==
  LET kept == {k \in DOMAIN s : s[k] \notin fits}
  IN [n \in 1 .. Cardinality(kept) |-> s[CHOOSE k \in kept : Cardinality({j \in kept : j <= k}) = n]]

Erase(fits) ==
  /\ MayUse /\ fits # {}
  /\ slots' = Without(slots, fits)
  /\ raced' = (raced \/ emitting # Idle)
  /\ called' = <<>>
  /\ astray' = (emitting.at = "slot" /\ ~raced /\ slots[emitting.i] \in fits)
  /\ UNCHANGED <<guarded, emitting, emits>>

DisconnectId(id) == Erase({slot \in Range(slots) : slot.id = id}) /\ UNCHANGED gone
DisconnectFunction(fn) ==
  Erase({slot \in Range(slots) : slot.obj = NoObject /\ slot.fn = fn}) /\ UNCHANGED gone
DisconnectMember(fn, obj) ==
  Erase({slot \in Range(slots) : slot.obj = obj /\ slot.fn = fn}) /\ UNCHANGED gone
DisconnectObject(obj) ==
  Erase({slot \in Range(slots) : slot.obj = obj}) /\ gone' = gone \cup {obj}
Clear == Erase(Range(slots)) /\ UNCHANGED gone

-----------------------------------------------------------------------------
(* operator(): how many slots there are is looked at before each.          *)

Emit ==
  /\ emitting = Idle /\ emits < EmitBound
  /\ emitting' = [at |-> "test", i |-> 1] /\ emits' = emits + 1
  /\ UNCHANGED <<guarded, slots, called, raced, gone, astray>>

Test ==
  /\ emitting.at = "test"
  /\ IF emitting.i <= Len(slots)
     THEN emitting' = [emitting EXCEPT !.at = "element"] /\ UNCHANGED <<called, raced>>
     ELSE emitting' = Idle /\ called' = <<>> /\ raced' = FALSE
  /\ UNCHANGED <<guarded, slots, emits, gone, astray>>

Invoke ==
  /\ emitting.at = "element"
  /\ IF emitting.i <= Len(slots)
     THEN /\ emitting' = [emitting EXCEPT !.at = "slot"]
          /\ called' = IF raced THEN <<>> ELSE Append(called, slots[emitting.i])
          /\ UNCHANGED astray
     ELSE /\ astray' = TRUE
          /\ UNCHANGED <<emitting, called>>
  /\ UNCHANGED <<guarded, slots, emits, raced, gone>>

(* Mutant of Return: the loop goes on with the slot after the next.        *)
ReturnPast ==
  /\ emitting.at = "slot"
  /\ emitting' = [at |-> "test", i |-> emitting.i + 2]
  /\ UNCHANGED <<guarded, slots, emits, called, raced, gone, astray>>

Return ==
  /\ emitting.at = "slot"
  /\ emitting' = [at |-> "test", i |-> emitting.i + 1]
  /\ UNCHANGED <<guarded, slots, emits, called, raced, gone, astray>>

Next ==
  /\ ~astray
  /\ \/ \E t \in Target : Connect(t)
     \/ \E id \in Address : DisconnectId(id)
     \/ \E fn \in Function : DisconnectFunction(fn) \/ \E obj \in Object : DisconnectMember(fn, obj)
     \/ (\E obj \in Object : DisconnectObject(obj)) \/ Clear
     \/ Emit \/ Test \/ Invoke \/ Return

Spec == Init /\ [][Next]_vars

-----------------------------------------------------------------------------
(* Properties.                                                             *)

(* Who has disconnected an object finds none of its functions connected.   *)
NobodyGone == \A slot \in Range(slots) : slot.obj \notin gone

(* An emission calls all that are connected, those that come meanwhile     *)
(* too, each once and in the order of their coming, as long as none is     *)
(* taken out; and under a mutex none is, nor is a slot used that has gone. *)
EachInTurn ==
  /\ emitting # Idle => called = SubSeq(slots, 1, Len(called))
  /\ emitting.at = "test" /\ ~raced => Len(called) = emitting.i - 1
  /\ guarded => ~raced /\ ~astray

(* Both, and no two slots have one id.                                     *)
SlotsInv == NobodyGone /\ EachInTurn /\ Cardinality(Ids(slots)) = Len(slots)
=============================================================================

----------------------------- MODULE Containers -----------------------------
(***************************************************************************)
(* A container goes through a buffer (sdk/scx/BufObj.h): what it takes is  *)
(* measured, memory of that size is made, it is written there, and read    *)
(* from there into one that may hold something already.  An array, a list, *)
(* a queue, a stack and a string take the place of what was there; the     *)
(* elements of a set and the entries of a map join it.                     *)
(***************************************************************************)
EXTENDS BufObj, TLC

CONSTANTS
  Values,   \* numbers
  Strings   \* strings

VARIABLES
  kind, type,  \* what is written, and of what
  source,      \* what is written
  target,      \* what it is read into
  buf,         \* the buffer
  need,        \* the size measured
  phase,
  held         \* for the properties only: what the target held before

containers == <<kind, type, source, target, buf, need, phase, held>>

Kinds == {"string", "array", "list", "queue", "stack", "set", "map"}

Element(t) == IF t = "string" THEN Strings ELSE Values

(* Elements as the tuples of their values; the entries of a map.           *)
Lists(t) == {[k \in DOMAIN l |-> <<l[k]>>] : l \in UNION {[1 .. n -> Element(t)] : n \in 0 .. 2}}

Of(k, t) ==
  CASE k = "string" -> Strings
    [] k \in {"array", "list", "queue", "stack"} -> Lists(t)
    [] k = "set" -> {{<<x>> : x \in S} : S \in SUBSET Values}
    [] k = "map" -> UNION {[S -> Element(t)] : S \in SUBSET Values}

Init ==
  /\ kind \in Kinds
  /\ type \in (IF kind = "set" THEN {"char", "int", "long"} ELSE {"char", "int", "long", "string"})
  /\ source \in Of(kind, type) /\ target \in Of(kind, type)
  /\ held = target
  /\ buf = NoMemory /\ need = 0 /\ phase = "measure"

(* operator<< and operator>> of each of them.                              *)
PutContainer(b) ==
  CASE kind = "string" -> PutString(b, source)
    [] kind = "array" -> PutArray(b, <<type>>, source)
    [] kind \in {"list", "queue"} -> PutList(b, <<type>>, source)
    [] kind = "stack" -> PutStack(b, <<type>>, source)
    [] kind = "set" -> PutSet(b, <<type>>, source)
    [] kind = "map" -> PutMap(b, "int", type, source)

TakeContainer(b) ==
  CASE kind = "string" -> TakeString(b)
    [] kind \in {"array", "queue", "stack"} -> TakeArray(b, <<type>>)
    [] kind = "list" -> TakeList(b, <<type>>)
    [] kind = "set" -> TakeSet(b, <<type>>, target)
    [] kind = "map" -> TakeMap(b, "int", type, target)

Measure ==
  /\ phase = "measure" /\ phase' = "write"
  /\ need' = PutContainer(NoMemory).off
  /\ UNCHANGED <<kind, type, source, target, buf, held>>

WriteThere ==
  /\ phase = "write" /\ phase' = "read"
  /\ buf' = PutContainer(SetBuffer(Fresh(need)))
  /\ UNCHANGED <<kind, type, source, target, need, held>>

ReadThere ==
  /\ phase = "read" /\ phase' = "done"
  /\ LET taken == TakeContainer(SetBuffer(buf.mem))
     IN buf' = taken.buf /\ target' = taken.val
  /\ UNCHANGED <<kind, type, source, need, held>>

Next == Measure \/ WriteThere \/ ReadThere

Spec == Init /\ [][Next]_containers

-----------------------------------------------------------------------------
(* What was measured is what is written and what is read, to the last cell *)
(* and not beyond, and what is read is what was written: the elements in   *)
(* their order, the top of a stack on top.  A set and a map keep what they *)
(* held, a map under the keys that were not read.                          *)
ContainersInv ==
  /\ phase \in {"read", "done"} => buf.off = need /\ ~buf.over
  /\ phase = "done" =>
       CASE kind = "set" -> target = source \cup held
         [] kind = "map" -> target = source @@ held
         [] OTHER -> target = source

=============================================================================

--------------------------- MODULE BlockingQueue ---------------------------
(***************************************************************************)
(* The queue between the player's threads, sdk/scx/BlockingQueue.h: one    *)
(* mutex, one condition variable, one deque.                               *)
(*                                                                         *)
(* A call enters the critical section, works there in one step (nobody     *)
(* else gets in meanwhile) and leaves; Take and Wait fall asleep there     *)
(* while their condition does not hold, which gives the mutex back, and    *)
(* enter again when they are notified or for no reason.  PlayerImpl reads  *)
(* Empty() without the mutex; that read is part of module Player.          *)
(***************************************************************************)
EXTENDS Integers, Sequences

CONSTANTS Thread, Value, Counts, NoValue, NoCall,  \* as in AtomicQueue
          NoThread,  \* the mutex is free
          MaxLen     \* bound: nothing is pushed on a queue of this length

ASSUME NoThreadAssumption == NoThread \notin Thread
ASSUME CountsAssumption == Counts \subseteq Nat
ASSUME MaxLenAssumption == MaxLen \in Nat

VARIABLES
  queue, call, taken,  \* as in AtomicQueue
  mutex,               \* mutex_: the thread that holds it
  pc                   \* where each thread is

vars == <<queue, call, taken, mutex, pc>>

Calls ==
  [op : {"PushBack", "PushFront"}, arg : Value]
    \cup [op : {"Take", "TryTake", "Clear"}, arg : {NoValue}]
    \cup [op : {"Wait"}, arg : Counts]

ASSUME NoCallAssumption == NoCall \notin Calls

Init ==
  /\ queue = <<>>
  /\ call = [t \in Thread |-> NoCall]
  /\ taken = [t \in Thread |-> NoValue]
  /\ mutex = NoThread
  /\ pc = [t \in Thread |-> "out"]

Begin(t, c) ==
  /\ pc[t] = "out"
  /\ c.op \in {"PushBack", "PushFront"} => Len(queue) < MaxLen
  /\ call' = [call EXCEPT ![t] = c]
  /\ pc' = [pc EXCEPT ![t] = "enter"]
  /\ UNCHANGED <<queue, taken, mutex>>

Enter(t) ==
  /\ pc[t] = "enter" /\ mutex = NoThread
  /\ mutex' = t
  /\ pc' = [pc EXCEPT ![t] = "inside"]
  /\ UNCHANGED <<queue, call, taken>>

Inside(t, op) == pc[t] = "inside" /\ call[t].op = op

(* The call returns: the destructor of the lock gives the mutex back.      *)
Return(t) ==
  /\ call' = [call EXCEPT ![t] = NoCall]
  /\ mutex' = NoThread

Leave(t) ==
  /\ Return(t)
  /\ pc' = [pc EXCEPT ![t] = "out"]

(* notify_all before the call returns: all sleepers contend for the mutex. *)
LeaveNotifying(t) ==
  /\ Return(t)
  /\ pc' = [u \in Thread |-> IF u = t THEN "out"
                             ELSE IF pc[u] = "asleep" THEN "enter" ELSE pc[u]]

(* Mutant of PushBack: only the first value of an empty queue is notified. *)
PushBackQuiet(t) ==
  /\ Inside(t, "PushBack")
  /\ queue' = Append(queue, call[t].arg)
  /\ IF queue = <<>> THEN LeaveNotifying(t) ELSE Leave(t)
  /\ UNCHANGED taken

PushBack(t) ==
  /\ Inside(t, "PushBack")
  /\ queue' = Append(queue, call[t].arg)
  /\ LeaveNotifying(t)
  /\ UNCHANGED taken

(* Mutant of PushFront: it does what PushBack does.                        *)
PushFrontBack(t) ==
  /\ Inside(t, "PushFront")
  /\ queue' = Append(queue, call[t].arg)
  /\ LeaveNotifying(t)
  /\ UNCHANGED taken

PushFront(t) ==
  /\ Inside(t, "PushFront")
  /\ queue' = <<call[t].arg>> \o queue
  /\ LeaveNotifying(t)
  /\ UNCHANGED taken

(* What Take and Wait wait for; the other calls never wait.                *)
CanProceed(c) ==
  /\ c.op = "Take" => queue # <<>>
  /\ c.op = "Wait" => Len(queue) >= c.arg

Take(t) ==
  /\ Inside(t, "Take") \/ Inside(t, "TryTake")
  /\ queue # <<>>
  /\ taken' = [taken EXCEPT ![t] = Head(queue)]
  /\ queue' = Tail(queue)
  /\ Leave(t)

TakeNothing(t) ==
  /\ Inside(t, "TryTake") /\ queue = <<>>
  /\ taken' = [taken EXCEPT ![t] = NoValue]
  /\ Leave(t)
  /\ UNCHANGED queue

Wait(t) ==
  /\ Inside(t, "Wait") /\ CanProceed(call[t])
  /\ Leave(t)
  /\ UNCHANGED <<queue, taken>>

(* condition_.wait with a condition that does not hold.                    *)
Sleep(t) ==
  /\ pc[t] = "inside" /\ ~CanProceed(call[t])
  /\ pc' = [pc EXCEPT ![t] = "asleep"]
  /\ mutex' = NoThread
  /\ UNCHANGED <<queue, call, taken>>

(* A condition variable may wake a thread spuriously.                      *)
Wake(t) ==
  /\ pc[t] = "asleep"
  /\ pc' = [pc EXCEPT ![t] = "enter"]
  /\ UNCHANGED <<queue, call, taken, mutex>>

Clear(t) ==
  /\ Inside(t, "Clear")
  /\ queue' = <<>>
  /\ Leave(t)
  /\ UNCHANGED taken

Work(t) == PushBack(t) \/ PushFront(t) \/ Take(t) \/ TakeNothing(t)
           \/ Wait(t) \/ Sleep(t) \/ Clear(t)

Next == \E t \in Thread :
  (\E c \in Calls : Begin(t, c)) \/ Enter(t) \/ Work(t) \/ Wake(t)

Spec == Init /\ [][Next]_vars

(* A thread inside goes on, and no thread that wants the mutex is passed   *)
(* over for ever; nobody has to make a call, and nobody wakes by itself.   *)
FairSpec == /\ Spec
            /\ \A t \in Thread : WF_vars(Work(t)) /\ SF_vars(Enter(t))
-----------------------------------------------------------------------------
(* Properties.                                                             *)

(* Every variable stays in its domain, and the mutex belongs to exactly    *)
(* the thread that is inside.                                              *)
TypeOK ==
  /\ queue \in Seq(Value)
  /\ call \in [Thread -> Calls \cup {NoCall}]
  /\ taken \in [Thread -> Value \cup {NoValue}]
  /\ mutex \in Thread \cup {NoThread}
  /\ pc \in [Thread -> {"out", "enter", "inside", "asleep"}]
  /\ \A t \in Thread : /\ pc[t] = "out" <=> call[t] = NoCall
                       /\ pc[t] = "inside" <=> mutex = t

(* No wakeup is lost: nobody sleeps while what it waits for is there.      *)
NoLostWakeup ==
  \A t \in Thread : pc[t] = "asleep" => ~CanProceed(call[t])

(* The queue does what AtomicQueue says, whatever the threads interleave.  *)
Atomic == INSTANCE AtomicQueue
ImplementsAtomicQueue == Atomic!Spec

(* A call that can go on from some time on returns: a Take that waits on a *)
(* queue that stays non-empty, a Wait on one that stays long enough.       *)
ReturnsWhenReady ==
  \A t \in Thread : []<>(call[t] = NoCall \/ ~CanProceed(call[t]))
=============================================================================

---------------------------- MODULE AtomicQueue ----------------------------
(***************************************************************************)
(* What sdk/scx/BlockingQueue.h promises its callers, and what the Player  *)
(* module takes a mailbox to be: every call takes effect in one step, some *)
(* time between its beginning and its return.                              *)
(***************************************************************************)
EXTENDS Integers, Sequences

CONSTANTS
  Thread,  \* the threads that use the queue
  Value,   \* what they put in
  Counts,  \* the lengths they wait for
  NoValue, \* T{}, which TryTake returns when the queue is empty
  NoCall   \* a thread that is in no call

VARIABLES
  queue,   \* the values, front first
  call,    \* the call each thread is in
  taken    \* what the last Take or TryTake of each thread returned

vars == <<queue, call, taken>>

Calls ==
  [op : {"PushBack", "PushFront"}, arg : Value]
    \cup [op : {"Take", "TryTake", "Clear"}, arg : {NoValue}]
    \cup [op : {"Wait"}, arg : Counts]

Init ==
  /\ queue = <<>>
  /\ call = [t \in Thread |-> NoCall]
  /\ taken = [t \in Thread |-> NoValue]

Begin(t) ==
  /\ call[t] = NoCall
  /\ \E c \in Calls : call' = [call EXCEPT ![t] = c]
  /\ UNCHANGED <<queue, taken>>

In(t, op) == call[t] # NoCall /\ call[t].op = op
Return(t) == call' = [call EXCEPT ![t] = NoCall]

PushBack(t) ==
  /\ In(t, "PushBack") /\ Return(t)
  /\ queue' = queue \o <<call[t].arg>>
  /\ UNCHANGED taken

PushFront(t) ==
  /\ In(t, "PushFront") /\ Return(t)
  /\ queue' = <<call[t].arg>> \o queue
  /\ UNCHANGED taken

(* Take waits for a value, TryTake does without.                           *)
Take(t) ==
  /\ In(t, "Take") \/ In(t, "TryTake")
  /\ Return(t)
  /\ queue # <<>>
  /\ queue = <<taken'[t]>> \o queue'
  /\ taken' = [taken EXCEPT ![t] = taken'[t]]

TakeNothing(t) ==
  /\ In(t, "TryTake") /\ Return(t)
  /\ queue = <<>>
  /\ taken' = [taken EXCEPT ![t] = NoValue]
  /\ UNCHANGED queue

Wait(t) ==
  /\ In(t, "Wait") /\ Return(t)
  /\ Len(queue) >= call[t].arg
  /\ UNCHANGED <<queue, taken>>

Clear(t) ==
  /\ In(t, "Clear") /\ Return(t)
  /\ queue' = <<>>
  /\ UNCHANGED taken

Next == \E t \in Thread :
  \/ Begin(t) \/ PushBack(t) \/ PushFront(t) \/ Take(t) \/ TakeNothing(t)
  \/ Wait(t) \/ Clear(t)

Spec == Init /\ [][Next]_vars
=============================================================================

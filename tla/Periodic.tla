------------------------------ MODULE Periodic ------------------------------
(***************************************************************************)
(* sdk/scx/Periodic.h: a thread that runs callbacks when they are due.     *)
(* Callers queue actions (add a task, remove a task) and the thread takes  *)
(* them over when it wakes.  The client's status sync runs on one.         *)
(*                                                                         *)
(* Deadlines are kept as the time that is left.  A thread is at most late  *)
(* by less than the interval of a task, so that it need not catch up.      *)
(* The vector with the heap is a sequence of which only the first element  *)
(* is told apart, a task with the earliest deadline: the order of the rest *)
(* is the library's.                                                       *)
(*                                                                         *)
(* There is one caller, who calls one method after the other; a callback   *)
(* may remove its own task.  An id is an address: free again when its task *)
(* has been deleted.  The caller removes no oneshot task, whose id it      *)
(* cannot know to be still its own.                                        *)
(***************************************************************************)
EXTENDS Integers, Sequences

CONSTANTS
  Id,             \* addresses of tasks
  Interval,       \* the intervals
  PendingBound    \* bound: the caller's actions that wait

(* A task is not due when it is made.                                      *)
ASSUME IntervalAssumption == Interval \subseteq Nat \ {0}

VARIABLES
  pending,        \* pending_actions_
  active,         \* active_tasks_
  toExit, toClear,\* to_exit_, to_clear_
  worker,         \* where the thread is; it has active_mutex_ in "pass"
  turn, turns,    \* i and max of the loop over expired tasks
  caller,         \* idle, in WaitUntilEmpty (pending, check, asleep), joining, gone
  crashed,        \* an element outside the vector was used
  mixed           \* for the properties only: a oneshot task shared the vector

periodicVars == <<pending, active, toExit, toClear, worker, turn, turns, caller, crashed, mixed>>

Task == [id : Id, left : Int, interval : Interval, oneshot : BOOLEAN, ran : BOOLEAN]
Add(task) == [do |-> "add", task |-> task]
Remove(id) == [do |-> "remove", id |-> id]
Wakeup == [do |-> "nothing"]

Elements(s) == {s[k] : k \in DOMAIN s}
Dropped(v, k) == SubSeq(v, 1, k - 1) \o SubSeq(v, k + 1, Len(v))
Active == {task.id : task \in Elements(active)}
AddedIn(actions) == {action.task.id : action \in {a \in Elements(actions) : a.do = "add"}}
Added == AddedIn(pending)
Removed == {pending[k].id : k \in {j \in DOMAIN pending :
  pending[j].do = "remove" /\ pending[j].id \notin AddedIn(SubSeq(pending, j + 1, Len(pending)))}}
Periodics == {task.id : task \in {t \in Elements(active) : ~t.oneshot}}

PeriodicInit ==
  /\ pending = <<>> /\ active = <<>> /\ toExit = FALSE /\ toClear = FALSE
  /\ worker = "top" /\ turn = 0 /\ turns = 0 /\ caller = "idle"
  /\ crashed = FALSE /\ mixed = FALSE

-----------------------------------------------------------------------------
(* The heap.                                                               *)

Earliest(v) == {k \in DOMAIN v : \A j \in DOMAIN v : v[k].left <= v[j].left}
IsHeap(v) == v = <<>> \/ 1 \in Earliest(v)
WithFront(v, k) == <<v[k]>> \o Dropped(v, k)
MadeHeap(v) == IF IsHeap(v) THEN {v} ELSE {WithFront(v, k) : k \in Earliest(v)}

(* Mutant of PoppedHeap: the first element stays where it is.             *)
PoppedHeapNot(v, n) == {v}

(* The first element to the end of the first n, which become a heap again. *)
PoppedHeap(v, n) ==
  IF n < 2 THEN {v}
  ELSE LET rest == SubSeq(v, 2, n) IN
       {WithFront(rest, k) \o <<v[1]>> \o SubSeq(v, n + 1, Len(v)) : k \in Earliest(rest)}

-----------------------------------------------------------------------------
(* The thread.                                                             *)

FrontDue == active # <<>> /\ Head(active).left <= 0
Notified == IF caller = "asleep" THEN "check" ELSE caller

(* Mutant of Top: nobody is told that the vector is empty.                 *)
TopQuiet ==
  /\ worker = "top"
  /\ worker' = IF toExit THEN "done" ELSE "wait"
  /\ UNCHANGED <<pending, active, toExit, toClear, turn, turns, caller, crashed, mixed>>

(* The head of the loop, up to the wait.                                   *)
Top ==
  /\ worker = "top"
  /\ worker' = IF toExit THEN "done" ELSE "wait"
  /\ caller' = IF ~toExit /\ active = <<>> THEN Notified ELSE caller
  /\ UNCHANGED <<pending, active, toExit, toClear, turn, turns, crashed, mixed>>

(* An action is there or the first task is due.  What to do is decided     *)
(* before any other lock is taken.                                         *)
WakeForWork ==
  /\ worker = "wait"
  /\ pending # <<>> \/ FrontDue
  /\ worker' = IF toClear THEN "clear" ELSE IF toExit THEN "done" ELSE "merge"
  /\ UNCHANGED <<pending, active, toExit, toClear, turn, turns, caller, crashed, mixed>>

ClearPending ==
  /\ worker = "clear" /\ worker' = "clear active"
  /\ pending' = <<>>
  /\ UNCHANGED <<active, toExit, toClear, turn, turns, caller, crashed, mixed>>

ClearActive ==
  /\ worker = "clear active" /\ worker' = "cleared"
  /\ active' = <<>>
  /\ caller' = Notified
  /\ UNCHANGED <<pending, toExit, toClear, turn, turns, crashed, mixed>>

Cleared ==
  /\ worker = "cleared" /\ worker' = "top"
  /\ toClear' = FALSE
  /\ UNCHANGED <<pending, active, toExit, turn, turns, caller, crashed, mixed>>

(* Without the first task of an id.                                        *)
Without(v, id) ==
  LET at == {k \in DOMAIN v : v[k].id = id} IN
  IF at = {} THEN v ELSE Dropped(v, CHOOSE k \in at : \A j \in at : k <= j)

(* The vector after an action, and after a sequence of them.               *)
Applied(v, action) ==
  CASE action.do = "add" -> Append(v, action.task)
    [] action.do = "remove" -> Without(v, action.id)
    [] OTHER -> v

AfterPending ==
  LET after[k \in 0 .. Len(pending)] == IF k = 0 THEN active ELSE Applied(after[k - 1], pending[k])
  IN after[Len(pending)]

(* Pending actions are taken over.                                         *)
Merge ==
  /\ worker = "merge" /\ worker' = "pass"
  /\ active' \in MadeHeap(AfterPending)
  /\ pending' = <<>>
  /\ turn' = 0 /\ turns' = Len(active')
  /\ mixed' = (mixed \/ (Len(active') > 1 /\ \E task \in Elements(active') : task.oneshot))
  /\ UNCHANGED <<toExit, toClear, caller, crashed>>

(* Mutants of Erased: every task is; none is.                              *)
ErasedAlways(v) == IF Len(v) - turn >= 1 THEN Dropped(v, Len(v) - turn) ELSE v
ErasedNever(v) == v

(* The vector after a turn.  The reference to the first element, taken     *)
(* before pop_heap, is one to the next task after it.                      *)
Erased(v) ==
  IF v # <<>> /\ v[1].oneshot /\ Len(v) - turn >= 1 THEN Dropped(v, Len(v) - turn) ELSE v

(* The vector has no first element, no turn-th from the end.               *)
Outside(v) == v = <<>> \/ Len(v) < turn \/ (v[1].oneshot /\ Len(v) - turn < 1)

(* One turn: the first task is due, and runs; it may remove itself.        *)
RunFront ==
  /\ worker = "pass" /\ turn < turns /\ FrontDue
  /\ LET task == Head(active)
         ranOnce == [task EXCEPT !.left = @ + task.interval, !.ran = TRUE] IN
     /\ \E v \in PoppedHeap([active EXCEPT ![1] = ranOnce], Len(active) - turn) :
          /\ active' = Erased(v)
          /\ crashed' = Outside(v)
     /\ pending' \in {pending} \cup IF task.id \in Removed THEN {} ELSE {Append(pending, Remove(task.id))}
  /\ turn' = turn + 1
  /\ UNCHANGED <<worker, toExit, toClear, turns, caller, mixed>>

(* No turn is left, or the first task is not due.                          *)
PassDone ==
  /\ worker = "pass" /\ worker' = "top"
  /\ ~(turn < turns /\ FrontDue)
  /\ crashed' = (turn < turns /\ active = <<>>)
  /\ active' \in MadeHeap(active)
  /\ turn' = 0 /\ turns' = 0
  /\ UNCHANGED <<pending, toExit, toClear, caller, mixed>>

Worker ==
  \/ Top \/ WakeForWork \/ ClearPending \/ ClearActive \/ Cleared
  \/ Merge \/ RunFront \/ PassDone

-----------------------------------------------------------------------------
(* The caller.                                                             *)

Push(action) == Len(pending) < PendingBound /\ pending' = Append(pending, action)

CallAdd(id, interval, oneshot) ==
  /\ caller = "idle" /\ id \notin Active \cup Added
  /\ Push(Add([id |-> id, left |-> interval, interval |-> interval, oneshot |-> oneshot, ran |-> FALSE]))
  /\ UNCHANGED <<active, toExit, toClear, worker, turn, turns, caller, crashed, mixed>>

CallRemove(id) ==
  /\ caller = "idle" /\ id \in (Periodics \cup Added) \ Removed
  /\ Push(Remove(id))
  /\ UNCHANGED <<active, toExit, toClear, worker, turn, turns, caller, crashed, mixed>>

(* Nobody is woken; and a call that comes while the thread clears is lost. *)
CallClear ==
  /\ caller = "idle"
  /\ toClear' = TRUE
  /\ UNCHANGED <<pending, active, toExit, worker, turn, turns, caller, crashed, mixed>>

CallWait ==
  /\ caller = "idle" /\ caller' = "pending"
  /\ UNCHANGED <<pending, active, toExit, toClear, worker, turn, turns, crashed, mixed>>

(* The two waits of WaitUntilEmpty.                                        *)
WaitActive ==
  \/ caller = "pending" /\ pending = <<>> /\ caller' = "check"
  \/ /\ caller = "check" /\ worker # "pass"
     /\ caller' = IF active = <<>> THEN "idle" ELSE "asleep"

Waiting ==
  /\ WaitActive
  /\ UNCHANGED <<pending, active, toExit, toClear, worker, turn, turns, crashed, mixed>>

Destroy ==
  /\ caller = "idle" /\ caller' = "joining"
  /\ toExit' = TRUE
  /\ pending' = Append(pending, Wakeup)
  /\ UNCHANGED <<active, toClear, worker, turn, turns, crashed, mixed>>

Join ==
  /\ caller = "joining" /\ worker = "done" /\ caller' = "gone"
  /\ UNCHANGED <<pending, active, toExit, toClear, worker, turn, turns, crashed, mixed>>

Caller ==
  \/ \E id \in Id : CallRemove(id) \/ \E interval \in Interval, oneshot \in BOOLEAN : CallAdd(id, interval, oneshot)
  \/ CallClear \/ CallWait \/ Destroy

(* Time passes.                                                            *)
Passed(task) == [task EXCEPT !.left = IF @ > 1 - task.interval THEN @ - 1 ELSE @]
Tick ==
  /\ active' = [k \in DOMAIN active |-> Passed(active[k])]
  /\ pending' = [k \in DOMAIN pending |->
       IF pending[k].do = "add" THEN Add(Passed(pending[k].task)) ELSE pending[k]]
  /\ UNCHANGED <<toExit, toClear, worker, turn, turns, caller, crashed, mixed>>

PeriodicNext == ~crashed /\ (Worker \/ Caller \/ Waiting \/ Join \/ Tick)

PeriodicSpec == PeriodicInit /\ [][PeriodicNext]_periodicVars

(* The thread runs, time passes, and a call that waits goes on.            *)
FairPeriodicSpec ==
  /\ PeriodicSpec
  /\ WF_periodicVars(~crashed /\ Worker) /\ WF_periodicVars(~crashed /\ Tick)
  /\ SF_periodicVars(~crashed /\ Waiting) /\ WF_periodicVars(~crashed /\ Join)

-----------------------------------------------------------------------------
(* Properties.                                                             *)

(* Every variable stays in its domain, and no two tasks have one address.  *)
TasksTyped ==
  /\ \A task \in Elements(active) : task \in Task /\ task.left > -task.interval
  /\ \A i, j \in DOMAIN active : active[i].id = active[j].id => i = j
  /\ worker \in {"top", "wait", "clear", "clear active", "cleared", "merge", "pass", "done"}
  /\ caller \in {"idle", "pending", "check", "asleep", "joining", "gone"}
  /\ turn \in 0 .. turns
  /\ {toExit, toClear, crashed, mixed} \subseteq BOOLEAN

(* As long as no oneshot task shares the vector with another: no element   *)
(* outside it is used, and between the rounds no oneshot task is left that *)
(* has run.  (With one, the flag of the wrong task decides.)  Every        *)
(* variable is in its domain.                                              *)
OneshotOnce ==
  /\ TasksTyped
  /\ ~mixed => ~crashed /\ (worker \in {"top", "wait"} => \A task \in Elements(active) : ~(task.oneshot /\ task.ran))

(* A periodic task goes only when a removal of it, or a clearing, is under *)
(* way; again unless there is a oneshot task beside it.  And when          *)
(* WaitUntilEmpty returns there is no task, active or on its way.          *)
TasksStay ==
  /\ \A id \in Periodics \ Periodics' : mixed' \/ toClear \/ id \in Removed
  /\ caller # "idle" /\ caller' = "idle" => active = <<>> /\ Added = {}

(* Both: each task is there as long as it should be.                       *)
TasksKept == [][TasksStay /\ OneshotOnce']_periodicVars

(* All tasks are removed, are oneshot, or are cleared, which those are not *)
(* that are added while the thread clears.                                 *)
Leaving ==
  \/ toClear /\ worker \notin {"clear active", "cleared"}
  \/ Periodics \cup Added \subseteq Removed

(* WaitUntilEmpty returns when there is nothing to stay for.               *)
WaitReturns ==
  (caller \in {"pending", "check", "asleep"} /\ Leaving) ~> (caller = "idle" \/ mixed \/ crashed)

(* Every due task runs, or goes: none is passed over for ever.             *)
DueRuns ==
  \A id \in Id : (\E task \in Elements(active) : task.id = id /\ task.left <= 0)
                  ~> (~(\E task \in Elements(active) : task.id = id /\ task.left <= 0) \/ toExit \/ mixed)

(* Both.                                                                   *)
TasksServed == WaitReturns /\ DueRuns
=============================================================================

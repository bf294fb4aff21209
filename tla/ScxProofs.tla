----------------------------- MODULE ScxProofs -----------------------------
(***************************************************************************)
(* Proofs about the two classes of sdk/scx that wait: BlockingQueue, for   *)
(* any threads, values and counts, and Periodic, for any tasks and         *)
(* intervals.                                                              *)
(***************************************************************************)
EXTENDS BlockingQueue, Periodic, SequenceTheorems, WellFoundedInduction, TLAPS

QueueInv == TypeOK /\ NoLostWakeup

(* The type invariant is inductive.                                        *)
LEMMA TypeInit == Init => TypeOK
BY NoThreadAssumption DEF Init, TypeOK

(* Leaving the critical section keeps the types of the thread states.      *)
LEMMA LeaveType ==
  ASSUME TypeOK, NEW t \in Thread, pc[t] = "inside",
         Leave(t) \/ LeaveNotifying(t)
  PROVE  /\ call' \in [Thread -> Calls \cup {NoCall}]
         /\ mutex' \in Thread \cup {NoThread}
         /\ pc' \in [Thread -> {"out", "enter", "inside", "asleep"}]
         /\ \A u \in Thread : /\ pc'[u] = "out" <=> call'[u] = NoCall
                              /\ pc'[u] = "inside" <=> mutex' = u
BY NoThreadAssumption DEF TypeOK, Leave, LeaveNotifying, Return

(* Every step keeps the types.                                            *)
LEMMA TypeStep ==
  ASSUME TypeOK, [Next]_vars
  PROVE  TypeOK'
<1>1. ASSUME NEW t \in Thread, NEW c \in Calls, Begin(t, c) PROVE TypeOK'
  BY <1>1, NoCallAssumption DEF TypeOK, Begin
<1>2. ASSUME NEW t \in Thread, Enter(t) PROVE TypeOK'
  BY <1>2, NoThreadAssumption DEF TypeOK, Enter
<1>3. ASSUME NEW t \in Thread, PushBack(t) PROVE TypeOK'
  <2>1. pc[t] = "inside" /\ call[t].op = "PushBack" /\ LeaveNotifying(t)
    BY <1>3 DEF PushBack, Inside
  <2>2. call[t].arg \in Value
    BY <2>1 DEF TypeOK, Calls
  <2>3. queue' \in Seq(Value) /\ taken' = taken
    BY <1>3, <2>2 DEF PushBack, TypeOK
  <2> QED BY <2>1, <2>3, LeaveType DEF TypeOK
<1>4. ASSUME NEW t \in Thread, PushFront(t) PROVE TypeOK'
  <2>1. pc[t] = "inside" /\ call[t].op = "PushFront" /\ LeaveNotifying(t)
    BY <1>4 DEF PushFront, Inside
  <2>2. call[t].arg \in Value
    BY <2>1 DEF TypeOK, Calls
  <2>3. queue' \in Seq(Value) /\ taken' = taken
    BY <1>4, <2>2 DEF PushFront, TypeOK
  <2> QED BY <2>1, <2>3, LeaveType DEF TypeOK
<1>5. ASSUME NEW t \in Thread, Take(t) PROVE TypeOK'
  <2>1. pc[t] = "inside" /\ Leave(t) /\ queue # <<>>
    BY <1>5 DEF Take, Inside
  <2>2. queue' \in Seq(Value) /\ Head(queue) \in Value
    BY <1>5, <2>1 DEF Take, TypeOK
  <2>3. taken' \in [Thread -> Value \cup {NoValue}]
    BY <1>5, <2>2 DEF Take, TypeOK
  <2> QED BY <2>1, <2>2, <2>3, LeaveType DEF TypeOK
<1>6. ASSUME NEW t \in Thread, TakeNothing(t) PROVE TypeOK'
  BY <1>6, LeaveType DEF TakeNothing, Inside, TypeOK
<1>7. ASSUME NEW t \in Thread, Wait(t) PROVE TypeOK'
  BY <1>7, LeaveType DEF Wait, Inside, TypeOK
<1>8. ASSUME NEW t \in Thread, Sleep(t) PROVE TypeOK'
  BY <1>8, NoThreadAssumption DEF Sleep, TypeOK
<1>9. ASSUME NEW t \in Thread, Clear(t) PROVE TypeOK'
  BY <1>9, LeaveType DEF Clear, Inside, TypeOK
<1>10. ASSUME NEW t \in Thread, Wake(t) PROVE TypeOK'
  BY <1>10 DEF Wake, TypeOK
<1>11. ASSUME UNCHANGED vars PROVE TypeOK'
  BY <1>11 DEF vars, TypeOK
<1> QED BY <1>1, <1>2, <1>3, <1>4, <1>5, <1>6, <1>7, <1>8, <1>9, <1>10, <1>11
        DEF Next, Work

-----------------------------------------------------------------------------
(* A push wakes every sleeper; whatever else is done in the queue makes no *)
(* condition true.                                                         *)
LEMMA WakeupStep ==
  ASSUME TypeOK, NoLostWakeup, [Next]_vars
  PROVE  NoLostWakeup'
<1> SUFFICES ASSUME NEW u \in Thread, pc'[u] = "asleep",
                    call'[u].op = "Take" => queue' # <<>>,
                    call'[u].op = "Wait" => Len(queue') >= call'[u].arg
             PROVE  FALSE
  BY DEF NoLostWakeup, CanProceed
<1>1. ASSUME pc[u] = "asleep"
      PROVE  \/ call[u].op = "Take" /\ queue = <<>>
             \/ call[u].op = "Wait" /\ ~(Len(queue) >= call[u].arg)
  BY <1>1 DEF NoLostWakeup, CanProceed
<1>2. ASSUME pc[u] = "asleep", call'[u] = call[u], queue' = queue PROVE FALSE
  BY <1>1, <1>2
<1>3. ASSUME NEW t \in Thread, NEW c \in Calls, Begin(t, c) PROVE FALSE
  BY <1>2, <1>3 DEF Begin, TypeOK
<1>4. ASSUME NEW t \in Thread, Enter(t) PROVE FALSE
  BY <1>2, <1>4 DEF Enter, TypeOK
<1>5. ASSUME NEW t \in Thread, PushBack(t) \/ PushFront(t) PROVE FALSE
  BY <1>5 DEF PushBack, PushFront, LeaveNotifying, TypeOK
<1>6. ASSUME NEW t \in Thread, Take(t) PROVE FALSE
  <2>1. pc[u] = "asleep" /\ call'[u] = call[u] /\ queue # <<>> /\ queue' = Tail(queue)
    BY <1>6 DEF Take, Leave, Return, TypeOK
  <2>2. call[u].op = "Wait" /\ ~(Len(queue) >= call[u].arg)
    BY <1>1, <2>1
  <2>3. call[u].arg \in Nat
    BY <2>1, <2>2, CountsAssumption DEF TypeOK, Calls
  <2>4. Len(queue') < Len(queue) /\ Len(queue) \in Nat /\ Len(queue') \in Nat
    BY <2>1 DEF TypeOK
  <2> QED BY <2>1, <2>2, <2>3, <2>4
<1>7. ASSUME NEW t \in Thread, TakeNothing(t) \/ Wait(t) PROVE FALSE
  BY <1>2, <1>7 DEF TakeNothing, Wait, Leave, Return, TypeOK
<1>8. ASSUME NEW t \in Thread, Sleep(t) PROVE FALSE
  BY <1>2, <1>8 DEF Sleep, CanProceed, TypeOK
<1>9. ASSUME NEW t \in Thread, Clear(t) PROVE FALSE
  <2>1. pc[u] = "asleep" /\ call'[u] = call[u] /\ queue' = <<>>
    BY <1>9 DEF Clear, Leave, Return, TypeOK
  <2>2. call[u].op = "Wait" /\ ~(Len(queue) >= call[u].arg)
    BY <1>1, <2>1
  <2>3. call[u] \in Calls
    BY <2>1 DEF TypeOK
  <2>4. call[u].arg \in Nat
    BY <2>2, <2>3, CountsAssumption DEF Calls
  <2>5. Len(queue) \in Nat
    BY DEF TypeOK
  <2> QED BY <2>1, <2>2, <2>4, <2>5
<1>10. ASSUME NEW t \in Thread, Wake(t) PROVE FALSE
  BY <1>2, <1>10 DEF Wake, TypeOK
<1>11. ASSUME UNCHANGED vars PROVE FALSE
  BY <1>2, <1>11 DEF vars
<1> QED BY <1>3, <1>4, <1>5, <1>6, <1>7, <1>8, <1>9, <1>10, <1>11 DEF Next, Work

(* Both hold always.                                                       *)
LEMMA QueueInvariant == Spec => []QueueInv
<1>1. Init => QueueInv
  BY TypeInit DEF Init, QueueInv, NoLostWakeup
<1>2. QueueInv /\ [Next]_vars => QueueInv'
  BY TypeStep, WakeupStep DEF QueueInv
<1> QED BY <1>1, <1>2, PTL DEF Spec

(* The domains of the variables, and the mutex with exactly the thread     *)
(* that is inside: the lock discipline of every call.                      *)
THEOREM TypeCorrect == Spec => []TypeOK
<1>1. QueueInv => TypeOK
  BY DEF QueueInv
<1> QED BY <1>1, QueueInvariant, PTL

(* No thread sleeps in Take or Wait while what it waits for is there: the  *)
(* notify_all of every push is enough, though Clear and the calls that     *)
(* take values notify nobody.                                              *)
THEOREM WakeupsKept == Spec => []NoLostWakeup
<1>1. QueueInv => NoLostWakeup
  BY DEF QueueInv
<1> QED BY <1>1, QueueInvariant, PTL

-----------------------------------------------------------------------------
(* Every step of the queue is a step of AtomicQueue, or none.              *)
LEMMA AtomicStep ==
  ASSUME TypeOK, [Next]_vars
  PROVE  [Atomic!Next]_(Atomic!vars)
<1> USE DEF Atomic!vars
<1> DEFINE Idle == UNCHANGED <<queue, call, taken>>
<1>1. ASSUME NEW t \in Thread, pc[t] = "inside", NEW op, call[t].op = op
      PROVE  Atomic!In(t, op)
  BY <1>1 DEF Atomic!In, TypeOK
<1>2. ASSUME NEW t \in Thread, Return(t) PROVE Atomic!Return(t)
  BY <1>2 DEF Return, Atomic!Return
<1>3. ASSUME NEW t \in Thread, NEW c \in Calls, Begin(t, c) PROVE Atomic!Begin(t)
  BY <1>3 DEF Begin, Atomic!Begin, Calls, Atomic!Calls, TypeOK
<1>4. ASSUME NEW t \in Thread, PushBack(t) PROVE Atomic!PushBack(t)
  <2>1. Atomic!In(t, "PushBack") /\ Atomic!Return(t)
    BY <1>1, <1>2, <1>4 DEF PushBack, Inside, LeaveNotifying
  <2>2. call[t].arg \in Value
    BY <1>4 DEF PushBack, Inside, TypeOK, Calls
  <2>3. Append(queue, call[t].arg) = queue \o <<call[t].arg>>
    BY <2>2 DEF TypeOK
  <2> QED BY <1>4, <2>1, <2>3 DEF PushBack, Atomic!PushBack
<1>5. ASSUME NEW t \in Thread, PushFront(t) PROVE Atomic!PushFront(t)
  BY <1>1, <1>2, <1>5 DEF PushFront, Inside, LeaveNotifying, Atomic!PushFront
<1>6. ASSUME NEW t \in Thread, Take(t) PROVE Atomic!Take(t)
  <2>1. Atomic!In(t, "Take") \/ Atomic!In(t, "TryTake")
    BY <1>1, <1>6 DEF Take, Inside
  <2>2. Atomic!Return(t) /\ queue # <<>>
    BY <1>2, <1>6 DEF Take, Leave
  <2>3. taken'[t] = Head(queue) /\ taken' = [taken EXCEPT ![t] = taken'[t]]
    BY <1>6 DEF Take, TypeOK
  <2>4. queue = <<Head(queue)>> \o Tail(queue)
    BY <2>2 DEF TypeOK
  <2> QED BY <1>6, <2>1, <2>2, <2>3, <2>4 DEF Take, Atomic!Take
<1>7. ASSUME NEW t \in Thread, TakeNothing(t) PROVE Atomic!TakeNothing(t)
  BY <1>1, <1>2, <1>7 DEF TakeNothing, Inside, Leave, Atomic!TakeNothing
<1>8. ASSUME NEW t \in Thread, Wait(t) PROVE Atomic!Wait(t)
  BY <1>1, <1>2, <1>8 DEF Wait, Inside, Leave, CanProceed, Atomic!Wait
<1>9. ASSUME NEW t \in Thread, Clear(t) PROVE Atomic!Clear(t)
  BY <1>1, <1>2, <1>9 DEF Clear, Inside, Leave, Atomic!Clear
<1>10. ASSUME NEW t \in Thread, Enter(t) \/ Sleep(t) \/ Wake(t) PROVE Idle
  BY <1>10 DEF Enter, Sleep, Wake
<1>11. ASSUME UNCHANGED vars PROVE Idle
  BY <1>11 DEF vars
<1> QED BY <1>3, <1>4, <1>5, <1>6, <1>7, <1>8, <1>9, <1>10, <1>11
        DEF Next, Work, Atomic!Next

(* The mutex, the sleeping and the waking are invisible: whatever threads  *)
(* interleave, each call takes effect at one moment, which is how module   *)
(* Player treats its mailboxes.                                            *)
THEOREM Implementation == Spec => ImplementsAtomicQueue
<1>1. Init => Atomic!Init
  BY DEF Init, Atomic!Init
<1>2. TypeOK /\ [Next]_vars => [Atomic!Next]_(Atomic!vars)
  BY AtomicStep
<1> QED BY <1>1, <1>2, TypeCorrect, PTL DEF Spec, ImplementsAtomicQueue, Atomic!Spec

-----------------------------------------------------------------------------
(* Periodic.                                                               *)

(* A set of numbers that is not empty has a smallest one.                  *)
LEMMA SmallestOf ==
  ASSUME NEW U, U \subseteq Nat, U # {}
  PROVE  \E n \in U : \A m \in U : n <= m
<1> DEFINE R == OpToRel(<, Nat)
<1>1. \E n \in U : \A m \in U : ~(<<m, n>> \in R)
  BY NatLessThanWellFounded, WFMin
<1>2. \A m, n \in Nat : <<m, n>> \in R <=> m < n
  BY DEF OpToRel
<1> HIDE DEF R
<1>3. PICK n \in U : \A m \in U : ~(<<m, n>> \in R)
  BY <1>1
<1>4. \A m \in U : m \in Nat /\ n \in Nat /\ ~(m < n)
  BY <1>2, <1>3
<1>5. \A m \in U : n <= m
  BY <1>4
<1> QED BY <1>5

(* A set that has 0 and the successors of its members has all numbers.     *)
LEMMA AllNumbers ==
  ASSUME NEW S, 0 \in S, \A n \in Nat : n \in S => n + 1 \in S
  PROVE  Nat \subseteq S
<1> DEFINE U == Nat \ S
<1>1. SUFFICES ASSUME U # {} PROVE FALSE
  OBVIOUS
<1>2. PICK n \in U : \A m \in U : n <= m
  BY <1>1, SmallestOf
<1>3. n \in Nat /\ n # 0 /\ n \notin S
  BY <1>2
<1>4. n - 1 \in Nat /\ ~(n <= n - 1) /\ (n - 1) + 1 = n
  BY <1>3
<1>5. n - 1 \in S
  BY <1>2, <1>4
<1> QED BY <1>3, <1>4, <1>5

(* A vector of tasks of which none is in it twice.                         *)
Vector(v) ==
  /\ v \in Seq(Task)
  /\ \A k \in 1 .. Len(v) : v[k].left > -v[k].interval
  /\ \A i, k \in 1 .. Len(v) : v[i].id = v[k].id => i = k

(* No oneshot task is left that has run.                                   *)
Fresh(v) == \A k \in 1 .. Len(v) : ~(v[k].oneshot /\ v[k].ran)

(* Nor is one beside another task.                                         *)
Apart(v) == Len(v) <= 1 \/ \A k \in 1 .. Len(v) : ~v[k].oneshot

(* The tasks on their way are new, and none has the address of another.    *)
Action == [do : {"add"}, task : Task] \cup [do : {"remove"}, id : Id] \cup {Wakeup}
Adds(a, id) == a.do = "add" /\ a.task.id = id
PendingInv ==
  /\ pending \in Seq(Action)
  /\ \A k \in 1 .. Len(pending) : pending[k].do = "add" =>
       /\ pending[k].task.left > -pending[k].task.interval /\ ~pending[k].task.ran
       /\ \A i \in 1 .. Len(pending) : Adds(pending[i], pending[k].task.id) => i = k
       /\ \A i \in 1 .. Len(active) : active[i].id # pending[k].task.id

(* Where the thread and its caller are.                                    *)
PlaceInv ==
  /\ worker \in {"top", "wait", "clear", "clear active", "cleared", "merge", "pass", "done"}
  /\ caller \in {"idle", "pending", "check", "asleep", "joining", "gone"}
  /\ turns \in Nat /\ turn \in 0 .. turns
  /\ toExit \in BOOLEAN /\ toClear \in BOOLEAN /\ crashed \in BOOLEAN /\ mixed \in BOOLEAN
  /\ worker \in {"clear", "clear active", "cleared"} => toClear

(* In a pass there are as many turns as tasks, unless the only task was a  *)
(* oneshot one and has gone.                                               *)
RoundInv ==
  ~mixed => /\ ~crashed /\ Fresh(active) /\ Apart(active)
            /\ worker = "pass" => turns = Len(active) \/ (active = <<>> /\ turn = turns)

TasksInv ==
  /\ Vector(active) /\ PendingInv /\ PlaceInv /\ RoundInv
  /\ caller \in {"check", "asleep"} => Added = {}

(* What an action is.                                                      *)
LEMMA ActionIs ==
  ASSUME NEW a \in Action
  PROVE  \/ a.do = "add" /\ a.task \in Task /\ a = Add(a.task)
         \/ a.do = "remove" /\ a.id \in Id /\ a = Remove(a.id)
         \/ a.do = "nothing" /\ a = Wakeup
BY DEF Action, Add, Remove, Wakeup

(* What is on its way to be added.                                         *)
LEMMA AddedAre ==
  ASSUME NEW s \in Seq(Action), NEW id
  PROVE  id \in AddedIn(s) <=> \E k \in 1 .. Len(s) : Adds(s[k], id)
<1>1. DOMAIN s = 1 .. Len(s)
  OBVIOUS
<1> QED BY <1>1 DEF AddedIn, Elements, Adds

(* The elements of a sequence.                                             *)
LEMMA ElementsAre ==
  ASSUME NEW Z, NEW s \in Seq(Z), NEW x
  PROVE  x \in Elements(s) <=> \E k \in 1 .. Len(s) : s[k] = x
<1>1. DOMAIN s = 1 .. Len(s)
  OBVIOUS
<1> QED BY <1>1 DEF Elements

-----------------------------------------------------------------------------
(* The vector.                                                             *)

(* One sequence has the elements of another in some order: the k-th is the *)
(* at[k]-th there.                                                         *)
Places(n, at) ==
  /\ at \in [1 .. n -> 1 .. n]
  /\ \A i, k \in 1 .. n : at[i] = at[k] => i = k
  /\ \A k \in 1 .. n : \E i \in 1 .. n : at[i] = k
Shuffled(v, w) ==
  /\ Len(w) = Len(v)
  /\ \E at : Places(Len(v), at) /\ \A k \in 1 .. Len(v) : w[k] = v[at[k]]

(* An element less.                                                        *)
LEMMA DroppedIs ==
  ASSUME NEW Z, NEW v \in Seq(Z), NEW k \in 1 .. Len(v)
  PROVE  /\ Dropped(v, k) \in Seq(Z) /\ Len(Dropped(v, k)) = Len(v) - 1
         /\ \A i \in 1 .. Len(v) - 1 : Dropped(v, k)[i] = v[IF i < k THEN i ELSE i + 1]
<1>1. PICK n \in Nat : n = Len(v)
  OBVIOUS
<1>2. k \in Int /\ 1 <= k /\ k <= n
  BY <1>1
<1> DEFINE a == SubSeq(v, 1, k - 1)
           b == SubSeq(v, k + 1, n)
<1>3. a \in Seq(Z) /\ Len(a) = k - 1 /\ \A i \in 1 .. k - 1 : a[i] = v[i]
  BY <1>1, <1>2
<1>4. b \in Seq(Z) /\ Len(b) = n - k /\ \A i \in 1 .. n - k : b[i] = v[k + i]
  BY <1>1, <1>2
<1> HIDE DEF a, b
<1>5. Dropped(v, k) = a \o b
  BY <1>1 DEF Dropped, a, b
<1>6. a \o b \in Seq(Z) /\ Len(a \o b) = n - 1
  <2>1. a \o b \in Seq(Z) /\ Len(a \o b) = Len(a) + Len(b)
    <3>1. a \in Seq(Z) /\ b \in Seq(Z)
      BY <1>3, <1>4
    <3> QED BY <3>1, ConcatProperties
  <2> QED BY <2>1, <1>2, <1>3, <1>4
<1>7. ASSUME NEW i \in 1 .. n - 1 PROVE (a \o b)[i] = v[IF i < k THEN i ELSE i + 1]
  <2>1. CASE i < k
    BY <2>1, <1>2, <1>3, <1>4
  <2>2. CASE ~(i < k)
    <3>1. i - (k - 1) \in 1 .. n - k /\ i \in 1 .. Len(a) + Len(b) /\ i > Len(a)
      BY <2>2, <1>2, <1>3, <1>4
    <3>2. (a \o b)[i] = b[i - (k - 1)]
      BY <3>1, <1>3, <1>4
    <3>3. k + (i - (k - 1)) = i + 1
      BY <1>2
    <3> QED BY <3>1, <3>2, <3>3, <1>4, <2>2
  <2> QED BY <2>1, <2>2
<1> QED BY <1>1, <1>5, <1>6, <1>7

(* An element to the front.                                                *)
LEMMA FrontIs ==
  ASSUME NEW Z, NEW v \in Seq(Z), NEW k \in 1 .. Len(v)
  PROVE  /\ WithFront(v, k) \in Seq(Z) /\ Len(WithFront(v, k)) = Len(v)
         /\ \A i \in 1 .. Len(v) : WithFront(v, k)[i] = v[IF i = 1 THEN k ELSE IF i - 1 < k THEN i - 1 ELSE i]
<1>1. PICK n \in Nat : n = Len(v)
  OBVIOUS
<1>2. k \in Int /\ 1 <= k /\ k <= n
  BY <1>1
<1>3. PICK d : d = Dropped(v, k)
  OBVIOUS
<1>4. d \in Seq(Z) /\ Len(d) = n - 1 /\ \A i \in 1 .. n - 1 : d[i] = v[IF i < k THEN i ELSE i + 1]
  BY <1>1, <1>3, DroppedIs
<1>5. WithFront(v, k) = <<v[k]>> \o d
  BY <1>3 DEF WithFront
<1>6. <<v[k]>> \in Seq(Z) /\ Len(<<v[k]>>) = 1 /\ <<v[k]>>[1] = v[k]
  OBVIOUS
<1>7. <<v[k]>> \o d \in Seq(Z) /\ Len(<<v[k]>> \o d) = n
  BY <1>4, <1>6
<1>8. ASSUME NEW i \in 1 .. n
      PROVE  (<<v[k]>> \o d)[i] = v[IF i = 1 THEN k ELSE IF i - 1 < k THEN i - 1 ELSE i]
  <2>1. CASE i = 1
    BY <2>1, <1>4, <1>6
  <2>2. CASE i > 1
    <3>1. i - 1 \in 1 .. n - 1 /\ (<<v[k]>> \o d)[i] = d[i - 1]
      BY <2>2, <1>4, <1>6
    <3>2. (i - 1) + 1 = i /\ i # 1
      BY <2>2
    <3> QED BY <3>1, <3>2, <1>4
  <2>3. i = 1 \/ i > 1
    OBVIOUS
  <2> QED BY <2>1, <2>2, <2>3
<1> QED BY <1>1, <1>5, <1>7, <1>8

(* To bring an element to the front shuffles.                              *)
LEMMA FrontShuffles ==
  ASSUME NEW Z, NEW v \in Seq(Z), NEW k \in 1 .. Len(v)
  PROVE  WithFront(v, k) \in Seq(Z) /\ Shuffled(v, WithFront(v, k))
<1>1. PICK n \in Nat : n = Len(v)
  OBVIOUS
<1>2. k \in Int /\ 1 <= k /\ k <= n
  BY <1>1
<1> DEFINE at == [i \in 1 .. n |-> IF i = 1 THEN k ELSE IF i - 1 < k THEN i - 1 ELSE i]
<1>3. at \in [1 .. n -> 1 .. n]
  BY <1>2
<1>4. ASSUME NEW i \in 1 .. n, NEW j \in 1 .. n, at[i] = at[j] PROVE i = j
  BY <1>2, <1>4
<1>5. ASSUME NEW j \in 1 .. n PROVE \E i \in 1 .. n : at[i] = j
  <2>1. CASE j = k
    <3>1. 1 \in 1 .. n /\ at[1] = k
      BY <1>2
    <3> QED BY <2>1, <3>1
  <2>2. CASE j < k
    <3>1. j + 1 \in 1 .. n /\ j + 1 # 1 /\ (j + 1) - 1 = j
      BY <2>2, <1>2
    <3>2. at[j + 1] = j
      BY <2>2, <3>1
    <3> QED BY <3>1, <3>2
  <2>3. CASE j > k
    <3>1. j # 1 /\ ~(j - 1 < k)
      BY <2>3, <1>2
    <3>2. at[j] = j
      BY <3>1
    <3> QED BY <3>2
  <2> QED BY <2>1, <2>2, <2>3, <1>2
<1>6. Places(n, at)
  BY <1>3, <1>4, <1>5 DEF Places
<1>7. \A i \in 1 .. n : WithFront(v, k)[i] = v[at[i]]
  BY <1>1, FrontIs
<1>8. WithFront(v, k) \in Seq(Z) /\ Len(WithFront(v, k)) = n
  BY <1>1, FrontIs
<1> HIDE DEF at
<1> QED BY <1>1, <1>6, <1>7, <1>8 DEF Shuffled

(* Nothing is shuffled by nothing.                                         *)
LEMMA SameShuffled ==
  ASSUME NEW Z, NEW v \in Seq(Z)
  PROVE  Shuffled(v, v)
<1> DEFINE at == [i \in 1 .. Len(v) |-> i]
<1>1. Places(Len(v), at)
  BY DEF Places
<1>2. \A k \in 1 .. Len(v) : v[k] = v[at[k]]
  OBVIOUS
<1> HIDE DEF at
<1> QED BY <1>1, <1>2 DEF Shuffled

(* A heap is made of a vector by shuffling it.                             *)
LEMMA MadeHeapShuffles ==
  ASSUME NEW Z, NEW v \in Seq(Z), NEW w \in MadeHeap(v)
  PROVE  w \in Seq(Z) /\ Shuffled(v, w)
<1>1. CASE IsHeap(v)
  BY <1>1, SameShuffled DEF MadeHeap
<1>2. CASE ~IsHeap(v)
  <2>1. PICK k \in 1 .. Len(v) : w = WithFront(v, k)
    BY <1>2 DEF MadeHeap, Earliest
  <2> QED BY <2>1, FrontShuffles
<1> QED BY <1>1, <1>2

(* So does to pop one.                                                     *)
LEMMA PoppedShuffles ==
  ASSUME NEW Z, NEW v \in Seq(Z), NEW n \in Int, n <= Len(v), NEW w \in PoppedHeap(v, n)
  PROVE  w \in Seq(Z) /\ Shuffled(v, w)
<1>1. CASE n < 2
  BY <1>1, SameShuffled DEF PoppedHeap
<1>2. CASE n >= 2
  <2>1. PICK l \in Nat : l = Len(v)
    OBVIOUS
  <2>2. PICK r : r = SubSeq(v, 2, n)
    OBVIOUS
  <2>3. r \in Seq(Z) /\ Len(r) = n - 1 /\ \A i \in 1 .. n - 1 : r[i] = v[i + 1]
    BY <1>2, <2>1, <2>2
  <2>4. PICK k \in 1 .. n - 1 : w = WithFront(r, k) \o <<v[1]>> \o SubSeq(v, n + 1, Len(v))
    <3>1. ~(n < 2)
      BY <1>2
    <3>2. PICK k \in Earliest(r) : w = WithFront(r, k) \o <<v[1]>> \o SubSeq(v, n + 1, Len(v))
      BY <2>2, <3>1 DEF PoppedHeap
    <3>3. DOMAIN r = 1 .. n - 1
      BY <2>3
    <3>4. k \in 1 .. n - 1
      BY <3>2, <3>3 DEF Earliest
    <3> QED BY <3>2, <3>4
  <2>5. PICK f : f = WithFront(r, k)
    OBVIOUS
  <2>6. /\ f \in Seq(Z) /\ Len(f) = n - 1
        /\ \A i \in 1 .. n - 1 : f[i] = r[IF i = 1 THEN k ELSE IF i - 1 < k THEN i - 1 ELSE i]
    <3>1. k \in 1 .. Len(r)
      BY <2>3
    <3>2. /\ f \in Seq(Z) /\ Len(f) = Len(r)
          /\ \A i \in 1 .. Len(r) : f[i] = r[IF i = 1 THEN k ELSE IF i - 1 < k THEN i - 1 ELSE i]
      BY <2>3, <2>5, <3>1, FrontIs
    <3> QED BY <2>3, <3>2
  <2>7. PICK e : e = SubSeq(v, n + 1, l)
    OBVIOUS
  <2>8. e \in Seq(Z) /\ Len(e) = l - n /\ \A i \in 1 .. l - n : e[i] = v[n + i]
    BY <1>2, <2>1, <2>7
  <2>9. <<v[1]>> \in Seq(Z) /\ Len(<<v[1]>>) = 1 /\ <<v[1]>>[1] = v[1]
    BY <1>2, <2>1
  <2>10. PICK g : g = f \o <<v[1]>>
    OBVIOUS
  <2>11. /\ g \in Seq(Z) /\ Len(g) = n /\ g[n] = v[1]
         /\ \A i \in 1 .. n - 1 : g[i] = f[i]
    BY <1>2, <2>6, <2>9, <2>10
  <2>12. w = g \o e
    BY <2>1, <2>4, <2>5, <2>7, <2>10
  <2>13. /\ w \in Seq(Z) /\ Len(w) = l
         /\ \A i \in 1 .. n : w[i] = g[i]
         /\ \A i \in n + 1 .. l : w[i] = e[i - n]
    BY <1>2, <2>1, <2>8, <2>11, <2>12
  <2> DEFINE at == [i \in 1 .. l |-> IF i = 1 THEN k + 1
                                     ELSE IF i < n THEN (IF i - 1 < k THEN i ELSE i + 1)
                                     ELSE IF i = n THEN 1 ELSE i]
  <2>14. k \in Int /\ 1 <= k /\ k <= n - 1 /\ n <= l
    BY <2>1, <2>4
  <2>15. ASSUME NEW i \in 1 .. l PROVE w[i] = v[at[i]]
    <3>1. CASE i < n
      <4>1. i \in 1 .. n - 1 /\ i \in 1 .. n
        BY <3>1, <2>14
      <4>2. w[i] = r[IF i = 1 THEN k ELSE IF i - 1 < k THEN i - 1 ELSE i]
        BY <4>1, <2>6, <2>11, <2>13
      <4>3. CASE i = 1
        BY <4>2, <4>3, <2>3, <2>14
      <4>4. CASE i # 1 /\ i - 1 < k
        <5>1. i - 1 \in 1 .. n - 1 /\ (i - 1) + 1 = i
          BY <4>1, <4>4
        <5> QED BY <4>2, <4>4, <5>1, <2>3, <3>1
      <4>5. CASE i # 1 /\ ~(i - 1 < k)
        BY <4>2, <4>5, <4>1, <2>3, <3>1
      <4> QED BY <4>3, <4>4, <4>5
    <3>2. CASE i = n
      <4>1. i # 1 /\ i \in 1 .. n /\ ~(i < n)
        BY <3>2, <1>2
      <4> QED BY <3>2, <4>1, <2>11, <2>13
    <3>3. CASE i > n
      <4>1. i - n \in 1 .. l - n /\ n + (i - n) = i /\ i \in n + 1 .. l /\ i # 1 /\ ~(i < n) /\ i # n
        BY <3>3, <1>2
      <4> QED BY <4>1, <2>8, <2>13
    <3> QED BY <3>1, <3>2, <3>3, <1>2
  <2>16. at \in [1 .. l -> 1 .. l]
    BY <1>2, <2>14
  <2>17. ASSUME NEW i \in 1 .. l, NEW j \in 1 .. l, at[i] = at[j] PROVE i = j
    BY <1>2, <2>14, <2>17
  <2>18. ASSUME NEW j \in 1 .. l PROVE \E i \in 1 .. l : at[i] = j
    <3>1. CASE j = k + 1
      <4>1. 1 \in 1 .. l /\ at[1] = k + 1
        BY <2>14
      <4> QED BY <3>1, <4>1
    <3>2. CASE j = 1
      <4>1. n \in 1 .. l /\ n # 1 /\ at[n] = 1
        BY <1>2, <2>14
      <4> QED BY <3>2, <4>1
    <3>3. CASE 1 < j /\ j <= k
      <4>1. j # 1 /\ j < n /\ j - 1 < k
        BY <3>3, <2>14
      <4>2. at[j] = j
        BY <4>1
      <4> QED BY <4>2
    <3>4. CASE k + 1 < j /\ j <= n
      <4>1. j - 1 \in 1 .. l /\ j - 1 # 1 /\ j - 1 < n /\ ~((j - 1) - 1 < k) /\ (j - 1) + 1 = j
        BY <3>4, <2>14
      <4>2. at[j - 1] = j
        BY <4>1
      <4> QED BY <4>1, <4>2
    <3>5. CASE j > n
      <4>1. j # 1 /\ ~(j < n) /\ j # n
        BY <3>5, <1>2
      <4>2. at[j] = j
        BY <4>1
      <4> QED BY <4>2
    <3> QED BY <3>1, <3>2, <3>3, <3>4, <3>5, <2>14
  <2>19. Places(l, at)
    BY <2>16, <2>17, <2>18 DEF Places
  <2> HIDE DEF at
  <2> QED BY <2>1, <2>13, <2>15, <2>19 DEF Shuffled
<1> QED BY <1>1, <1>2

-----------------------------------------------------------------------------
(* What the changes of the vector keep.                                    *)

(* A shuffled vector is one, and has the same tasks.                       *)
LEMMA ShuffledVector ==
  ASSUME NEW v, Vector(v), NEW w \in Seq(Task), Shuffled(v, w)
  PROVE  /\ Vector(w) /\ Len(w) = Len(v)
         /\ Fresh(v) => Fresh(w)
         /\ Apart(v) => Apart(w)
         /\ \A i \in 1 .. Len(v) : \E k \in 1 .. Len(w) : w[k] = v[i]
         /\ \A k \in 1 .. Len(w) : \E i \in 1 .. Len(v) : w[k] = v[i]
<1>1. PICK at : Places(Len(v), at) /\ \A k \in 1 .. Len(v) : w[k] = v[at[k]]
  BY DEF Shuffled
<1>2. Len(w) = Len(v) /\ Len(v) \in Nat
  BY DEF Shuffled, Vector
<1>3. \A k \in 1 .. Len(v) : at[k] \in 1 .. Len(v)
  BY <1>1 DEF Places
<1>4. \A i \in 1 .. Len(v) : \E k \in 1 .. Len(w) : w[k] = v[i]
  BY <1>1, <1>2 DEF Places
<1>5. \A k \in 1 .. Len(w) : \E i \in 1 .. Len(v) : w[k] = v[i]
  BY <1>1, <1>2, <1>3
<1>6. \A k \in 1 .. Len(w) : w[k].left > -w[k].interval
  BY <1>5 DEF Vector
<1>7. ASSUME NEW i \in 1 .. Len(w), NEW k \in 1 .. Len(w), w[i].id = w[k].id PROVE i = k
  <2>1. v[at[i]].id = v[at[k]].id /\ at[i] \in 1 .. Len(v) /\ at[k] \in 1 .. Len(v)
    BY <1>1, <1>2, <1>3, <1>7
  <2>2. at[i] = at[k]
    BY <2>1 DEF Vector
  <2> QED BY <2>2, <1>1, <1>2 DEF Places
<1>8. Vector(w)
  BY <1>6, <1>7 DEF Vector
<1>9. (Fresh(v) => Fresh(w)) /\ (Apart(v) => Apart(w))
  BY <1>2, <1>5 DEF Fresh, Apart
<1> QED BY <1>2, <1>4, <1>5, <1>8, <1>9

(* So is one with a task less, and it has the others.                      *)
LEMMA DroppedVector ==
  ASSUME NEW v, Vector(v), NEW d \in 1 .. Len(v)
  PROVE  /\ Vector(Dropped(v, d)) /\ Len(Dropped(v, d)) = Len(v) - 1
         /\ Fresh(v) => Fresh(Dropped(v, d))
         /\ \A i \in 1 .. Len(v) : i # d => \E k \in 1 .. Len(Dropped(v, d)) : Dropped(v, d)[k] = v[i]
         /\ \A k \in 1 .. Len(Dropped(v, d)) : \E i \in 1 .. Len(v) : Dropped(v, d)[k] = v[i]
<1>1. v \in Seq(Task) /\ Len(v) \in Nat
  BY DEF Vector
<1>2. PICK w : w = Dropped(v, d)
  OBVIOUS
<1>3. PICK n \in Nat : n = Len(v)
  BY <1>1
<1>4. d \in Int /\ 1 <= d /\ d <= n
  BY <1>3
<1>5. w \in Seq(Task) /\ Len(w) = n - 1 /\ \A i \in 1 .. n - 1 : w[i] = v[IF i < d THEN i ELSE i + 1]
  BY <1>1, <1>2, <1>3, DroppedIs
<1>6. ASSUME NEW i \in 1 .. n, i # d PROVE \E k \in 1 .. Len(w) : w[k] = v[i]
  <2>1. CASE i < d
    <3>1. i \in 1 .. n - 1
      BY <2>1, <1>4
    <3> QED BY <2>1, <3>1, <1>5
  <2>2. CASE i > d
    <3>1. i - 1 \in 1 .. n - 1 /\ ~(i - 1 < d) /\ (i - 1) + 1 = i
      BY <2>2, <1>4
    <3>2. w[i - 1] = v[i]
      BY <3>1, <1>5
    <3> QED BY <3>1, <3>2, <1>5
  <2> QED BY <2>1, <2>2, <1>4, <1>6
<1>7. ASSUME NEW k \in 1 .. n - 1
      PROVE  (IF k < d THEN k ELSE k + 1) \in 1 .. n
  BY <1>4
<1>8. \A k \in 1 .. Len(w) : \E i \in 1 .. Len(v) : w[k] = v[i]
  BY <1>3, <1>5, <1>7
<1>9. \A k \in 1 .. Len(w) : w[k].left > -w[k].interval
  BY <1>8 DEF Vector
<1>10. ASSUME NEW i \in 1 .. n - 1, NEW k \in 1 .. n - 1, w[i].id = w[k].id PROVE i = k
  <2>1. PICK a, b : a = (IF i < d THEN i ELSE i + 1) /\ b = (IF k < d THEN k ELSE k + 1)
    OBVIOUS
  <2>2. a \in 1 .. n /\ b \in 1 .. n /\ w[i] = v[a] /\ w[k] = v[b]
    BY <2>1, <1>5, <1>7
  <2>3. a = b
    BY <2>2, <1>3, <1>10 DEF Vector
  <2> QED BY <2>1, <2>3, <1>4
<1>11. Vector(w)
  BY <1>5, <1>9, <1>10 DEF Vector
<1>12. Fresh(v) => Fresh(w)
  BY <1>8 DEF Fresh
<1> QED BY <1>2, <1>3, <1>5, <1>6, <1>8, <1>11, <1>12

(* So is one with a task more that was not in it.                          *)
LEMMA AppendedVector ==
  ASSUME NEW v, Vector(v), NEW t \in Task, t.left > -t.interval, \A i \in 1 .. Len(v) : v[i].id # t.id
  PROVE  /\ Vector(Append(v, t))
         /\ Fresh(v) /\ ~t.ran => Fresh(Append(v, t))
         /\ \A i \in 1 .. Len(v) : \E k \in 1 .. Len(Append(v, t)) : Append(v, t)[k] = v[i]
         /\ \A k \in 1 .. Len(Append(v, t)) : Append(v, t)[k] = t \/ \E i \in 1 .. Len(v) : Append(v, t)[k] = v[i]
<1>1. v \in Seq(Task) /\ Len(v) \in Nat
  BY DEF Vector
<1>2. PICK w : w = Append(v, t)
  OBVIOUS
<1>3. PICK n \in Nat : n = Len(v)
  BY <1>1
<1>4. w \in Seq(Task) /\ Len(w) = n + 1 /\ w[n + 1] = t /\ \A i \in 1 .. n : w[i] = v[i]
  BY <1>1, <1>2, <1>3
<1>5. \A k \in 1 .. n + 1 : k = n + 1 \/ k \in 1 .. n
  OBVIOUS
<1>6. \A k \in 1 .. n + 1 : w[k].left > -w[k].interval
  BY <1>3, <1>4, <1>5 DEF Vector
<1>7. ASSUME NEW i \in 1 .. n + 1, NEW k \in 1 .. n + 1, w[i].id = w[k].id PROVE i = k
  BY <1>3, <1>4, <1>5, <1>7 DEF Vector
<1>8. Vector(w)
  BY <1>4, <1>6, <1>7 DEF Vector
<1>9. Fresh(v) /\ ~t.ran => Fresh(w)
  BY <1>3, <1>4, <1>5 DEF Fresh
<1>10. \A i \in 1 .. n : i \in 1 .. Len(w) /\ w[i] = v[i]
  BY <1>4
<1>11. \A k \in 1 .. Len(w) : w[k] = t \/ \E i \in 1 .. n : w[k] = v[i]
  BY <1>4, <1>5
<1> QED BY <1>2, <1>3, <1>8, <1>9, <1>10, <1>11

(* What goes with an id is a task that has it.                             *)
LEMMA WithoutIs ==
  ASSUME NEW Z, NEW v \in Seq(Z), NEW id
  PROVE  \/ Without(v, id) = v
         \/ \E k \in 1 .. Len(v) : v[k].id = id /\ Without(v, id) = Dropped(v, k)
<1> DEFINE at == {k \in DOMAIN v : v[k].id = id}
           first == CHOOSE k \in at : \A j \in at : k <= j
<1>1. Without(v, id) = IF at = {} THEN v ELSE Dropped(v, first)
  BY DEF Without
<1>2. DOMAIN v = 1 .. Len(v) /\ at \subseteq Nat
  OBVIOUS
<1>3. ASSUME at # {} PROVE first \in 1 .. Len(v) /\ v[first].id = id
  <2>1. \E k \in at : \A j \in at : k <= j
    <3> HIDE DEF at
    <3> QED BY <1>2, <1>3, SmallestOf
  <2>2. first \in at
    <3> HIDE DEF at
    <3> QED BY <2>1
  <2> HIDE DEF first
  <2> QED BY <1>2, <2>2
<1> HIDE DEF at, first
<1> QED BY <1>1, <1>3

(* An action taken over gives a sequence of tasks.                         *)
LEMMA AppliedSeq ==
  ASSUME NEW v \in Seq(Task), NEW a \in Action
  PROVE  Applied(v, a) \in Seq(Task)
<1>1. CASE a.do = "add"
  <2>1. a.task \in Task
    BY <1>1, ActionIs
  <2> QED BY <1>1, <2>1 DEF Applied
<1>2. CASE a.do = "remove"
  <2>1. Applied(v, a) = Without(v, a.id)
    BY <1>2 DEF Applied
  <2> QED BY <2>1, WithoutIs, DroppedIs
<1>3. CASE a.do # "add" /\ a.do # "remove"
  BY <1>3 DEF Applied
<1> QED BY <1>1, <1>2, <1>3

(* The vector after each of the actions.                                   *)
Taken(f, n) ==
  /\ f \in [0 .. n -> Seq(Task)] /\ f[0] = active
  /\ \A k \in 1 .. n : f[k] = Applied(f[k - 1], pending[k])

(* So many actions can be taken over one after the other: what the         *)
(* definition of AfterPending needs.                                       *)
LEMMA TakenOver ==
  ASSUME Vector(active), pending \in Seq(Action)
  PROVE  \E f : Taken(f, Len(pending))
<1> DEFINE S == {n \in Nat : n <= Len(pending) => \E f : Taken(f, n)}
<1>1. 0 \in S
  <2>1. Taken([k \in 0 .. 0 |-> active], 0)
    BY DEF Taken, Vector
  <2> QED BY <2>1
<1>2. ASSUME NEW n \in Nat, n \in S PROVE n + 1 \in S
  <2>1. CASE n + 1 <= Len(pending)
    <3>1. PICK f : Taken(f, n)
      BY <1>2, <2>1
    <3>2. PICK next : next = Applied(f[n], pending[n + 1])
      OBVIOUS
    <3>3. f[n] \in Seq(Task) /\ pending[n + 1] \in Action
      BY <3>1, <2>1 DEF Taken
    <3>4. next \in Seq(Task)
      BY <3>2, <3>3, AppliedSeq
    <3> DEFINE g == [k \in 0 .. n + 1 |-> IF k = n + 1 THEN next ELSE f[k]]
    <3>5. g \in [0 .. n + 1 -> Seq(Task)] /\ g[0] = active
      BY <3>1, <3>4 DEF Taken
    <3>6. ASSUME NEW k \in 1 .. n + 1 PROVE g[k] = Applied(g[k - 1], pending[k])
      <4>1. k - 1 \in 0 .. n /\ k - 1 # n + 1 /\ g[k - 1] = f[k - 1]
        OBVIOUS
      <4>2. CASE k = n + 1
        <5>1. g[k] = next /\ k - 1 = n
          BY <4>2
        <5> HIDE DEF g
        <5> QED BY <3>2, <4>1, <4>2, <5>1
      <4>3. CASE k # n + 1
        <5>1. k \in 1 .. n /\ g[k] = f[k]
          BY <4>3
        <5> HIDE DEF g
        <5> QED BY <3>1, <4>1, <5>1 DEF Taken
      <4> QED BY <4>2, <4>3
    <3>7. Taken(g, n + 1)
      <4> HIDE DEF g
      <4> QED BY <3>5, <3>6 DEF Taken
    <3> HIDE DEF g
    <3> QED BY <3>7
  <2>2. CASE ~(n + 1 <= Len(pending))
    BY <2>2
  <2> QED BY <2>1, <2>2
<1> HIDE DEF S
<1>3. Len(pending) \in S
  BY <1>1, <1>2, AllNumbers
<1> QED BY <1>3 DEF S

(* And what it defines is what is left then.                               *)
LEMMA AfterPendingIs ==
  ASSUME Vector(active), pending \in Seq(Action)
  PROVE  \E f : Taken(f, Len(pending)) /\ AfterPending = f[Len(pending)]
<1> DEFINE IsAfter(f) == f = [k \in 0 .. Len(pending) |-> IF k = 0 THEN active ELSE Applied(f[k - 1], pending[k])]
           after == CHOOSE f : IsAfter(f)
<1>1. AfterPending = after[Len(pending)]
  BY DEF AfterPending
<1>2. PICK g : Taken(g, Len(pending))
  BY TakenOver
<1>3. IsAfter(g)
  <2>1. ASSUME NEW k \in 0 .. Len(pending)
        PROVE  g[k] = IF k = 0 THEN active ELSE Applied(g[k - 1], pending[k])
    <3>1. k = 0 \/ k \in 1 .. Len(pending)
      OBVIOUS
    <3> QED BY <3>1, <1>2 DEF Taken
  <2>2. g = [k \in 0 .. Len(pending) |-> g[k]]
    BY <1>2 DEF Taken
  <2> QED BY <2>1, <2>2
<1>4. IsAfter(after)
  <2> HIDE DEF IsAfter
  <2> QED BY <1>3
<1> HIDE DEF after
<1>5. after[0] = active /\ \A k \in 1 .. Len(pending) : after[k] = Applied(after[k - 1], pending[k])
  <2>1. Len(pending) \in Nat
    OBVIOUS
  <2>2. \A k \in 1 .. Len(pending) : k \in 0 .. Len(pending) /\ k # 0
    BY <2>1
  <2>3. 0 \in 0 .. Len(pending)
    BY <2>1
  <2> QED BY <1>4, <2>2, <2>3
<1>6. \A k \in 0 .. Len(pending) : after[k] = g[k]
  <2> DEFINE S == {k \in Nat : k <= Len(pending) => after[k] = g[k]}
  <2>1. 0 \in S
    BY <1>2, <1>5 DEF Taken
  <2>2. ASSUME NEW k \in Nat, k \in S PROVE k + 1 \in S
    <3>1. CASE k + 1 <= Len(pending)
      <4>1. k + 1 \in 1 .. Len(pending) /\ (k + 1) - 1 = k /\ after[k] = g[k]
        BY <2>2, <3>1
      <4>2. after[k + 1] = g[k + 1]
        BY <4>1, <1>2, <1>5 DEF Taken
      <4> QED BY <4>2
    <3>2. CASE ~(k + 1 <= Len(pending))
      BY <3>2
    <3> QED BY <3>1, <3>2
  <2> HIDE DEF S
  <2>3. Nat \subseteq S
    BY <2>1, <2>2, AllNumbers
  <2> QED BY <2>3 DEF S
<1>7. Len(pending) \in 0 .. Len(pending)
  OBVIOUS
<1>8. AfterPending = g[Len(pending)]
  BY <1>1, <1>6, <1>7
<1> QED BY <1>2, <1>8

(* When the actions are taken over no task is in the vector twice, and     *)
(* those are still there of which no removal waited.                       *)
LEMMA MergedIs ==
  ASSUME Vector(active), PendingInv
  PROVE  /\ Vector(AfterPending)
         /\ Fresh(active) => Fresh(AfterPending)
         /\ \A i \in 1 .. Len(active) : active[i].id \notin Removed =>
              \E k \in 1 .. Len(AfterPending) : AfterPending[k] = active[i]
<1>1. PICK n \in Nat : n = Len(pending)
  BY DEF PendingInv
<1>2. PICK f : Taken(f, n) /\ AfterPending = f[n]
  BY <1>1, AfterPendingIs DEF PendingInv
<1> DEFINE Goes(k, id) == \E j \in 1 .. k : pending[j].do = "remove" /\ pending[j].id = id
           Kept(k) ==
             /\ Vector(f[k]) /\ (Fresh(active) => Fresh(f[k]))
             /\ \A i \in 1 .. Len(f[k]), j \in k + 1 .. n : ~Adds(pending[j], f[k][i].id)
             /\ \A i \in 1 .. Len(active) : ~Goes(k, active[i].id) => \E m \in 1 .. Len(f[k]) : f[k][m] = active[i]
           S == {k \in Nat : k <= n => Kept(k)}
<1>3. 0 \in S
  <2>1. f[0] = active
    BY <1>2 DEF Taken
  <2>2. \A i \in 1 .. Len(active), j \in 1 .. n : ~Adds(pending[j], active[i].id)
    BY <1>1 DEF PendingInv, Adds
  <2>3. Kept(0)
    BY <2>1, <2>2
  <2> HIDE DEF Kept
  <2> QED BY <2>3
<1>4. ASSUME NEW k \in Nat, k \in S PROVE k + 1 \in S
  <2>1. SUFFICES ASSUME k + 1 <= n PROVE Kept(k + 1)
    <3> HIDE DEF Kept
    <3> QED OBVIOUS
  <2>2. Kept(k)
    <3> HIDE DEF Kept
    <3> QED BY <1>4, <2>1
  <2>3. k + 1 \in 1 .. n /\ (k + 1) - 1 = k
    BY <2>1
  <2>4. PICK v, w, a : v = f[k] /\ w = f[k + 1] /\ a = pending[k + 1]
    OBVIOUS
  <2>5. w = Applied(v, a) /\ a \in Action
    BY <1>1, <1>2, <2>3, <2>4 DEF Taken, PendingInv
  <2>6. /\ Vector(v) /\ (Fresh(active) => Fresh(v))
        /\ \A i \in 1 .. Len(v), j \in k + 1 .. n : ~Adds(pending[j], v[i].id)
        /\ \A i \in 1 .. Len(active) : ~Goes(k, active[i].id) => \E m \in 1 .. Len(v) : v[m] = active[i]
    BY <2>2, <2>4
  <2>7. \A id : Goes(k, id) => Goes(k + 1, id)
    OBVIOUS
  <2>8. \A j \in (k + 1) + 1 .. n : j \in k + 1 .. n /\ j \in 1 .. n /\ j # k + 1
    OBVIOUS
  <2>9. SUFFICES
          /\ Vector(w) /\ (Fresh(active) => Fresh(w))
          /\ \A i \in 1 .. Len(w), j \in (k + 1) + 1 .. n : ~Adds(pending[j], w[i].id)
          /\ \A i \in 1 .. Len(active) : ~Goes(k + 1, active[i].id) => \E m \in 1 .. Len(w) : w[m] = active[i]
    BY <2>4
  <2>10. CASE a.do = "add"
    <3>1. PICK t : t = a.task
      OBVIOUS
    <3>2. t \in Task /\ w = Append(v, t)
      BY <2>5, <2>10, <3>1, ActionIs DEF Applied
    <3>3. t.left > -t.interval /\ ~t.ran /\ \A i \in 1 .. n : Adds(pending[i], t.id) => i = k + 1
      BY <1>1, <2>3, <2>4, <2>10, <3>1 DEF PendingInv
    <3>4. k + 1 \in k + 1 .. n /\ Adds(pending[k + 1], t.id)
      BY <2>1, <2>4, <2>10, <3>1 DEF Adds
    <3>5. \A i \in 1 .. Len(v) : v[i].id # t.id
      BY <2>6, <3>4
    <3>6. /\ Vector(w) /\ (Fresh(v) => Fresh(w))
          /\ \A i \in 1 .. Len(v) : \E m \in 1 .. Len(w) : w[m] = v[i]
          /\ \A m \in 1 .. Len(w) : w[m] = t \/ \E i \in 1 .. Len(v) : w[m] = v[i]
      BY <2>6, <3>2, <3>3, <3>5, AppendedVector
    <3>7. ASSUME NEW i \in 1 .. Len(w), NEW j \in (k + 1) + 1 .. n PROVE ~Adds(pending[j], w[i].id)
      <4>1. CASE w[i] = t
        BY <4>1, <3>3, <2>8
      <4>2. CASE \E m \in 1 .. Len(v) : w[i] = v[m]
        BY <4>2, <2>6, <2>8
      <4> QED BY <4>1, <4>2, <3>6
    <3>8. ASSUME NEW i \in 1 .. Len(active), ~Goes(k + 1, active[i].id) PROVE \E m \in 1 .. Len(w) : w[m] = active[i]
      <4>1. ~Goes(k, active[i].id)
        BY <2>7, <3>8
      <4> HIDE DEF Goes
      <4> QED BY <4>1, <2>6, <3>6
    <3> HIDE DEF Goes
    <3> QED BY <2>6, <3>6, <3>7, <3>8
  <2>11. CASE a.do = "remove"
    <3>1. w = Without(v, a.id)
      BY <2>5, <2>11 DEF Applied
    <3>2. CASE w = v
      <4>1. ASSUME NEW i \in 1 .. Len(w), NEW j \in (k + 1) + 1 .. n PROVE ~Adds(pending[j], w[i].id)
        BY <3>2, <2>6, <2>8
      <4>2. ASSUME NEW i \in 1 .. Len(active), ~Goes(k + 1, active[i].id) PROVE \E m \in 1 .. Len(w) : w[m] = active[i]
        <5>1. ~Goes(k, active[i].id)
          BY <2>7, <4>2
        <5> HIDE DEF Goes
        <5> QED BY <5>1, <3>2, <2>6
      <4> HIDE DEF Goes
      <4> QED BY <2>6, <3>2, <4>1, <4>2
    <3>3. CASE \E d \in 1 .. Len(v) : v[d].id = a.id /\ w = Dropped(v, d)
      <4>1. PICK d \in 1 .. Len(v) : v[d].id = a.id /\ w = Dropped(v, d)
        BY <3>3
      <4>2. /\ Vector(w) /\ (Fresh(v) => Fresh(w))
            /\ \A i \in 1 .. Len(v) : i # d => \E m \in 1 .. Len(w) : w[m] = v[i]
            /\ \A m \in 1 .. Len(w) : \E i \in 1 .. Len(v) : w[m] = v[i]
        BY <2>6, <4>1, DroppedVector
      <4>3. ASSUME NEW i \in 1 .. Len(w), NEW j \in (k + 1) + 1 .. n PROVE ~Adds(pending[j], w[i].id)
        BY <4>2, <2>6, <2>8
      <4>4. ASSUME NEW i \in 1 .. Len(active), ~Goes(k + 1, active[i].id) PROVE \E m \in 1 .. Len(w) : w[m] = active[i]
        <5>1. ~Goes(k, active[i].id) /\ active[i].id # a.id
          BY <2>3, <2>4, <2>7, <2>11, <4>4
        <5> HIDE DEF Goes
        <5>2. PICK m \in 1 .. Len(v) : v[m] = active[i]
          BY <5>1, <2>6
        <5>3. m # d
          BY <4>1, <5>1, <5>2
        <5> QED BY <4>2, <5>2, <5>3
      <4> HIDE DEF Goes
      <4> QED BY <2>6, <4>2, <4>3, <4>4
    <3>4. v \in Seq(Task)
      BY <2>6 DEF Vector
    <3> QED BY <3>1, <3>2, <3>3, <3>4, WithoutIs
  <2>12. CASE a.do # "add" /\ a.do # "remove"
    <3>1. w = v
      BY <2>5, <2>12 DEF Applied
    <3>2. ASSUME NEW i \in 1 .. Len(w), NEW j \in (k + 1) + 1 .. n PROVE ~Adds(pending[j], w[i].id)
      BY <3>1, <2>6, <2>8
    <3>3. ASSUME NEW i \in 1 .. Len(active), ~Goes(k + 1, active[i].id) PROVE \E m \in 1 .. Len(w) : w[m] = active[i]
      <4>1. ~Goes(k, active[i].id)
        BY <2>7, <3>3
      <4> HIDE DEF Goes
      <4> QED BY <4>1, <3>1, <2>6
    <3> HIDE DEF Goes
    <3> QED BY <2>6, <3>1, <3>2, <3>3
  <2> QED BY <2>10, <2>11, <2>12
<1>5. Kept(n)
  <2> HIDE DEF Kept
  <2>1. Nat \subseteq S
    <3> HIDE DEF S
    <3> QED BY <1>3, <1>4, AllNumbers
  <2> QED BY <2>1
<1>6. ASSUME NEW i \in 1 .. Len(active), active[i].id \notin Removed PROVE ~Goes(n, active[i].id)
  <2>1. SUFFICES ASSUME NEW j \in 1 .. n, pending[j].do = "remove", pending[j].id = active[i].id
                 PROVE  active[i].id \in Removed
    BY <1>6
  <2>2. PICK rest : rest = SubSeq(pending, j + 1, Len(pending))
    OBVIOUS
  <2>3. pending \in Seq(Action)
    BY DEF PendingInv
  <2>4. rest \in Seq(Action) /\ Len(rest) = n - j /\ \A m \in 1 .. n - j : rest[m] = pending[j + m]
    BY <1>1, <2>2, <2>3
  <2>5. ASSUME NEW m \in 1 .. n - j PROVE ~Adds(rest[m], active[i].id)
    <3>1. j + m \in 1 .. Len(pending) /\ rest[m] = pending[j + m]
      BY <1>1, <2>4
    <3> QED BY <3>1 DEF PendingInv, Adds
  <2>6. pending[j].id \notin AddedIn(rest)
    BY <2>1, <2>4, <2>5, AddedAre
  <2>7. j \in DOMAIN pending
    BY <1>1, <2>3
  <2> QED BY <2>1, <2>2, <2>6, <2>7 DEF Removed
<1> HIDE DEF Goes
<1> QED BY <1>2, <1>5, <1>6

-----------------------------------------------------------------------------
(* The steps.                                                              *)

(* What the invariant says of what is pending stays when no task is added  *)
(* to it and no id to the vector.                                          *)
LEMMA PendingKept ==
  ASSUME PendingInv, pending' \in Seq(Action),
         \A k \in 1 .. Len(pending') : pending'[k].do = "add" =>
           /\ k \in 1 .. Len(pending) /\ pending[k].do = "add"
           /\ pending'[k].task.id = pending[k].task.id
           /\ pending'[k].task.left > -pending'[k].task.interval /\ ~pending'[k].task.ran,
         \A i \in 1 .. Len(active') : \E j \in 1 .. Len(active) : active'[i].id = active[j].id
  PROVE  PendingInv' /\ (Added = {} => Added' = {})
<1>1. ASSUME NEW k \in 1 .. Len(pending'), pending'[k].do = "add"
      PROVE  /\ \A i \in 1 .. Len(pending') : Adds(pending'[i], pending'[k].task.id) => i = k
             /\ \A i \in 1 .. Len(active') : active'[i].id # pending'[k].task.id
  <2>1. k \in 1 .. Len(pending) /\ pending[k].do = "add" /\ pending'[k].task.id = pending[k].task.id
    BY <1>1
  <2>2. ASSUME NEW i \in 1 .. Len(pending'), Adds(pending'[i], pending'[k].task.id) PROVE i = k
    <3>1. i \in 1 .. Len(pending) /\ Adds(pending[i], pending[k].task.id)
      BY <2>1, <2>2 DEF Adds
    <3> QED BY <2>1, <3>1 DEF PendingInv
  <2>3. ASSUME NEW i \in 1 .. Len(active') PROVE active'[i].id # pending'[k].task.id
    BY <2>1 DEF PendingInv
  <2> QED BY <2>2, <2>3
<1>2. ASSUME Added = {} PROVE Added' = {}
  <2>1. pending \in Seq(Action)
    BY DEF PendingInv
  <2>2. \A id : id \in Added <=> \E k \in 1 .. Len(pending) : Adds(pending[k], id)
    BY <2>1, AddedAre DEF Added
  <2>3. \A id : id \in Added' <=> \E k \in 1 .. Len(pending') : Adds(pending'[k], id)
    BY AddedAre DEF Added
  <2>4. ASSUME NEW id, id \in Added' PROVE FALSE
    <3>1. PICK k \in 1 .. Len(pending') : Adds(pending'[k], id)
      BY <2>3, <2>4
    <3>2. k \in 1 .. Len(pending) /\ Adds(pending[k], id)
      BY <3>1 DEF Adds
    <3> QED BY <1>2, <2>2, <3>2
  <2> QED BY <2>4
<1>3. PendingInv'
  BY <1>1 DEF PendingInv
<1> QED BY <1>2, <1>3

(* The periodic tasks.                                                     *)
LEMMA PeriodicsAre ==
  ASSUME active \in Seq(Task), NEW id
  PROVE  id \in Periodics <=> \E k \in 1 .. Len(active) : active[k].id = id /\ ~active[k].oneshot
<1>1. DOMAIN active = 1 .. Len(active)
  OBVIOUS
<1> QED BY <1>1 DEF Periodics, Elements

(* They stay when the vector does, or when each of them is in the next.    *)
LEMMA PeriodicsStay ==
  ASSUME active \in Seq(Task), active' \in Seq(Task), NEW S,
         \A i \in 1 .. Len(active) : ~active[i].oneshot /\ active[i].id \notin S =>
           \E k \in 1 .. Len(active') : active'[k].id = active[i].id /\ ~active'[k].oneshot
  PROVE  Periodics \ Periodics' \subseteq S
<1>1. ASSUME NEW id, id \in Periodics, id \notin S PROVE id \in Periodics'
  <2>1. PICK i \in 1 .. Len(active) : active[i].id = id /\ ~active[i].oneshot
    BY <1>1, PeriodicsAre
  <2>2. PICK k \in 1 .. Len(active') : active'[k].id = id /\ ~active'[k].oneshot
    BY <1>1, <2>1
  <2>3. DOMAIN active' = 1 .. Len(active')
    OBVIOUS
  <2> QED BY <2>2, <2>3 DEF Periodics, Elements
<1> QED BY <1>1

(* What the two sequences and the two counters are.                        *)
LEMMA Typed ==
  ASSUME TasksInv
  PROVE  /\ active \in Seq(Task) /\ Len(active) \in Nat /\ DOMAIN active = 1 .. Len(active)
         /\ pending \in Seq(Action) /\ Len(pending) \in Nat /\ DOMAIN pending = 1 .. Len(pending)
         /\ Vector(active) /\ PendingInv
         /\ turn \in Nat /\ turns \in Nat /\ turn <= turns
<1>1. Vector(active) /\ PendingInv
  BY DEF TasksInv
<1>2. active \in Seq(Task)
  BY <1>1 DEF Vector
<1>3. pending \in Seq(Action)
  BY <1>1 DEF PendingInv
<1>4. turns \in Nat /\ turn \in 0 .. turns
  BY DEF TasksInv, PlaceInv
<1>5. turn \in Nat /\ turn <= turns
  BY <1>4
<1> QED BY <1>1, <1>2, <1>3, <1>4, <1>5

(* It holds at first: there is no task.                                    *)
LEMMA TasksStart == PeriodicInit => TasksInv
<1> SUFFICES ASSUME PeriodicInit PROVE TasksInv
  OBVIOUS
<1>1. pending = <<>> /\ active = <<>> /\ turn = 0 /\ turns = 0 /\ caller = "idle" /\ worker = "top"
  BY DEF PeriodicInit
<1>2. Vector(active) /\ PendingInv /\ Fresh(active) /\ Apart(active)
  BY <1>1 DEF Vector, PendingInv, Fresh, Apart
<1>3. turns \in Nat /\ turn \in 0 .. turns
  BY <1>1
<1>4. PlaceInv
  BY <1>1, <1>3 DEF PlaceInv, PeriodicInit
<1>5. RoundInv
  BY <1>1, <1>2 DEF RoundInv, PeriodicInit
<1> QED BY <1>1, <1>2, <1>4, <1>5 DEF TasksInv

(* A step that leaves the tasks where they are.                            *)
LEMMA QuietStep ==
  ASSUME TasksInv, UNCHANGED <<pending, active>>
  PROVE  /\ Vector(active') /\ PendingInv' /\ Added' = Added
         /\ Fresh(active) => Fresh(active')
         /\ Apart(active) => Apart(active')
         /\ Periodics \ Periodics' = {}
BY DEF TasksInv, PendingInv, Added, Periodics

(* Of the thread these are the waking and what follows a clearing, of the  *)
(* caller the waits.                                                       *)
LEMMA QuietSteps ==
  ASSUME TasksInv,
         Top \/ WakeForWork \/ Cleared \/ CallClear \/ CallWait \/ Waiting \/ Join \/ UNCHANGED periodicVars
  PROVE  TasksInv' /\ TasksStay
<1>1. UNCHANGED <<pending, active>>
  BY DEF Top, WakeForWork, Cleared, CallClear, CallWait, Waiting, Join, periodicVars
<1>2. /\ Vector(active') /\ PendingInv' /\ Added' = Added
      /\ Fresh(active) => Fresh(active')
      /\ Apart(active) => Apart(active')
      /\ Periodics \ Periodics' = {}
  BY <1>1, QuietStep
<1>3. CASE Top
  <2>1. caller' = caller \/ (caller = "asleep" /\ caller' = "check")
    BY <1>3 DEF Top, Notified
  <2> QED BY <1>1, <1>2, <1>3, <2>1 DEF TasksInv, PlaceInv, RoundInv, Top, TasksStay
<1>4. CASE WakeForWork
  BY <1>1, <1>2, <1>4 DEF TasksInv, PlaceInv, RoundInv, WakeForWork, TasksStay
<1>5. CASE Cleared
  BY <1>1, <1>2, <1>5 DEF TasksInv, PlaceInv, RoundInv, Cleared, TasksStay
<1>6. CASE CallClear
  BY <1>1, <1>2, <1>6 DEF TasksInv, PlaceInv, RoundInv, CallClear, TasksStay
<1>7. CASE CallWait
  BY <1>1, <1>2, <1>7 DEF TasksInv, PlaceInv, RoundInv, CallWait, TasksStay
<1>8. CASE Waiting
  <2>1. CASE caller = "pending" /\ pending = <<>> /\ caller' = "check"
    <3>1. ASSUME NEW id PROVE id \notin Added
      <4>1. pending \in Seq(Action) /\ Len(pending) = 0
        BY <2>1, Typed
      <4>2. ~(\E k \in 1 .. Len(pending) : Adds(pending[k], id))
        BY <4>1
      <4> QED BY <4>1, <4>2, AddedAre DEF Added
    <3>2. Added = {}
      BY <3>1
    <3> QED BY <1>1, <1>2, <1>8, <2>1, <3>2 DEF TasksInv, PlaceInv, RoundInv, Waiting, TasksStay
  <2>2. CASE caller = "check" /\ caller' = IF active = <<>> THEN "idle" ELSE "asleep"
    BY <1>1, <1>2, <1>8, <2>2 DEF TasksInv, PlaceInv, RoundInv, Waiting, TasksStay
  <2> QED BY <1>8, <2>1, <2>2 DEF Waiting, WaitActive
<1>9. CASE Join
  BY <1>1, <1>2, <1>9 DEF TasksInv, PlaceInv, RoundInv, Join, TasksStay
<1>10. CASE UNCHANGED periodicVars
  BY <1>1, <1>2, <1>10 DEF TasksInv, PlaceInv, RoundInv, periodicVars, TasksStay
<1> QED BY <1>3, <1>4, <1>5, <1>6, <1>7, <1>8, <1>9, <1>10

(* The two steps of a clearing.                                            *)
LEMMA ClearSteps ==
  ASSUME TasksInv, ClearPending \/ ClearActive
  PROVE  TasksInv' /\ TasksStay
<1>1. toClear /\ toClear' = toClear
  BY DEF TasksInv, PlaceInv, ClearPending, ClearActive
<1>2. CASE ClearPending
  <2>1. pending' = <<>> /\ active' = active /\ caller' = caller
    BY <1>2 DEF ClearPending
  <2>2. PendingInv' /\ (Added = {} => Added' = {})
    <3>1. pending' \in Seq(Action) /\ Len(pending') = 0 /\ PendingInv
      BY <2>1, Typed
    <3>2. \A i \in 1 .. Len(active') : \E j \in 1 .. Len(active) : active'[i].id = active[j].id
      BY <2>1
    <3>3. \A k \in 1 .. Len(pending') : FALSE
      BY <3>1
    <3> QED BY <3>1, <3>2, <3>3, PendingKept
  <2>3. Vector(active') /\ (Fresh(active) => Fresh(active')) /\ (Apart(active) => Apart(active'))
    BY <2>1 DEF TasksInv
  <2>4. PlaceInv' /\ RoundInv'
    <3>1. /\ toExit' = toExit /\ turn' = turn /\ turns' = turns /\ crashed' = crashed /\ mixed' = mixed
          /\ worker' = "clear active"
      BY <1>2 DEF ClearPending
    <3>2. PlaceInv'
      <4>1. PlaceInv
        BY DEF TasksInv
      <4>2. turns' \in Nat /\ turn' \in 0 .. turns'
        BY <3>1, <4>1 DEF PlaceInv
      <4>3. toClear' /\ toExit' \in BOOLEAN /\ toClear' \in BOOLEAN /\ crashed' \in BOOLEAN /\ mixed' \in BOOLEAN
        BY <1>1, <3>1, <4>1 DEF PlaceInv
      <4>4. caller' \in {"idle", "pending", "check", "asleep", "joining", "gone"}
        BY <2>1, <4>1 DEF PlaceInv
      <4> QED BY <3>1, <4>2, <4>3, <4>4 DEF PlaceInv
    <3>3. RoundInv'
      BY <2>3, <3>1 DEF TasksInv, RoundInv
    <3> QED BY <3>2, <3>3
  <2>5. TasksStay
    BY <1>1, <2>1 DEF TasksStay
  <2> QED BY <2>1, <2>2, <2>3, <2>4, <2>5 DEF TasksInv
<1>3. CASE ClearActive
  <2>1. pending' = pending /\ active' = <<>> /\ (caller' = caller \/ (caller = "asleep" /\ caller' = "check"))
    BY <1>3 DEF ClearActive, Notified
  <2>2. PendingInv' /\ (Added = {} => Added' = {})
    <3>1. pending' \in Seq(Action) /\ Len(active') = 0 /\ PendingInv
      BY <2>1, Typed
    <3>2. \A i \in 1 .. Len(active') : FALSE
      BY <3>1
    <3> QED BY <2>1, <3>1, <3>2, PendingKept DEF PendingInv
  <2>3. Vector(active') /\ Fresh(active') /\ Apart(active')
    BY <2>1 DEF Vector, Fresh, Apart
  <2>4. PlaceInv'
    <3>1. /\ toExit' = toExit /\ turn' = turn /\ turns' = turns /\ crashed' = crashed /\ mixed' = mixed
          /\ worker' = "cleared"
      BY <1>3 DEF ClearActive
    <3>2. PlaceInv
      BY DEF TasksInv
    <3>3. turns' \in Nat /\ turn' \in 0 .. turns'
      BY <3>1, <3>2 DEF PlaceInv
    <3>4. toClear' /\ toExit' \in BOOLEAN /\ toClear' \in BOOLEAN /\ crashed' \in BOOLEAN /\ mixed' \in BOOLEAN
      BY <1>1, <3>1, <3>2 DEF PlaceInv
    <3>5. caller' \in {"idle", "pending", "check", "asleep", "joining", "gone"}
      BY <2>1, <3>2 DEF PlaceInv
    <3> QED BY <3>1, <3>3, <3>4, <3>5 DEF PlaceInv
  <2>5. RoundInv'
    BY <1>3, <2>3 DEF TasksInv, RoundInv, ClearActive
  <2>6. TasksStay
    BY <1>1, <2>1 DEF TasksStay
  <2> QED BY <2>1, <2>2, <2>3, <2>4, <2>5, <2>6 DEF TasksInv
<1> QED BY <1>2, <1>3

(* The actions are taken over.                                             *)
LEMMA MergeStep ==
  ASSUME TasksInv, Merge
  PROVE  TasksInv' /\ TasksStay
<1>1. PICK u : u = AfterPending
  OBVIOUS
<1>2. /\ Vector(u) /\ (Fresh(active) => Fresh(u))
      /\ \A i \in 1 .. Len(active) : active[i].id \notin Removed => \E k \in 1 .. Len(u) : u[k] = active[i]
  BY <1>1, MergedIs DEF TasksInv
<1>3. active' \in MadeHeap(u) /\ pending' = <<>> /\ turn' = 0 /\ turns' = Len(active')
  BY <1>1 DEF Merge
<1>4. u \in Seq(Task)
  BY <1>2 DEF Vector
<1>5. active' \in Seq(Task) /\ Shuffled(u, active')
  BY <1>3, <1>4, MadeHeapShuffles
<1>6. /\ Vector(active') /\ (Fresh(u) => Fresh(active'))
      /\ \A i \in 1 .. Len(u) : \E k \in 1 .. Len(active') : active'[k] = u[i]
  BY <1>2, <1>5, ShuffledVector
<1>7. PendingInv' /\ Added' = {}
  <2>1. PendingInv'
    BY <1>3 DEF PendingInv
  <2>2. pending' \in Seq(Action) /\ Len(pending') = 0
    BY <1>3
  <2>3. ASSUME NEW id PROVE id \notin Added'
    <3>1. ~(\E k \in 1 .. Len(pending') : Adds(pending'[k], id))
      BY <2>2
    <3> QED BY <2>2, <3>1, AddedAre DEF Added
  <2> QED BY <2>1, <2>3
<1>8. Periodics \ Periodics' \subseteq Removed
  <2>1. ASSUME NEW i \in 1 .. Len(active), ~active[i].oneshot, active[i].id \notin Removed
        PROVE  \E k \in 1 .. Len(active') : active'[k].id = active[i].id /\ ~active'[k].oneshot
    BY <1>2, <1>6, <2>1
  <2>2. active \in Seq(Task)
    BY DEF TasksInv, Vector
  <2> QED BY <1>5, <2>1, <2>2, PeriodicsStay
<1>9. ~mixed' => ~mixed /\ Apart(active')
  <2>1. \A k \in 1 .. Len(active') : active'[k] \in Elements(active)'
    BY <1>5 DEF Elements
  <2>2. ~mixed' => ~mixed /\ ~(Len(active') > 1 /\ \E task \in Elements(active)' : task.oneshot)
    BY DEF Merge
  <2>3. ~(Len(active') > 1) => Len(active') <= 1
    BY <1>5
  <2> QED BY <2>1, <2>2, <2>3 DEF Apart
<1>10. mixed' \in BOOLEAN /\ turns' \in Nat
  BY <1>5 DEF Merge, TasksInv, PlaceInv
<1> QED BY <1>2, <1>3, <1>6, <1>7, <1>8, <1>9, <1>10 DEF TasksInv, PlaceInv, RoundInv, Merge, TasksStay

(* A task runs.  The flag that is looked at is its own unless a oneshot    *)
(* task shares the vector.                                                 *)
LEMMA RunStep ==
  ASSUME TasksInv, RunFront
  PROVE  TasksInv' /\ TasksStay
<1>1. active \in Seq(Task) /\ Len(active) \in Nat /\ Vector(active) /\ turn \in Nat /\ turns \in Nat
  BY Typed
<1>2. active # <<>> /\ Len(active) >= 1 /\ turn < turns /\ worker = "pass" /\ 1 \in 1 .. Len(active)
  BY <1>1 DEF RunFront, FrontDue
<1>3. PICK n \in Nat : n = Len(active)
  BY <1>1
<1>4. PICK t : t = active[1]
  OBVIOUS
<1>5. t \in Task /\ t.left > -t.interval /\ t.interval \in Nat /\ t.interval >= 1
  <2>1. t \in Task
    BY <1>1, <1>2, <1>4
  <2>2. t.interval \in Interval
    BY <2>1 DEF Task
  <2>3. t.interval \in Nat /\ t.interval >= 1
    <3>1. t.interval \in Nat \ {0}
      BY <2>2, IntervalAssumption
    <3> QED BY <3>1
  <2>4. t.left > -t.interval
    BY <1>1, <1>2, <1>4 DEF Vector
  <2> QED BY <2>1, <2>3, <2>4
<1>6. PICK r : r = [t EXCEPT !.left = @ + t.interval, !.ran = TRUE]
  OBVIOUS
<1>7. r \in Task /\ r.left > -r.interval /\ r.id = t.id /\ r.oneshot = t.oneshot
  <2>1. t.left \in Int /\ t.left + t.interval \in Int /\ t.left + t.interval > -t.interval
    BY <1>5 DEF Task
  <2>2. r = [t EXCEPT !.left = t.left + t.interval, !.ran = TRUE]
    BY <1>6
  <2> QED BY <1>5, <2>1, <2>2 DEF Task
<1>8. PICK x : x = [active EXCEPT ![1] = r]
  OBVIOUS
<1>9. x \in Seq(Task) /\ Len(x) = n /\ x[1] = r /\ \A i \in 1 .. n : i # 1 => x[i] = active[i]
  BY <1>1, <1>2, <1>3, <1>7, <1>8
<1>10. \A i \in 1 .. n : x[i].id = active[i].id /\ x[i].oneshot = active[i].oneshot /\ x[i].left > -x[i].interval
  BY <1>1, <1>3, <1>4, <1>7, <1>9 DEF Vector
<1>11. Vector(x)
  BY <1>1, <1>3, <1>9, <1>10 DEF Vector
<1>12. t = Head(active)
  BY <1>1, <1>2, <1>4
<1>13. PICK v \in PoppedHeap(x, n - turn) : active' = Erased(v) /\ crashed' = Outside(v)
  BY <1>3, <1>6, <1>8, <1>12 DEF RunFront
<1>14. v \in Seq(Task) /\ Shuffled(x, v)
  <2>1. n - turn \in Int /\ n - turn <= Len(x)
    BY <1>1, <1>9
  <2> QED BY <1>9, <1>13, <2>1, PoppedShuffles
<1>15. /\ Vector(v) /\ Len(v) = n
       /\ \A i \in 1 .. n : \E k \in 1 .. n : v[k] = x[i]
       /\ \A k \in 1 .. n : \E i \in 1 .. n : v[k] = x[i]
  <2>1. Len(v) = Len(x) /\ Len(x) = n
    BY <1>9, <1>11, <1>14, ShuffledVector
  <2>2. /\ Vector(v)
        /\ \A i \in 1 .. Len(x) : \E k \in 1 .. Len(v) : v[k] = x[i]
        /\ \A k \in 1 .. Len(v) : \E i \in 1 .. Len(x) : v[k] = x[i]
    BY <1>11, <1>14, ShuffledVector
  <2> QED BY <2>1, <2>2
<1>16. /\ active' = v \/ (v[1].oneshot /\ n - turn >= 1 /\ active' = Dropped(v, n - turn))
       /\ ~v[1].oneshot => active' = v
  BY <1>13, <1>15 DEF Erased
<1>17. /\ Vector(active') /\ active' \in Seq(Task)
       /\ \A k \in 1 .. Len(active') : \E i \in 1 .. n : active'[k] = v[i]
  <2>1. CASE active' = v
    BY <1>14, <1>15, <2>1
  <2>2. CASE n - turn >= 1 /\ active' = Dropped(v, n - turn)
    <3>1. n - turn \in 1 .. Len(v)
      BY <1>1, <1>15, <2>2
    <3>2. Vector(active') /\ \A k \in 1 .. Len(active') : \E i \in 1 .. n : active'[k] = v[i]
      <4>1. /\ Vector(Dropped(v, n - turn))
            /\ \A k \in 1 .. Len(Dropped(v, n - turn)) : \E i \in 1 .. Len(v) : Dropped(v, n - turn)[k] = v[i]
        <5>1. PICK d \in 1 .. Len(v) : d = n - turn
          BY <3>1
        <5>2. Vector(v)
          BY <1>15
        <5>3. /\ Vector(Dropped(v, d))
              /\ \A k \in 1 .. Len(Dropped(v, d)) : \E i \in 1 .. Len(v) : Dropped(v, d)[k] = v[i]
          BY <5>2, DroppedVector
        <5> QED BY <5>1, <5>3
      <4> QED BY <1>15, <2>2, <4>1
    <3> QED BY <3>2 DEF Vector
  <2> QED BY <1>16, <2>1, <2>2
<1>18. \A k \in 1 .. Len(active') : \E i \in 1 .. Len(active) : active'[k].id = active[i].id
  <2>1. SUFFICES ASSUME NEW k \in 1 .. Len(active') PROVE \E i \in 1 .. n : active'[k].id = active[i].id
    BY <1>3
  <2>2. PICK j \in 1 .. n : active'[k] = v[j]
    BY <1>17
  <2>3. PICK i \in 1 .. n : v[j] = x[i]
    BY <1>15
  <2> QED BY <1>10, <2>2, <2>3
<1>19. PendingInv' /\ (Added = {} => Added' = {})
  <2>1. pending \in Seq(Action) /\ PendingInv
    BY DEF TasksInv, PendingInv
  <2>2. CASE pending' = pending
    BY <1>18, <2>1, <2>2, PendingKept DEF PendingInv
  <2>3. CASE pending' = Append(pending, Remove(t.id))
    <3>1. t.id \in Id
      BY <1>5 DEF Task
    <3>2. Remove(t.id) \in Action /\ Remove(t.id).do = "remove"
      BY <3>1 DEF Remove, Action
    <3>3. pending' \in Seq(Action) /\ Len(pending') = Len(pending) + 1
      BY <2>1, <2>3, <3>2
    <3>4. ASSUME NEW k \in 1 .. Len(pending'), pending'[k].do = "add"
          PROVE  k \in 1 .. Len(pending) /\ pending'[k] = pending[k]
      <4>1. pending'[Len(pending) + 1] = Remove(t.id)
        BY <2>1, <2>3, <3>2
      <4>2. k # Len(pending) + 1
        BY <3>2, <3>4, <4>1
      <4> QED BY <2>1, <2>3, <3>2, <3>3, <4>2
    <3> QED BY <1>18, <2>1, <3>3, <3>4, PendingKept DEF PendingInv
  <2> QED BY <1>12, <2>2, <2>3 DEF RunFront
<1>20. ASSUME ~mixed
       PROVE  /\ ~crashed' /\ Fresh(active') /\ Apart(active')
              /\ turns = Len(active') \/ (active' = <<>> /\ turn + 1 = turns)
              /\ Periodics \ Periodics' \subseteq {}
  <2>1. Fresh(active) /\ Apart(active) /\ turns = n
    BY <1>2, <1>3, <1>20 DEF TasksInv, RoundInv
  <2>2. CASE t.oneshot
    <3>1. n = 1 /\ turn = 0
      BY <1>1, <1>2, <1>3, <1>4, <2>1, <2>2 DEF Apart
    <3>2. v[1] = x[1] /\ v[1].oneshot
      <4>1. PICK i \in 1 .. n : v[1] = x[i]
        BY <1>15, <3>1
      <4>2. i = 1
        BY <3>1
      <4> QED BY <1>7, <1>9, <2>2, <4>1, <4>2
    <3>3. active' = Dropped(v, 1)
      <4>1. v # <<>> /\ Len(v) - turn = 1
        <5>1. Len(v) = 1
          BY <1>15, <3>1
        <5> QED BY <3>1, <5>1
      <4> QED BY <1>13, <3>2, <4>1 DEF Erased
    <3>4. Len(active') = 0 /\ active' = <<>>
      <4>1. 1 \in 1 .. Len(v) /\ Len(v) - 1 = 0
        BY <1>15, <3>1
      <4>2. Len(Dropped(v, 1)) = Len(v) - 1
        BY <1>14, <4>1, DroppedIs
      <4>3. Len(active') = 0
        BY <3>3, <4>1, <4>2
      <4> QED BY <1>17, <4>3
    <3>5. ~crashed'
      <4>1. v # <<>> /\ ~(Len(v) < turn) /\ ~(Len(v) - turn < 1)
        <5>1. Len(v) = 1
          BY <1>15, <3>1
        <5> QED BY <3>1, <5>1
      <4> QED BY <1>13, <4>1 DEF Outside
    <3>6. Fresh(active') /\ Apart(active')
      BY <3>4 DEF Fresh, Apart
    <3>7. Periodics = {}
      BY <1>1, <1>3, <1>4, <2>2, <3>1, PeriodicsAre
    <3> QED BY <2>1, <3>1, <3>4, <3>5, <3>6, <3>7
  <2>3. CASE ~t.oneshot
    <3>1. \A i \in 1 .. n : ~active[i].oneshot
      BY <1>1, <1>3, <1>4, <2>1, <2>3 DEF Apart
    <3>2. \A k \in 1 .. n : ~v[k].oneshot
      <4>1. SUFFICES ASSUME NEW k \in 1 .. n PROVE ~v[k].oneshot
        OBVIOUS
      <4>2. PICK i \in 1 .. n : v[k] = x[i]
        BY <1>15
      <4> QED BY <1>10, <3>1, <4>2
    <3>3. active' = v
      BY <1>2, <1>3, <1>16, <3>2
    <3>4. ~crashed'
      <4>1. n >= 1 /\ turn < n /\ 1 \in 1 .. n
        BY <1>1, <1>2, <1>3, <2>1
      <4>2. v # <<>> /\ ~(Len(v) < turn)
        BY <1>1, <1>14, <1>15, <4>1
      <4>3. ~v[1].oneshot
        BY <3>2, <4>1
      <4> QED BY <1>13, <4>2, <4>3 DEF Outside
    <3>5. Fresh(active') /\ Apart(active') /\ Len(active') = turns
      BY <1>15, <2>1, <3>2, <3>3 DEF Fresh, Apart
    <3>6. ASSUME NEW i \in 1 .. Len(active)
          PROVE  \E k \in 1 .. Len(active') : active'[k].id = active[i].id /\ ~active'[k].oneshot
      <4>1. i \in 1 .. n
        BY <1>3
      <4>2. PICK k \in 1 .. n : v[k] = x[i]
        BY <1>15, <4>1
      <4>3. v[k].id = active[i].id /\ ~v[k].oneshot /\ k \in 1 .. Len(v)
        BY <1>10, <1>15, <3>2, <4>1, <4>2
      <4> QED BY <3>3, <4>3
    <3>7. Periodics \ Periodics' \subseteq {}
      BY <1>1, <1>17, <3>6, PeriodicsStay
    <3> QED BY <3>4, <3>5, <3>7
  <2> QED BY <2>2, <2>3
<1>21. UNCHANGED <<worker, toExit, toClear, turns, caller, mixed>> /\ turn' = turn + 1
  BY DEF RunFront
<1>22. crashed' \in BOOLEAN /\ turn' \in 0 .. turns'
  BY <1>1, <1>2, <1>13, <1>21 DEF Outside
<1>23. TasksInv'
  BY <1>17, <1>19, <1>20, <1>21, <1>22 DEF TasksInv, PlaceInv, RoundInv
<1>24. TasksStay
  BY <1>20, <1>21 DEF TasksStay
<1> QED BY <1>23, <1>24

(* The round ends.                                                         *)
LEMMA PassStep ==
  ASSUME TasksInv, PassDone
  PROVE  TasksInv' /\ TasksStay
<1>1. active \in Seq(Task) /\ Vector(active) /\ turn \in Nat /\ turns \in Nat
  BY Typed
<1>2. active' \in MadeHeap(active) /\ pending' = pending /\ turn' = 0 /\ turns' = 0 /\ worker' = "top"
  BY DEF PassDone
<1>3. active' \in Seq(Task) /\ Shuffled(active, active')
  BY <1>1, <1>2, MadeHeapShuffles
<1>4. /\ Vector(active') /\ (Fresh(active) => Fresh(active')) /\ (Apart(active) => Apart(active'))
      /\ \A i \in 1 .. Len(active) : \E k \in 1 .. Len(active') : active'[k] = active[i]
      /\ \A k \in 1 .. Len(active') : \E i \in 1 .. Len(active) : active'[k] = active[i]
  BY <1>1, <1>3, ShuffledVector
<1>5. PendingInv' /\ (Added = {} => Added' = {})
  <2>1. \A k \in 1 .. Len(active') : \E i \in 1 .. Len(active) : active'[k].id = active[i].id
    BY <1>4
  <2> QED BY <1>2, <2>1, PendingKept DEF TasksInv, PendingInv
<1>6. Periodics \ Periodics' \subseteq {}
  <2>1. \A i \in 1 .. Len(active) : ~active[i].oneshot =>
          \E k \in 1 .. Len(active') : active'[k].id = active[i].id /\ ~active'[k].oneshot
    BY <1>4
  <2> QED BY <1>1, <1>3, <2>1, PeriodicsStay
<1>7. crashed' \in BOOLEAN /\ (~mixed => ~crashed')
  <2>1. crashed' = (turn < turns /\ active = <<>>)
    BY DEF PassDone
  <2>2. worker = "pass"
    BY DEF PassDone
  <2>3. active = <<>> => Len(active) = 0
    OBVIOUS
  <2>4. ~mixed /\ active = <<>> => turn = turns \/ turns = 0
    BY <2>2, <2>3 DEF TasksInv, RoundInv
  <2>5. ~mixed => ~(turn < turns /\ active = <<>>)
    BY <1>1, <2>4
  <2> QED BY <2>1, <2>5
<1>8. UNCHANGED <<toExit, toClear, caller, mixed>>
  BY DEF PassDone
<1>9. turns' \in Nat /\ turn' \in 0 .. turns'
  BY <1>2
<1>10. PlaceInv'
  BY <1>2, <1>7, <1>8, <1>9 DEF TasksInv, PlaceInv
<1>11. RoundInv'
  BY <1>2, <1>4, <1>7, <1>8 DEF TasksInv, RoundInv
<1>12. TasksStay
  BY <1>6, <1>8 DEF TasksStay
<1> QED BY <1>4, <1>5, <1>8, <1>10, <1>11, <1>12 DEF TasksInv

(* A task is added: at an address that is free.                            *)
LEMMA AddStep ==
  ASSUME TasksInv, NEW id \in Id, NEW interval \in Interval, NEW oneshot \in BOOLEAN,
         CallAdd(id, interval, oneshot)
  PROVE  TasksInv' /\ TasksStay
<1>1. pending \in Seq(Action) /\ PendingInv /\ active \in Seq(Task)
  BY DEF TasksInv, PendingInv, Vector
<1>2. PICK n \in Nat : n = Len(pending)
  BY <1>1
<1>3. PICK t : t = [id |-> id, left |-> interval, interval |-> interval, oneshot |-> oneshot, ran |-> FALSE]
  OBVIOUS
<1>4. interval \in Nat /\ interval >= 1
  BY IntervalAssumption
<1>5. t \in Task /\ t.id = id /\ t.left > -t.interval /\ ~t.ran
  BY <1>3, <1>4 DEF Task
<1>6. Add(t) \in Action /\ Add(t).do = "add" /\ Add(t).task = t
  BY <1>5 DEF Add, Action
<1>7. pending' = Append(pending, Add(t)) /\ id \notin Active /\ id \notin Added
  BY <1>3 DEF CallAdd, Push
<1>8. /\ pending' \in Seq(Action) /\ Len(pending') = n + 1 /\ pending'[n + 1] = Add(t)
      /\ \A k \in 1 .. n : pending'[k] = pending[k]
  BY <1>1, <1>2, <1>6, <1>7
<1>9. \A k \in 1 .. n : ~Adds(pending[k], id)
  BY <1>1, <1>2, <1>7, AddedAre DEF Added
<1>10. \A i \in 1 .. Len(active) : active[i].id # id
  <2>1. DOMAIN active = 1 .. Len(active)
    BY <1>1
  <2> QED BY <1>7, <2>1 DEF Active, Elements
<1>11. UNCHANGED <<active, toExit, toClear, worker, turn, turns, caller, crashed, mixed>> /\ caller = "idle"
  BY DEF CallAdd
<1>12. ASSUME NEW k \in 1 .. n + 1, pending'[k].do = "add"
       PROVE  /\ pending'[k].task.left > -pending'[k].task.interval /\ ~pending'[k].task.ran
              /\ \A i \in 1 .. n + 1 : Adds(pending'[i], pending'[k].task.id) => i = k
              /\ \A i \in 1 .. Len(active') : active'[i].id # pending'[k].task.id
  <2>1. CASE k = n + 1
    <3>1. pending'[k].task = t
      BY <1>6, <1>8, <2>1
    <3>2. ASSUME NEW i \in 1 .. n + 1, Adds(pending'[i], id) PROVE i = k
      <4>1. i \notin 1 .. n
        BY <1>8, <1>9, <3>2
      <4> QED BY <2>1, <4>1
    <3> QED BY <1>5, <1>10, <1>11, <3>1, <3>2
  <2>2. CASE k \in 1 .. n
    <3>1. pending'[k] = pending[k] /\ pending[k].do = "add"
      BY <1>8, <1>12, <2>2
    <3>2. /\ pending[k].task.left > -pending[k].task.interval /\ ~pending[k].task.ran
          /\ \A i \in 1 .. n : Adds(pending[i], pending[k].task.id) => i = k
          /\ \A i \in 1 .. Len(active) : active[i].id # pending[k].task.id
      BY <1>1, <1>2, <2>2, <3>1 DEF PendingInv
    <3>3. pending[k].task.id # id
      BY <1>9, <2>2, <3>1 DEF Adds
    <3>4. ASSUME NEW i \in 1 .. n + 1, Adds(pending'[i], pending[k].task.id) PROVE i = k
      <4>1. CASE i = n + 1
        BY <1>5, <1>6, <1>8, <3>3, <3>4, <4>1 DEF Adds
      <4>2. CASE i \in 1 .. n
        BY <1>8, <3>2, <3>4, <4>2
      <4> QED BY <4>1, <4>2
    <3> QED BY <1>11, <3>1, <3>2, <3>4
  <2> QED BY <2>1, <2>2
<1>13. PendingInv'
  BY <1>8, <1>12 DEF PendingInv
<1>14. Vector(active') /\ (Fresh(active) => Fresh(active')) /\ (Apart(active) => Apart(active'))
  BY <1>11 DEF TasksInv
<1>15. Periodics' = Periodics
  BY <1>11 DEF Periodics
<1> QED BY <1>11, <1>13, <1>14, <1>15 DEF TasksInv, PlaceInv, RoundInv, TasksStay

(* A removal is asked for, or the end.                                     *)
LEMMA AskStep ==
  ASSUME TasksInv, (\E id \in Id : CallRemove(id)) \/ Destroy
  PROVE  TasksInv' /\ TasksStay
<1>1. pending \in Seq(Action) /\ PendingInv
  BY DEF TasksInv, PendingInv
<1>2. PICK a \in Action : a.do # "add" /\ pending' = Append(pending, a)
  <2>1. ASSUME NEW id \in Id, CallRemove(id) PROVE \E a \in Action : a.do # "add" /\ pending' = Append(pending, a)
    <3>1. Remove(id) \in Action /\ Remove(id).do # "add" /\ pending' = Append(pending, Remove(id))
      BY <2>1 DEF CallRemove, Push, Remove, Action
    <3> QED BY <3>1
  <2>2. CASE Destroy
    <3>1. Wakeup \in Action /\ Wakeup.do # "add" /\ pending' = Append(pending, Wakeup)
      BY <2>2 DEF Destroy, Wakeup, Action
    <3> QED BY <3>1
  <2> QED BY <2>1, <2>2
<1>3. pending' \in Seq(Action) /\ Len(pending') = Len(pending) + 1
  BY <1>1, <1>2
<1>4. ASSUME NEW k \in 1 .. Len(pending'), pending'[k].do = "add"
      PROVE  k \in 1 .. Len(pending) /\ pending'[k] = pending[k]
  <2>1. pending'[Len(pending) + 1] = a
    BY <1>1, <1>2
  <2>2. k # Len(pending) + 1
    BY <1>2, <1>4, <2>1
  <2> QED BY <1>1, <1>2, <1>3, <2>2
<1>5. UNCHANGED <<active, toClear, worker, turn, turns, crashed, mixed>> /\ toExit' \in BOOLEAN
  BY DEF CallRemove, Destroy, TasksInv, PlaceInv
<1>6. caller = "idle" /\ caller' \in {"idle", "joining"}
  BY DEF CallRemove, Destroy
<1>7. PendingInv'
  BY <1>1, <1>3, <1>4, <1>5, PendingKept DEF PendingInv
<1>8. Vector(active') /\ (Fresh(active) => Fresh(active')) /\ (Apart(active) => Apart(active'))
  BY <1>5 DEF TasksInv
<1>9. Periodics' = Periodics
  BY <1>5 DEF Periodics
<1> QED BY <1>5, <1>6, <1>7, <1>8, <1>9 DEF TasksInv, PlaceInv, RoundInv, TasksStay

(* Less time is left, but no task is late by its interval.                 *)
LEMMA PassedIs ==
  ASSUME NEW t \in Task, t.left > -t.interval
  PROVE  /\ Passed(t) \in Task /\ Passed(t).left > -Passed(t).interval
         /\ Passed(t).id = t.id /\ Passed(t).oneshot = t.oneshot /\ Passed(t).ran = t.ran
<1>1. t.interval \in Nat /\ t.left \in Int
  BY IntervalAssumption DEF Task
<1>2. PICK l : l = IF t.left > 1 - t.interval THEN t.left - 1 ELSE t.left
  OBVIOUS
<1>3. l \in Int /\ l > -t.interval
  BY <1>1, <1>2
<1>4. Passed(t) = [t EXCEPT !.left = l]
  BY <1>2 DEF Passed
<1> QED BY <1>3, <1>4 DEF Task

(* So a moment keeps all.                                                  *)
LEMMA TickStep ==
  ASSUME TasksInv, Tick
  PROVE  TasksInv' /\ TasksStay
<1>1. /\ active \in Seq(Task) /\ Vector(active) /\ Len(active) \in Nat
      /\ pending \in Seq(Action) /\ PendingInv /\ Len(pending) \in Nat
  BY Typed
<1>2. /\ active' = [k \in 1 .. Len(active) |-> Passed(active[k])]
      /\ pending' = [k \in 1 .. Len(pending) |->
           IF pending[k].do = "add" THEN Add(Passed(pending[k].task)) ELSE pending[k]]
  BY <1>1 DEF Tick
<1>3. ASSUME NEW k \in 1 .. Len(active)
      PROVE  /\ active'[k] = Passed(active[k]) /\ active'[k] \in Task
             /\ active'[k].left > -active'[k].interval /\ active'[k].id = active[k].id
             /\ active'[k].oneshot = active[k].oneshot /\ active'[k].ran = active[k].ran
  <2>1. active[k] \in Task /\ active[k].left > -active[k].interval
    BY <1>1 DEF Vector
  <2>2. active'[k] = Passed(active[k])
    BY <1>2
  <2> QED BY <2>1, <2>2, PassedIs
<1>4. active' \in Seq(Task) /\ Len(active') = Len(active)
  <2>1. active' \in [1 .. Len(active) -> Task]
    BY <1>2, <1>3
  <2> QED BY <1>1, <2>1
<1>5. Vector(active') /\ (Fresh(active) => Fresh(active')) /\ (Apart(active) => Apart(active'))
  BY <1>1, <1>3, <1>4 DEF Vector, Fresh, Apart
<1>6. ASSUME NEW k \in 1 .. Len(pending)
      PROVE  /\ pending'[k] \in Action
             /\ pending'[k].do = "add" => /\ pending[k].do = "add" /\ pending'[k].task.id = pending[k].task.id
                                          /\ pending'[k].task.left > -pending'[k].task.interval
                                          /\ ~pending'[k].task.ran
  <2>1. CASE pending[k].do = "add"
    <3>1. PICK t : t = pending[k].task
      OBVIOUS
    <3>2. t \in Task /\ t.left > -t.interval /\ ~t.ran
      BY <1>1, <2>1, <3>1, ActionIs DEF PendingInv
    <3>3. pending'[k] = Add(Passed(t))
      BY <1>2, <2>1, <3>1
    <3>4. /\ Passed(t) \in Task /\ Passed(t).left > -Passed(t).interval
          /\ Passed(t).id = t.id /\ Passed(t).ran = t.ran
      BY <3>2, PassedIs
    <3>5. pending'[k].task = Passed(t) /\ pending'[k] \in Action
      BY <3>3, <3>4 DEF Add, Action
    <3> QED BY <2>1, <3>1, <3>2, <3>4, <3>5
  <2>2. CASE pending[k].do # "add"
    <3>1. pending'[k] = pending[k] /\ pending[k] \in Action
      BY <1>1, <1>2, <2>2
    <3> QED BY <2>2, <3>1
  <2> QED BY <2>1, <2>2
<1>7. pending' \in Seq(Action) /\ Len(pending') = Len(pending)
  <2>1. pending' \in [1 .. Len(pending) -> Action]
    BY <1>2, <1>6
  <2> QED BY <1>1, <2>1
<1>8. PendingInv' /\ (Added = {} => Added' = {})
  BY <1>1, <1>3, <1>4, <1>6, <1>7, PendingKept
<1>9. Periodics \ Periodics' \subseteq {}
  <2>1. \A i \in 1 .. Len(active) : ~active[i].oneshot =>
          \E k \in 1 .. Len(active') : active'[k].id = active[i].id /\ ~active'[k].oneshot
    BY <1>3, <1>4
  <2> QED BY <1>1, <1>4, <2>1, PeriodicsStay
<1>10. active = <<>> => active' = <<>>
  BY <1>4
<1>11. UNCHANGED <<toExit, toClear, worker, turn, turns, caller, crashed, mixed>>
  BY DEF Tick
<1> QED BY <1>4, <1>5, <1>8, <1>9, <1>10, <1>11 DEF TasksInv, PlaceInv, RoundInv, TasksStay

(* Every step does.                                                        *)
LEMMA TasksStep ==
  ASSUME TasksInv, [PeriodicNext]_periodicVars
  PROVE  TasksInv' /\ TasksStay
<1>1. CASE Worker
  BY <1>1, QuietSteps, ClearSteps, MergeStep, RunStep, PassStep DEF Worker
<1>2. CASE Caller
  BY <1>2, QuietSteps, AddStep, AskStep DEF Caller
<1>3. CASE Waiting \/ Join \/ UNCHANGED periodicVars
  BY <1>3, QuietSteps
<1>4. CASE Tick
  BY <1>4, TickStep
<1> QED BY <1>1, <1>2, <1>3, <1>4 DEF PeriodicNext

(* What the property says of the tasks that are left.                      *)
LEMMA TasksAre == TasksInv => OneshotOnce
<1> SUFFICES ASSUME TasksInv PROVE OneshotOnce
  OBVIOUS
<1>1. active \in Seq(Task) /\ Vector(active) /\ DOMAIN active = 1 .. Len(active)
  BY Typed
<1>2. \A task \in Elements(active) : task \in Task /\ task.left > -task.interval
  BY <1>1 DEF Elements, Vector
<1>3. \A i, j \in DOMAIN active : active[i].id = active[j].id => i = j
  BY <1>1 DEF Vector
<1>4. TasksTyped
  BY <1>2, <1>3 DEF TasksTyped, TasksInv, PlaceInv
<1>5. Fresh(active) => \A task \in Elements(active) : ~(task.oneshot /\ task.ran)
  BY <1>1 DEF Elements, Fresh
<1> QED BY <1>4, <1>5 DEF OneshotOnce, TasksInv, RoundInv

(* For any tasks, any positive intervals and any calls: a periodic task    *)
(* stays until it is removed or all are cleared, a oneshot task that has   *)
(* the vector for itself runs once, and WaitUntilEmpty returns when there  *)
(* is no task.                                                             *)
THEOREM TasksAreKept == PeriodicSpec => TasksKept
<1>1. TasksInv /\ [PeriodicNext]_periodicVars => TasksInv' /\ TasksStay /\ OneshotOnce'
  <2>1. TasksInv' => OneshotOnce'
    BY TasksAre, PTL
  <2> QED BY <2>1, TasksStep
<1> QED BY <1>1, TasksStart, PTL DEF PeriodicSpec, TasksKept
=============================================================================

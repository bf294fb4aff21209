---------------------------- MODULE ServiceProofs ----------------------------
(***************************************************************************)
(* That CloseSession closes only a session that has said so itself, for    *)
(* any set of addresses, any length of an address, and any number of       *)
(* clients, requests and announcements; and that there is one server, for  *)
(* any number of calls of the program.                                     *)
(*                                                                         *)
(* The pipe may hold letters and bytes in any order that the writes of     *)
(* several sessions leave, and the accepting thread may read them out of   *)
(* step.  What keeps a stale address from closing the session that has     *)
(* taken its place is that bytes in the pipe are of sessions that are      *)
(* done, each once, and that a session is deleted only when all its bytes  *)
(* have been read.                                                         *)
(*                                                                         *)
(* Of calls that do not overlap one decides at a time, and has read the    *)
(* pid of the server that is there: a pid goes stale only with its server. *)
(* Of the send buffer: whoever fills it under the lock has the lock.       *)
(***************************************************************************)
EXTENDS MCService, SequenceTheorems, FiniteSetTheorems, TLAPS

ByteOf(s, k) == [what |-> "byte", of |-> s, k |-> k]
Bytes == UNION {{ByteOf(s, k) : k \in 1 .. Word} : s \in Address}
Letters == {Quit, StopAll}

(* The accepting thread still reads the pipe.                              *)
Serving == main \notin {"stopping", "joining"}

(* The bytes in the pipe are of sessions that are done, and each is there  *)
(* once; those of the session that is being deleted have been read.        *)
PipeInv ==
  /\ \A i \in 1 .. Len(pipe) : pipe[i] \in Bytes => thread[pipe[i].of] = "done"
  /\ \A i, j \in 1 .. Len(pipe) : pipe[i] \in Bytes /\ pipe[i] = pipe[j] => i = j
  /\ main = "closing" =>
       /\ thread[closing] = "done" /\ closing \notin sessions
       /\ \A i \in 1 .. Len(pipe) : pipe[i] \in Bytes => pipe[i].of # closing

ThreadState == {"none", "start", "recv", "leaving", "told", "done"}
ConnState == {"none", "open", "closed", "reset", "shut"}

(* The domains that TypeOK does not speak of.                              *)
Domains ==
  /\ thread \in [Address -> ThreadState] /\ conn \in [Address -> ConnState]
  /\ inbox \in [Address -> Seq({"request", "stop"})]
  /\ pipe \in Seq(Letters \cup Bytes)

IInv == TypeOK /\ Domains /\ (Serving => PipeInv)

-----------------------------------------------------------------------------
(* Letters are no bytes, and a byte tells its session and its place.       *)
LEMMA ByteFacts ==
  /\ \A b \in Letters : b \notin Bytes
  /\ \A s \in Address, k \in 1 .. Word : ByteOf(s, k) \in Bytes
  /\ \A b \in Bytes : b.of \in Address /\ b.k \in 1 .. Word /\ b = ByteOf(b.of, b.k)
  /\ \A s, t, k, l : ByteOf(s, k) = ByteOf(t, l) => s = t /\ k = l
<1>1. \A s, k : ByteOf(s, k).what = "byte" /\ ByteOf(s, k).of = s /\ ByteOf(s, k).k = k
  BY DEF ByteOf
<1>2. \A b \in Letters : b.what # "byte"
  BY DEF Letters, Quit, StopAll
<1>3. QED
  BY <1>1, <1>2 DEF Bytes

(* An address as a sequence of bytes.                                      *)
LEMMA PointerFacts ==
  ASSUME NEW s \in Address
  PROVE  /\ Pointer(s) \in Seq(Letters \cup Bytes)
         /\ Len(Pointer(s)) = Word
         /\ \A k \in 1 .. Word : Pointer(s)[k] = ByteOf(s, k)
<1>1. \A k \in 1 .. Word : ByteOf(s, k) \in Letters \cup Bytes
  BY ByteFacts
<1>2. Pointer(s) = [k \in 1 .. Word |-> ByteOf(s, k)]
  BY DEF Pointer, ByteOf
<1>3. Word \in Nat
  BY ServiceAssumption
<1>4. Pointer(s) \in Seq(Letters \cup Bytes)
  BY <1>1, <1>2, <1>3
<1>5. QED
  BY <1>2, <1>3, <1>4, LenProperties

(* What is left of the pipe when the first n bytes have been read.         *)
LEMMA Shorter ==
  ASSUME Domains, NEW n \in 0 .. Len(pipe), pipe' = SubSeq(pipe, n + 1, Len(pipe))
  PROVE  /\ pipe' \in Seq(Letters \cup Bytes)
         /\ Len(pipe') = Len(pipe) - n
         /\ \A i \in 1 .. Len(pipe') : i + n \in 1 .. Len(pipe) /\ pipe'[i] = pipe[i + n]
<1>1. pipe \in Seq(Letters \cup Bytes) /\ Len(pipe) \in Nat
  BY DEF Domains
<1>2. \A i \in n + 1 .. Len(pipe) : pipe[i] \in Letters \cup Bytes
  BY <1>1
<1>3. QED
  BY <1>1, <1>2, SubSeqProperties

(* Reading from the pipe keeps what is known of it, if no thread changes.  *)
LEMMA ReadingKeeps ==
  ASSUME Domains, PipeInv, main # "closing", main' # "closing", thread' = thread,
         NEW n \in 0 .. Len(pipe), pipe' = SubSeq(pipe, n + 1, Len(pipe))
  PROVE  PipeInv'
<1>1. Len(pipe) \in Nat
  BY DEF Domains
<1>2. QED
  BY <1>1, Shorter DEF PipeInv

(* A letter more keeps it, too.                                            *)
LEMMA LetterKeeps ==
  ASSUME TypeOK, Domains, PipeInv, NEW letter \in Letters, pipe' = Append(pipe, letter),
         UNCHANGED <<main, closing, sessions>>,
         \A s \in Address : thread[s] = "done" => thread'[s] = "done"
  PROVE  PipeInv'
<1>1. /\ Len(pipe) \in Nat /\ Len(pipe') = Len(pipe) + 1
      /\ \A i \in 1 .. Len(pipe) : pipe'[i] = pipe[i]
      /\ pipe'[Len(pipe) + 1] = letter
  BY AppendProperties, letter \in Letters \cup Bytes DEF Domains
<1>2. letter \notin Bytes
  BY ByteFacts
<1>3. \A i \in 1 .. Len(pipe') : pipe'[i] \in Bytes => i \in 1 .. Len(pipe) /\ pipe'[i] = pipe[i]
  BY <1>1, <1>2
<1>4. \A i \in 1 .. Len(pipe) : pipe[i] \in Bytes => pipe[i].of \in Address
  BY ByteFacts
<1>5. main = "closing" => closing \in Address
  BY DEF TypeOK
<1>6. QED
  BY <1>3, <1>4, <1>5 DEF PipeInv

(* And so does an address, of a session that had nothing in the pipe.      *)
LEMMA PointerKeeps ==
  ASSUME TypeOK, Domains, PipeInv, NEW s \in Address, pipe' = pipe \o Pointer(s),
         UNCHANGED <<main, closing, sessions>>,
         thread[s] = "told", thread' = [thread EXCEPT ![s] = "done"]
  PROVE  PipeInv'
<1> DEFINE n == Len(pipe)
<1>1. /\ n \in Nat /\ Word \in Nat /\ Len(pipe') = n + Word
      /\ \A i \in 1 .. n + Word : pipe'[i] = IF i <= n THEN pipe[i] ELSE Pointer(s)[i - n]
  <2>1. pipe \in Seq(Letters \cup Bytes) /\ Pointer(s) \in Seq(Letters \cup Bytes) /\ Len(Pointer(s)) = Word
    BY PointerFacts DEF Domains
  <2>2. Word \in Nat
    BY ServiceAssumption
  <2>3. /\ Len(pipe \o Pointer(s)) = Len(pipe) + Len(Pointer(s)) /\ Len(pipe) \in Nat
        /\ \A i \in 1 .. Len(pipe) + Len(Pointer(s)) :
             (pipe \o Pointer(s))[i] = IF i <= Len(pipe) THEN pipe[i] ELSE Pointer(s)[i - Len(pipe)]
    BY <2>1, ConcatProperties
  <2>4. QED
    BY <2>1, <2>2, <2>3
<1>2. \A i \in 1 .. n : pipe'[i] = pipe[i]
  BY <1>1
<1>3. \A i \in n + 1 .. n + Word : i - n \in 1 .. Word /\ pipe'[i] = ByteOf(s, i - n)
  BY <1>1, PointerFacts
<1>4. \A i \in 1 .. n : pipe[i] \in Bytes => pipe[i].of \in Address /\ pipe[i].of # s
  BY ByteFacts DEF PipeInv
<1>5. \A i \in n + 1 .. n + Word : pipe'[i].of = s
  <2>1. \A k : ByteOf(s, k).of = s
    BY DEF ByteOf
  <2>2. QED
    BY <1>3, <2>1
<1>6. \A i \in 1 .. n + Word : pipe'[i] \in Bytes => thread'[pipe'[i].of] = "done"
  <2>1. \A i \in 1 .. n : pipe'[i] \in Bytes => thread'[pipe'[i].of] = "done"
    BY <1>2, <1>4 DEF PipeInv, Domains
  <2>2. \A i \in n + 1 .. n + Word : thread'[pipe'[i].of] = "done"
    BY <1>5 DEF Domains
  <2>3. QED
    BY <2>1, <2>2, <1>1
<1>7. ASSUME NEW i \in 1 .. n + Word, NEW j \in 1 .. n + Word, pipe'[i] \in Bytes, pipe'[i] = pipe'[j]
      PROVE  i = j
  <2>1. CASE i <= n /\ j <= n
    BY <2>1, <1>1, <1>2, <1>7 DEF PipeInv
  <2>2. CASE i > n /\ j > n
    <3>1. ByteOf(s, i - n) = ByteOf(s, j - n)
      BY <2>2, <1>1, <1>3, <1>7
    <3>2. i - n = j - n
      BY <3>1, ByteFacts
    <3>3. QED
      BY <3>2, <1>1
  <2>3. CASE (i <= n /\ j > n) \/ (j <= n /\ i > n)
    <3>1. PICK k \in 1 .. n, l \in n + 1 .. n + Word : pipe'[k] = pipe'[l] /\ pipe'[k] \in Bytes
      BY <2>3, <1>1, <1>7
    <3>2. QED
      BY <3>1, <1>2, <1>4, <1>5
  <2>4. QED
    BY <2>1, <2>2, <2>3, <1>1
<1>8. main = "closing" => \A i \in 1 .. n + Word : pipe'[i] \in Bytes => pipe'[i].of # closing
  <2>1. main = "closing" => closing # s /\ closing \in Address
    BY DEF PipeInv, TypeOK
  <2>2. main = "closing" => \A i \in 1 .. n : pipe'[i] \in Bytes => pipe'[i].of # closing
    BY <1>2 DEF PipeInv
  <2>3. QED
    BY <2>1, <2>2, <1>1, <1>5
<1>9. main = "closing" => thread'[closing] = "done"
  BY DEF PipeInv, TypeOK, Domains
<1>10. QED
  BY <1>1, <1>6, <1>7, <1>8, <1>9 DEF PipeInv

(* How much ReadPointer takes from the pipe.                               *)
LEMMA TakenLen ==
  ASSUME NEW p \in Seq(Letters \cup Bytes)
  PROVE  Len(Taken(p)) = IF Len(p) < Word THEN Len(p) ELSE Word
<1> DEFINE n == IF Len(p) < Word THEN Len(p) ELSE Word
<1>1. n \in Nat /\ n <= Len(p)
  BY ServiceAssumption
<1>2. \A k \in 1 .. n : p[k] \in Letters \cup Bytes
  BY <1>1
<1>3. Taken(p) = [k \in 1 .. n |-> p[k]]
  BY DEF Taken
<1>4. QED
  BY <1>1, <1>2, <1>3, LenProperties

(* What ReadPointer reads first, if it is an address, is that of a session *)
(* that is done, and nothing of it is left in the pipe.                    *)
LEMMA FoundIsDone ==
  ASSUME Domains, PipeInv, NEW s \in Words(Taken(pipe)), pipe # <<>>,
         pipe' = Rest(pipe)
  PROVE  /\ s \in Address /\ thread[s] = "done"
         /\ \A i \in 1 .. Len(pipe') : pipe'[i] \in Bytes => pipe'[i].of # s
<1> DEFINE n == IF Len(pipe) < Word THEN Len(pipe) ELSE Word
<1>1. Len(pipe) \in Nat /\ Word \in Nat \ {0} /\ n \in 0 .. Len(pipe) /\ s \in Address
  BY ServiceAssumption DEF Domains, Words
<1>2. Taken(pipe) = [k \in 1 .. n |-> pipe[k]] /\ Taken(pipe) = Pointer(s)
  BY DEF Taken, Words
<1>3. Len(Taken(pipe)) = n
  BY TakenLen DEF Domains
<1>4. n = Word
  BY <1>1, <1>2, <1>3, PointerFacts
<1>5. \A k \in 1 .. Word : pipe[k] = ByteOf(s, k)
  BY <1>1, <1>2, <1>4, PointerFacts
<1>6. thread[s] = "done"
  <2>1. 1 \in 1 .. Word /\ 1 \in 1 .. Len(pipe)
    BY <1>1, <1>4
  <2>2. pipe[1] = ByteOf(s, 1) /\ ByteOf(s, 1) \in Bytes /\ ByteOf(s, 1).of = s
    BY <2>1, <1>1, <1>5, ByteFacts DEF ByteOf
  <2>3. QED
    BY <2>1, <2>2 DEF PipeInv
<1>7. ASSUME NEW i \in 1 .. Len(pipe'), pipe'[i] \in Bytes, pipe'[i].of = s
      PROVE  FALSE
  <2>1. i + n \in 1 .. Len(pipe) /\ pipe'[i] = pipe[i + n] /\ i \in Nat \ {0}
    BY <1>1, <1>3, Shorter DEF Rest
  <2>2. pipe'[i].k \in 1 .. Word /\ pipe'[i] = ByteOf(s, pipe'[i].k)
    BY <1>7, ByteFacts
  <2>3. pipe[pipe'[i].k] = pipe[i + n] /\ pipe'[i].k \in 1 .. Len(pipe)
    BY <2>1, <2>2, <1>1, <1>4, <1>5
  <2>4. pipe'[i].k = i + n
    BY <2>1, <2>3, <1>7 DEF PipeInv
  <2>5. QED
    BY <2>1, <2>2, <2>4, <1>1, <1>4
<1>8. QED
  BY <1>1, <1>6, <1>7

-----------------------------------------------------------------------------
(* The first state is as the invariant says.                               *)
LEMMA InitIInv == Init => IInv
<1> SUFFICES ASSUME Init PROVE IInv
  OBVIOUS
<1>1. TypeOK
  BY ServiceAssumption DEF Init, TypeOK
<1>2. <<>> \in Seq({"request", "stop"}) /\ <<>> \in Seq(Letters \cup Bytes) /\ Len(<<>>) = 0
  OBVIOUS
<1>3. Domains
  BY <1>2 DEF Init, Domains, ThreadState, ConnState
<1>4. PipeInv
  BY <1>2 DEF Init, PipeInv
<1>5. QED
  BY <1>1, <1>3, <1>4 DEF IInv

(* A packet to some sessions leaves connections where they are, or makes   *)
(* closed ones reset.                                                      *)
LEMMA SendFacts ==
  ASSUME Domains, NEW to, Send(to)
  PROVE  /\ process' \in {"up", "killed"} /\ conn' \in [Address -> ConnState]
         /\ \A s \in Address : (conn'[s] = "none") = (conn[s] = "none")
BY DEF Domains, Send, ConnState

(* Every step leaves the variables in the domains that Domains tells.      *)
LEMMA DomainsStep ==
  ASSUME IInv, Next
  PROVE  Domains'
<1> DEFINE Msgs == {"request", "stop"}
<1> USE DEF IInv
<1>1. /\ thread \in [Address -> ThreadState] /\ conn \in [Address -> ConnState]
      /\ inbox \in [Address -> Seq(Msgs)] /\ pipe \in Seq(Letters \cup Bytes)
  BY DEF Domains
<1>2. <<>> \in Seq(Msgs)
  OBVIOUS
<1>3. \A n \in 0 .. Len(pipe) : SubSeq(pipe, n + 1, Len(pipe)) \in Seq(Letters \cup Bytes)
  BY <1>1, SubSeqProperties
<1>4. CASE ReadCommand
  BY <1>1, <1>4, HeadTailProperties DEF ReadCommand, Domains
<1>5. CASE ReadPointer
  <2>1. Len(Taken(pipe)) \in 0 .. Len(pipe)
    BY <1>1, ServiceAssumption, TakenLen
  <2>2. conn' \in [Address -> ConnState]
    BY <1>1, <1>5 DEF ReadPointer, Shut, ConnState
  <2>3. QED
    BY <1>1, <1>3, <1>5, <2>1, <2>2 DEF ReadPointer, Rest, Domains
<1>6. CASE CloseSession \/ StopJoined
  BY <1>1, <1>6 DEF CloseSession, StopJoined, Delete, Domains, ThreadState, ConnState
<1>7. CASE StopNext
  BY <1>1, <1>7 DEF StopNext, Shut, Domains, ConnState
<1>8. CASE Exit
  BY <1>8 DEF Exit, Domains
<1>9. CASE Announce
  BY <1>9, SendFacts DEF Announce, Domains
<1>10. ASSUME NEW s \in Address, OpenSession(s) PROVE Domains'
  BY <1>1, <1>2, <1>10 DEF OpenSession, Domains, ThreadState, ConnState
<1>11. ASSUME NEW s \in Address, StartThread(s) PROVE Domains'
  <2>1. conn' \in [Address -> ConnState]
    BY <1>11, SendFacts DEF StartThread
  <2>2. QED
    BY <1>1, <1>11, <2>1 DEF StartThread, Domains, ThreadState
<1>12. ASSUME NEW s \in Address, Receive(s) PROVE Domains'
  <2>1. inbox' \in [Address -> Seq(Msgs)]
    BY <1>1, <1>12, HeadTailProperties DEF Receive
  <2>2. conn' \in [Address -> ConnState]
    BY <1>1, <1>12, SendFacts DEF Receive
  <2>3. StopAll \in Letters \cup Bytes
    BY DEF Letters
  <2>4. pipe' \in Seq(Letters \cup Bytes)
    <3>1. Append(pipe, StopAll) \in Seq(Letters \cup Bytes)
      BY <1>1, <2>3, AppendProperties
    <3>2. QED
      BY <1>1, <1>12, <3>1 DEF Receive
  <2>5. thread' \in [Address -> ThreadState]
    BY <1>1, <1>12 DEF Receive, ThreadState
  <2>6. QED
    BY <2>1, <2>2, <2>4, <2>5 DEF Domains
<1>13. ASSUME NEW s \in Address, LeaveLoop(s) PROVE Domains'
  BY <1>1, <1>13 DEF LeaveLoop, Domains, ThreadState
<1>14. ASSUME NEW s \in Address, WriteQuit(s) PROVE Domains'
  <2>1. Quit \in Letters \cup Bytes
    BY DEF Letters
  <2>2. pipe' \in Seq(Letters \cup Bytes)
    BY <1>1, <1>14, <2>1, AppendProperties DEF WriteQuit
  <2>3. QED
    BY <1>1, <1>14, <2>2 DEF WriteQuit, Domains, ThreadState
<1>15. ASSUME NEW s \in Address, WritePointer(s) PROVE Domains'
  <2>1. Pointer(s) \in Seq(Letters \cup Bytes)
    BY PointerFacts
  <2>2. pipe' \in Seq(Letters \cup Bytes)
    BY <1>1, <1>15, <2>1, ConcatProperties DEF WritePointer
  <2>3. QED
    BY <1>1, <1>15, <2>2 DEF WritePointer, Domains, ThreadState
<1>16. ASSUME NEW s \in Address, ClientRequest(s) PROVE Domains'
  BY <1>1, <1>16, AppendProperties DEF ClientRequest, Domains
<1>17. ASSUME NEW s \in Address, ClientQuit(s) PROVE Domains'
  <2>1. conn' \in [Address -> ConnState]
    BY <1>1, <1>17 DEF ClientQuit, ConnState
  <2>2. inbox' \in [Address -> Seq(Msgs)]
    <3>1. Append(inbox[s], "stop") \in Seq(Msgs)
      BY <1>1, AppendProperties
    <3>2. inbox' = inbox \/ inbox' = [inbox EXCEPT ![s] = Append(@, "stop")]
      BY <1>17 DEF ClientQuit
    <3>3. QED
      BY <1>1, <3>1, <3>2
  <2>3. QED
    BY <1>1, <1>17, <2>1, <2>2 DEF ClientQuit, Domains
<1>18. QED
  BY <1>4, <1>5, <1>6, <1>7, <1>8, <1>9, <1>10, <1>11, <1>12, <1>13, <1>14, <1>15, <1>16, <1>17
     DEF Next, Main, Thread

(* The parts of the type invariant.                                        *)
Places ==
  /\ process \in {"up", "exited", "killed"}
  /\ main \in {"select", "pointer", "closing", "stopping", "joining"}
  /\ closing \in Address <=> main \in {"closing", "joining"}
Alive ==
  /\ \A s \in Address : (conn[s] = "none") = (thread[s] = "none")
  /\ \A s \in sessions : s \in Address /\ thread[s] # "none"

LEMMA TypeParts ==
  Domains => (TypeOK <=> Places /\ Alive /\ asked \in BOOLEAN /\ torn \in BOOLEAN)
<1> SUFFICES ASSUME Domains PROVE TypeOK <=> Places /\ Alive /\ asked \in BOOLEAN /\ torn \in BOOLEAN
  OBVIOUS
<1>1. \A s \in Address : thread[s] \in ThreadState /\ conn[s] \in ConnState
  BY DEF Domains
<1>2. {asked, torn} \subseteq BOOLEAN <=> asked \in BOOLEAN /\ torn \in BOOLEAN
  OBVIOUS
<1>3. sessions \subseteq {s \in Address : thread[s] # "none"} <=> \A s \in sessions : s \in Address /\ thread[s] # "none"
  OBVIOUS
<1>4. QED
  BY <1>1, <1>2, <1>3 DEF TypeOK, Places, Alive, ThreadState, ConnState

(* Every step keeps the type invariant.  That the session which            *)
(* CloseSession deletes is out of the set is PipeInv's.                    *)
LEMMA TypeStep ==
  ASSUME IInv, Next
  PROVE  TypeOK'
<1>1. /\ Domains /\ Places /\ Alive /\ asked \in BOOLEAN /\ torn \in BOOLEAN
      /\ thread \in [Address -> ThreadState] /\ conn \in [Address -> ConnState]
      /\ process = "up"
  BY TypeParts DEF IInv, Domains, Next
<1>2. Domains' /\ thread' \in [Address -> ThreadState] /\ conn' \in [Address -> ConnState]
  BY DomainsStep DEF Domains
<1>3. ASSUME ReadCommand PROVE Places' /\ Alive' /\ asked' = asked /\ torn' = torn
  BY <1>1, <1>3 DEF ReadCommand, Places, Alive, clientVars
<1>4. ASSUME ReadPointer PROVE Places' /\ Alive' /\ asked' = asked /\ torn' = torn
  BY <1>1, <1>4 DEF ReadPointer, Shut, Words, Places, Alive, clientVars
<1>5. ASSUME CloseSession PROVE Places' /\ Alive' /\ asked' = asked /\ torn' = torn
  <2>1. closing \in Address /\ closing \notin sessions
    BY <1>1, <1>5 DEF CloseSession, Serving, IInv, PipeInv, Places
  <2>2. QED
    BY <1>1, <1>5, <2>1, ServiceAssumption DEF CloseSession, Delete, Places, Alive, clientVars
<1>6. ASSUME StopJoined PROVE Places' /\ Alive' /\ asked' = asked /\ torn' = torn
  BY <1>1, <1>6, ServiceAssumption DEF StopJoined, Delete, Places, Alive, clientVars
<1>7. ASSUME StopNext PROVE Places' /\ Alive' /\ asked' = asked /\ torn' = torn
  BY <1>1, <1>7 DEF StopNext, Shut, Places, Alive, clientVars
<1>8. ASSUME Exit PROVE Places' /\ Alive' /\ asked' = asked /\ torn' = torn
  BY <1>1, <1>8 DEF Exit, Places, Alive, clientVars
<1>9. ASSUME Announce PROVE Places' /\ Alive' /\ asked' = asked /\ torn' = torn
  BY <1>1, <1>9, SendFacts DEF Announce, Places, Alive, clientVars
<1>10. ASSUME NEW s \in Address, OpenSession(s) PROVE Places' /\ Alive' /\ asked' = asked /\ torn' = torn
  BY <1>1, <1>10 DEF OpenSession, Places, Alive
<1>11. ASSUME NEW s \in Address, Thread(s) PROVE Places' /\ Alive' /\ asked' = asked /\ torn' \in BOOLEAN
  <2>1. asked' = asked /\ torn' \in BOOLEAN
    BY <1>1, <1>11 DEF Thread, StartThread, Receive, LeaveLoop, WriteQuit, WritePointer, Between, clientVars
  <2>2. /\ process' \in {"up", "killed"} /\ UNCHANGED <<main, closing, sessions>>
        /\ \A a \in Address : (conn'[a] = "none") = (conn[a] = "none")
    BY <1>1, <1>11, SendFacts
       DEF Thread, StartThread, Receive, LeaveLoop, WriteQuit, WritePointer, mainVars
  <2>3. thread[s] # "none" /\ \E to \in ThreadState \ {"none"} : thread' = [thread EXCEPT ![s] = to]
    <3>1. thread = [thread EXCEPT ![s] = thread[s]] /\ thread[s] \in ThreadState
      BY <1>1
    <3>2. QED
      BY <3>1, <1>11 DEF Thread, StartThread, Receive, LeaveLoop, WriteQuit, WritePointer, ThreadState
  <2>4. QED
    BY <1>1, <2>1, <2>2, <2>3 DEF Places, Alive
<1>12. ASSUME NEW s \in Address, ClientRequest(s) PROVE Places' /\ Alive' /\ asked' = asked /\ torn' = torn
  BY <1>1, <1>12 DEF ClientRequest, mainVars, clientVars, Places, Alive
<1>13. ASSUME NEW s \in Address, ClientQuit(s) PROVE Places' /\ Alive' /\ asked' \in BOOLEAN /\ torn' = torn
  BY <1>1, <1>13 DEF ClientQuit, mainVars, Places, Alive
<1>14. Places' /\ Alive' /\ asked' \in BOOLEAN /\ torn' \in BOOLEAN
  BY <1>1, <1>3, <1>4, <1>5, <1>6, <1>7, <1>8, <1>9, <1>10, <1>11, <1>12, <1>13 DEF Next, Main
<1>15. (Domains => (TypeOK <=> Places /\ Alive /\ asked \in BOOLEAN /\ torn \in BOOLEAN))'
  BY TypeParts, PTL
<1>16. QED
  BY <1>2, <1>14, <1>15

(* A step that leaves pipe, sessions and the accepting thread alone, and   *)
(* no thread that was done before, keeps what is known of the pipe.        *)
LEMMA OthersKeep ==
  ASSUME Domains, Places, PipeInv, UNCHANGED <<main, closing, sessions, pipe>>,
         \A s \in Address : thread[s] = "done" => thread'[s] = "done"
  PROVE  PipeInv'
<1>1. \A i \in 1 .. Len(pipe) : pipe[i] \in Bytes => pipe[i].of \in Address
  BY ByteFacts
<1>2. main = "closing" => closing \in Address
  BY DEF Places
<1>3. QED
  BY <1>1, <1>2 DEF PipeInv

(* Every step of a service that has not begun to stop keeps it.  A session *)
(* that is deleted, and whose address is free for another, has nothing     *)
(* left in the pipe.                                                       *)
LEMMA PipeStep ==
  ASSUME IInv, Next, Serving'
  PROVE  PipeInv'
<1>1. /\ Domains /\ Places /\ Alive /\ TypeOK /\ Len(pipe) \in Nat
      /\ thread \in [Address -> ThreadState]
  BY TypeParts DEF IInv, Domains
<1>2. CASE ReadCommand
  <2>1. Serving /\ main = "select" /\ pipe # <<>> /\ pipe' = SubSeq(pipe, 2, Len(pipe))
    BY <1>1, <1>2, TailIsSubSeq DEF ReadCommand, Serving, Domains
  <2>2. 1 \in 0 .. Len(pipe)
    BY <1>1, <2>1, EmptySeq DEF Domains
  <2>3. main' # "closing" /\ thread' = thread
    BY <1>2 DEF ReadCommand
  <2>4. QED
    BY <1>1, <2>1, <2>2, <2>3, ReadingKeeps DEF IInv
<1>3. CASE ReadPointer
  <2>1. PipeInv /\ main = "pointer" /\ pipe # <<>> /\ pipe' = Rest(pipe) /\ thread' = thread
    BY <1>3 DEF ReadPointer, IInv, Serving
  <2>2. Len(Taken(pipe)) \in 0 .. Len(pipe)
    BY <1>1, TakenLen, ServiceAssumption DEF Domains
  <2>3. CASE main' = "closing"
    <3>1. closing' \in Words(Taken(pipe)) /\ closing' \notin sessions'
      BY <2>1, <2>3, <1>3 DEF ReadPointer, Shut
    <3>2. /\ thread[closing'] = "done"
          /\ \A i \in 1 .. Len(pipe') : pipe'[i] \in Bytes => pipe'[i].of # closing'
      BY <1>1, <2>1, <3>1, FoundIsDone
    <3>3. /\ Len(pipe') \in Nat
          /\ \A i \in 1 .. Len(pipe') : i + Len(Taken(pipe)) \in 1 .. Len(pipe) /\ pipe'[i] = pipe[i + Len(Taken(pipe))]
      BY <1>1, <2>1, <2>2, Shorter DEF Rest
    <3>4. \A i \in 1 .. Len(pipe') : pipe'[i] \in Bytes => thread[pipe'[i].of] = "done"
      BY <2>1, <3>3 DEF PipeInv
    <3>5. \A i, j \in 1 .. Len(pipe') : pipe'[i] \in Bytes /\ pipe'[i] = pipe'[j] => i = j
      <4>1. TAKE i, j \in 1 .. Len(pipe')
      <4>2. HAVE pipe'[i] \in Bytes /\ pipe'[i] = pipe'[j]
      <4>3. i + Len(Taken(pipe)) = j + Len(Taken(pipe))
        BY <2>1, <3>3, <4>2 DEF PipeInv
      <4>4. QED
        BY <2>2, <3>3, <4>3
    <3>6. QED
      BY <2>1, <3>1, <3>2, <3>4, <3>5 DEF PipeInv
  <2>4. CASE main' # "closing"
    BY <1>1, <2>1, <2>2, <2>4, ReadingKeeps DEF Rest
  <2>5. QED
    BY <2>3, <2>4
<1>4. CASE CloseSession
  <2>1. PipeInv /\ main = "closing" /\ main' = "select" /\ pipe' = pipe /\ thread' = [thread EXCEPT ![closing] = "none"]
    BY <1>4 DEF CloseSession, Delete, IInv, Serving
  <2>2. \A i \in 1 .. Len(pipe) : pipe[i] \in Bytes => pipe[i].of \in Address /\ pipe[i].of # closing
    BY <2>1, ByteFacts DEF PipeInv
  <2>3. QED
    BY <1>1, <2>1, <2>2 DEF PipeInv
<1>5. CASE StopNext \/ StopJoined
  BY <1>5 DEF StopNext, StopJoined, Shut, Serving
<1>6. CASE Exit
  BY <1>6 DEF Exit, Serving
<1>7. CASE Announce
  BY <1>1, <1>7, OthersKeep DEF Announce, IInv, Serving
<1>8. ASSUME NEW s \in Address, OpenSession(s) PROVE PipeInv'
  <2>1. /\ PipeInv /\ main = "select" /\ main' = main /\ pipe' = pipe /\ thread[s] = "none"
        /\ thread' = [thread EXCEPT ![s] = "start"]
    BY <1>8 DEF OpenSession, IInv, Serving
  <2>2. \A i \in 1 .. Len(pipe) : pipe[i] \in Bytes => pipe[i].of \in Address /\ pipe[i].of # s
    BY <2>1, ByteFacts DEF PipeInv
  <2>3. QED
    BY <1>1, <2>1, <2>2 DEF PipeInv
<1>9. ASSUME NEW s \in Address, StartThread(s) \/ LeaveLoop(s) PROVE PipeInv'
  <2>1. \A a \in Address : thread[a] = "done" => thread'[a] = "done"
    BY <1>1, <1>9 DEF StartThread, LeaveLoop
  <2>2. UNCHANGED <<main, closing, sessions, pipe>>
    BY <1>9 DEF StartThread, LeaveLoop, mainVars
  <2>3. QED
    BY <1>1, <2>1, <2>2, OthersKeep DEF IInv, Serving
<1>10. ASSUME NEW s \in Address, Receive(s) PROVE PipeInv'
  <2>1. /\ \A a \in Address : thread[a] = "done" => thread'[a] = "done"
        /\ UNCHANGED <<main, closing, sessions>> /\ (pipe' = pipe \/ pipe' = Append(pipe, StopAll))
    BY <1>1, <1>10 DEF Receive
  <2>2. StopAll \in Letters
    BY DEF Letters
  <2>3. QED
    BY <1>1, <2>1, <2>2, OthersKeep, LetterKeeps DEF IInv, Serving
<1>11. ASSUME NEW s \in Address, WriteQuit(s) PROVE PipeInv'
  <2>1. /\ \A a \in Address : thread[a] = "done" => thread'[a] = "done"
        /\ UNCHANGED <<main, closing, sessions>> /\ pipe' = Append(pipe, Quit)
    BY <1>1, <1>11 DEF WriteQuit, mainVars
  <2>2. Quit \in Letters
    BY DEF Letters
  <2>3. QED
    BY <1>1, <2>1, <2>2, LetterKeeps DEF IInv, Serving
<1>12. ASSUME NEW s \in Address, WritePointer(s) PROVE PipeInv'
  BY <1>1, <1>12, PointerKeeps DEF WritePointer, mainVars, IInv, Serving
<1>13. ASSUME NEW s \in Address, ClientRequest(s) \/ ClientQuit(s) PROVE PipeInv'
  BY <1>1, <1>13, OthersKeep DEF ClientRequest, ClientQuit, mainVars, IInv, Serving
<1>14. QED
  BY <1>2, <1>3, <1>4, <1>5, <1>6, <1>7, <1>8, <1>9, <1>10, <1>11, <1>12, <1>13 DEF Next, Main, Thread

(* The step that begins to close a session closes one that is done.        *)
LEMMA CloseStep ==
  ASSUME IInv, Next, main' = "closing", main # "closing"
  PROVE  thread[closing'] = "done"
<1>1. ReadPointer
  BY DEF Next, Main, Thread, ReadCommand, CloseSession, StopNext, Shut, StopJoined, Exit, Announce, OpenSession,
         StartThread, Receive, LeaveLoop, WriteQuit, WritePointer, ClientRequest, ClientQuit, mainVars
<1>2. Domains /\ PipeInv /\ pipe # <<>> /\ pipe' = Rest(pipe) /\ closing' \in Words(Taken(pipe))
  BY <1>1 DEF ReadPointer, Shut, IInv, Serving
<1>3. QED
  BY <1>2, FoundIsDone

(* The invariant is one, of all that the service does.                     *)
THEOREM Invariance == Spec => []IInv
<1>1. IInv /\ [Next]_vars => IInv'
  <2> SUFFICES ASSUME IInv, [Next]_vars PROVE IInv'
    OBVIOUS
  <2>1. CASE Next
    BY <2>1, TypeStep, DomainsStep, PipeStep DEF IInv
  <2>2. CASE UNCHANGED vars
    BY <2>2 DEF vars, IInv, TypeOK, Domains, Serving, PipeInv
  <2>3. QED
    BY <2>1, <2>2
<1>2. QED
  BY <1>1, InitIInv, PTL DEF Spec

(* CloseSession closes a session that has said so itself, never another    *)
(* that has its address by now: whatever the writes of several sessions    *)
(* look like in the pipe, and however often an address was used before.    *)
THEOREM OnlyQuitIsClosed == Spec => ClosesOnlyQuit
<1>1. IInv /\ [Next]_vars => [main' = "closing" /\ main # "closing" => thread[closing'] = "done"]_vars
  BY CloseStep DEF vars
<1>2. IInv => TypeOK
  BY DEF IInv
<1>3. QED
  BY <1>1, <1>2, Invariance, PTL DEF Spec, ClosesOnlyQuit

-----------------------------------------------------------------------------
(* Starting the program (module Startup).                                  *)

CallState ==
  {"called", "mkdir", "config", "save", "write", "load", "fetch", "decide", "client", "failed", "killed"}
ServerState ==
  {"none", "forked", "storing", "init", "restored", "serving", "dump", "clear", "left", "gone"}

StartTypes ==
  /\ pc \in [Call -> CallState] /\ server \in [Call -> ServerState]
  /\ DOMAIN pid = Call /\ config \in {"none", "empty", "whole"}

(* Servers that have not cleared the pid yet.                              *)
Holding == {c \in Call : server[c] \notin {"none", "left", "gone"}}

(* One call decides at a time, and has read the pid of the server that is  *)
(* there.                                                                  *)
PidInv ==
  ~overlapped =>
    /\ \A c, d \in U!Deciding : c = d
    /\ \A c, d \in Holding : c = d
    /\ \A c \in U!Running : pidFile = c
    /\ \A c \in Call, d \in Holding : pc[c] = "decide" => pid[c] = d

(* One call makes files at a time, and what it makes is not there.         *)
MakingInv ==
  ~raced /\ ~truncated =>
    /\ \A c, d \in U!Making : c = d
    /\ \A c \in Call :
         /\ pc[c] # "failed"
         /\ pc[c] = "mkdir" => ~dir
         /\ pc[c] = "save" => config = "none"
         /\ pc[c] = "write" => config = "empty"
         /\ pc[c] = "load" => config = "whole"
    /\ config = "empty" => \E c \in Call : pc[c] = "write"

StartupInv == StartTypes /\ PidInv /\ MakingInv

(* The letters of the pid file are no names of calls.                      *)
LEMMA CallNames == "none" \notin Call /\ "empty" \notin Call
BY CallAssumption

(* What was known of the calls and their servers, when a step neither      *)
(* decides nor changes a server.                                           *)
LEMMA PidFrame ==
  ASSUME PidInv, overlapped' = overlapped, UNCHANGED <<server, pidFile, pid>>,
         \A c \in Call : pc'[c] = "decide" => pc[c] = "decide"
  PROVE  PidInv'
<1>1. U!Deciding' \subseteq U!Deciding
  BY DEF U!Deciding
<1>2. Holding' = Holding /\ U!Running' = U!Running
  BY DEF Holding, U!Running
<1>3. QED
  BY <1>1, <1>2 DEF PidInv

(* A step that leaves the files of the application alone.                  *)
LEMMA MakingFrame ==
  ASSUME MakingInv, UNCHANGED <<raced, truncated, dir, config>>,
         \A c \in Call : pc'[c] = pc[c] \/ (pc[c] \notin {"mkdir", "save", "write"}
                                            /\ pc'[c] \notin {"mkdir", "save", "write", "load", "failed"})
  PROVE  MakingInv'
<1>1. U!Making' = U!Making
  BY DEF U!Making
<1>2. QED
  BY <1>1 DEF MakingInv

(* A server goes on, or ends: there are no more of them than before.       *)
LEMMA MoveStep ==
  ASSUME StartTypes, PidInv, MakingInv, NEW c \in Call, NEW from \in ServerState, NEW to \in ServerState,
         U!Move(c, from, to), UNCHANGED <<raced, truncated, overlapped, dir, config, pc, pid, pidFile>>,
         from # "none", to \notin {"none", "forked", "storing"},
         from \in {"left", "gone"} => to \in {"left", "gone"},
         to \in {"init", "restored", "serving", "dump", "clear"} => from \in {"init", "restored", "serving", "dump", "clear"}
  PROVE  StartTypes' /\ PidInv' /\ MakingInv'
<1>1. server' = [server EXCEPT ![c] = to] /\ server[c] = from
  BY DEF U!Move
<1>2. /\ server' \in [Call -> ServerState] /\ server'[c] = to
      /\ \A d \in Call \ {c} : server'[d] = server[d]
  BY <1>1 DEF StartTypes
<1>3. StartTypes'
  BY <1>2 DEF StartTypes
<1>4. U!Deciding' \subseteq U!Deciding
  BY <1>2 DEF U!Deciding
<1>5. Holding' \subseteq Holding /\ U!Running' \subseteq U!Running
  BY <1>1, <1>2 DEF Holding, U!Running
<1>6. PidInv'
  BY <1>4, <1>5 DEF PidInv
<1>7. MakingInv'
  BY MakingFrame
<1>8. QED
  BY <1>3, <1>6, <1>7

(* A call looks for the directory or the configuration, and makes what it  *)
(* does not find.                                                          *)
LEMMA CheckDirStep ==
  ASSUME StartupInv, NEW c \in Call, U!CheckDir(c)
  PROVE  StartupInv'
<1>1. /\ pc[c] = "called" /\ pc' = [pc EXCEPT ![c] = IF dir THEN "config" ELSE "mkdir"]
      /\ raced' = (raced \/ U!Making # {})
      /\ UNCHANGED <<dir, config, pidFile, pid, server, overlapped, truncated>>
  BY DEF U!CheckDir, U!Goto, U!files
<1>2. StartTypes'
  BY <1>1 DEF StartupInv, StartTypes, CallState
<1>3. PidInv'
  BY <1>1, PidFrame DEF StartupInv, StartTypes
<1>4. MakingInv'
  BY <1>1 DEF StartupInv, StartTypes, MakingInv, U!Making
<1>5. QED
  BY <1>2, <1>3, <1>4 DEF StartupInv

(* The directory is made by the one call that did not find it.             *)
LEMMA MakeDirStep ==
  ASSUME StartupInv, NEW c \in Call, U!MakeDir(c)
  PROVE  StartupInv'
<1>1. /\ pc[c] = "mkdir" /\ pc' = [pc EXCEPT ![c] = IF dir THEN "failed" ELSE "config"] /\ dir' = TRUE
      /\ UNCHANGED <<config, pidFile, pid, server, raced, overlapped, truncated>>
  BY DEF U!MakeDir, U!Goto, U!history
<1>2. StartTypes'
  BY <1>1 DEF StartupInv, StartTypes, CallState
<1>3. PidInv'
  BY <1>1, PidFrame DEF StartupInv, StartTypes
<1>4. MakingInv'
  <2> SUFFICES ASSUME ~raced, ~truncated PROVE MakingInv'
    BY <1>1 DEF MakingInv
  <2>1. c \in U!Making /\ ~dir /\ \A d \in U!Making : d = c
    BY <1>1 DEF StartupInv, MakingInv, U!Making
  <2>2. pc' = [pc EXCEPT ![c] = "config"]
    BY <1>1, <2>1
  <2>3. QED
    BY <1>1, <2>1, <2>2 DEF StartupInv, StartTypes, MakingInv, U!Making
<1>5. QED
  BY <1>2, <1>3, <1>4 DEF StartupInv

(* The configuration is looked up.                                         *)
LEMMA CheckConfigStep ==
  ASSUME StartupInv, NEW c \in Call, U!CheckConfig(c)
  PROVE  StartupInv'
<1>1. /\ pc[c] = "config" /\ pc' = [pc EXCEPT ![c] = IF config = "none" THEN "save" ELSE "load"]
      /\ raced' = (raced \/ U!Making # {})
      /\ UNCHANGED <<dir, config, pidFile, pid, server, overlapped, truncated>>
  BY DEF U!CheckConfig, U!Goto, U!files
<1>2. StartTypes'
  BY <1>1 DEF StartupInv, StartTypes, CallState
<1>3. PidInv'
  BY <1>1, PidFrame DEF StartupInv, StartTypes
<1>4. MakingInv'
  <2> SUFFICES ASSUME ~raced, U!Making = {}, ~truncated PROVE MakingInv'
    BY <1>1 DEF MakingInv
  <2>1. config \in {"none", "whole"} /\ \A d \in Call : pc[d] \notin {"mkdir", "save", "write"}
    BY DEF StartupInv, StartTypes, MakingInv, U!Making
  <2>2. CASE config = "none"
    <3>1. pc' = [pc EXCEPT ![c] = "save"]
      BY <1>1, <2>2
    <3>2. QED
      BY <1>1, <2>1, <2>2, <3>1 DEF StartupInv, StartTypes, MakingInv, U!Making
  <2>3. CASE config = "whole"
    <3>1. pc' = [pc EXCEPT ![c] = "load"]
      BY <1>1, <2>3
    <3>2. QED
      BY <1>1, <2>1, <2>3, <3>1 DEF StartupInv, StartTypes, MakingInv, U!Making
  <2>4. QED
    BY <2>1, <2>2, <2>3
<1>5. QED
  BY <1>2, <1>3, <1>4 DEF StartupInv

(* The configuration is opened, and written, by the one call that did not  *)
(* find it.                                                                *)
LEMMA SaveDefaultStep ==
  ASSUME StartupInv, NEW c \in Call, U!OpenConfig(c) \/ U!WriteConfig(c)
  PROVE  StartupInv'
<1>1. /\ \/ pc[c] = "save" /\ config' = "empty" /\ pc' = [pc EXCEPT ![c] = "write"]
         \/ pc[c] = "write" /\ config' = "whole" /\ pc' = [pc EXCEPT ![c] = "load"]
      /\ UNCHANGED <<dir, pidFile, pid, server, raced, overlapped, truncated>>
  BY DEF U!OpenConfig, U!WriteConfig, U!Goto, U!history
<1>2. StartTypes'
  BY <1>1 DEF StartupInv, StartTypes, CallState
<1>3. PidInv'
  BY <1>1, PidFrame DEF StartupInv, StartTypes
<1>4. MakingInv'
  <2> SUFFICES ASSUME ~raced, ~truncated PROVE MakingInv'
    BY <1>1 DEF MakingInv
  <2>1. c \in U!Making /\ \A d \in U!Making : d = c
    BY <1>1 DEF StartupInv, MakingInv, U!Making
  <2>2. CASE pc[c] = "save" /\ config' = "empty" /\ pc' = [pc EXCEPT ![c] = "write"]
    BY <1>1, <2>1, <2>2 DEF StartupInv, StartTypes, MakingInv, U!Making
  <2>3. CASE pc[c] = "write" /\ config' = "whole" /\ pc' = [pc EXCEPT ![c] = "load"]
    BY <1>1, <2>1, <2>3 DEF StartupInv, StartTypes, MakingInv, U!Making
  <2>4. QED
    BY <1>1, <2>2, <2>3
<1>5. QED
  BY <1>2, <1>3, <1>4 DEF StartupInv

(* The configuration is read.                                              *)
LEMMA LoadContentStep ==
  ASSUME StartupInv, NEW c \in Call, U!LoadContent(c)
  PROVE  StartupInv'
<1>1. /\ pc[c] = "load" /\ pc' = [pc EXCEPT ![c] = IF config = "whole" THEN "fetch" ELSE "failed"]
      /\ UNCHANGED <<dir, config, pidFile, pid, server, raced, overlapped, truncated>>
  BY DEF U!LoadContent, U!Goto, U!files, U!history
<1>2. StartTypes'
  BY <1>1 DEF StartupInv, StartTypes, CallState
<1>3. PidInv'
  BY <1>1, PidFrame DEF StartupInv, StartTypes
<1>4. MakingInv'
  BY <1>1 DEF StartupInv, StartTypes, MakingInv, U!Making
<1>5. QED
  BY <1>2, <1>3, <1>4 DEF StartupInv

(* The pid is read: it is that of the server that is there, if any.        *)
LEMMA FetchPidStep ==
  ASSUME StartupInv, NEW c \in Call, U!FetchPid(c)
  PROVE  StartupInv'
<1>1. /\ pc[c] = "fetch" /\ pc' = [pc EXCEPT ![c] = "decide"]
      /\ pid' = [pid EXCEPT ![c] = IF pidFile = "empty" THEN "none" ELSE pidFile]
      /\ overlapped' = (overlapped \/ U!Deciding # {})
      /\ UNCHANGED <<dir, config, pidFile, server, raced, truncated>>
  BY DEF U!FetchPid, U!Goto, U!files
<1>2. StartTypes'
  BY <1>1 DEF StartupInv, StartTypes, CallState
<1>3. MakingInv'
  <2>1. \A d \in Call : pc'[d] = pc[d] \/ (d = c /\ pc'[d] = "decide")
    BY <1>1 DEF StartupInv, StartTypes
  <2>2. QED
    BY <1>1, <2>1, MakingFrame DEF StartupInv
<1>4. PidInv'
  <2> SUFFICES ASSUME ~overlapped, U!Deciding = {} PROVE PidInv'
    BY <1>1 DEF PidInv
  <2>1. /\ \A d \in Call \ {c} : pc'[d] = pc[d] /\ pid'[d] = pid[d]
        /\ pc'[c] = "decide" /\ pid'[c] = IF pidFile = "empty" THEN "none" ELSE pidFile
    BY <1>1 DEF StartupInv, StartTypes
  <2>2. \A d \in Call : pc[d] # "decide" /\ server[d] \notin {"forked", "storing"}
    BY DEF U!Deciding
  <2>3. U!Deciding' \subseteq {c}
    BY <1>1, <2>1, <2>2 DEF U!Deciding
  <2>4. Holding' = Holding /\ U!Running' = U!Running
    BY <1>1 DEF Holding, U!Running
  <2>5. Holding \subseteq U!Running
    BY <2>2 DEF StartupInv, StartTypes, ServerState, Holding, U!Running
  <2>6. \A d \in Holding : pid'[c] = d
    BY <2>1, <2>5, CallNames DEF StartupInv, PidInv, Holding
  <2>7. \A e \in Call, d \in Holding : pc'[e] = "decide" => pid'[e] = d
    BY <2>1, <2>2, <2>6
  <2>8. QED
    BY <1>1, <2>3, <2>4, <2>7 DEF StartupInv, PidInv
<1>5. QED
  BY <1>2, <1>3, <1>4 DEF StartupInv

(* A server is forked if there is none.                                    *)
LEMMA ForkStep ==
  ASSUME StartupInv, NEW c \in Call, U!Fork(c)
  PROVE  StartupInv'
<1>1. /\ pc[c] = "decide" /\ pc' = [pc EXCEPT ![c] = "client"]
      /\ \/ UNCHANGED server
         \/ pid[c] \notin U!Alive /\ server' = [server EXCEPT ![c] = "forked"]
      /\ UNCHANGED <<dir, config, pidFile, pid, raced, overlapped, truncated>>
  BY DEF U!Fork, U!Goto, U!files, U!history
<1>2. StartTypes'
  BY <1>1 DEF StartupInv, StartTypes, CallState, ServerState
<1>3. \A d \in Call : pc'[d] = pc[d] \/ (d = c /\ pc'[d] = "client")
  BY <1>1 DEF StartupInv, StartTypes
<1>4. MakingInv'
  BY <1>1, <1>3, MakingFrame DEF StartupInv
<1>5. PidInv'
  <2>1. CASE UNCHANGED server
    BY <1>1, <1>3, <2>1, PidFrame DEF StartupInv
  <2>2. CASE pid[c] \notin U!Alive /\ server' = [server EXCEPT ![c] = "forked"]
    <3> SUFFICES ASSUME ~overlapped PROVE PidInv'
      BY <1>1 DEF PidInv
    <3>1. server'[c] = "forked" /\ \A d \in Call \ {c} : server'[d] = server[d]
      BY <2>2 DEF StartupInv, StartTypes
    <3>2. \A d \in Holding : d \in U!Alive
      BY DEF Holding, U!Alive
    <3>3. Holding = {}
      BY <1>1, <2>2, <3>2 DEF StartupInv, PidInv
    <3>4. Holding' \subseteq {c} /\ U!Running' = {}
      BY <3>1, <3>3 DEF Holding, U!Running
    <3>5. c \in U!Deciding /\ U!Deciding' \subseteq U!Deciding
      BY <1>1, <1>3, <3>1 DEF U!Deciding
    <3>6. \A d \in Call : pc'[d] # "decide"
      <4>1. \A d \in Call : pc[d] = "decide" => d = c
        BY <3>5 DEF StartupInv, PidInv, U!Deciding
      <4>2. QED
        BY <1>3, <4>1, <1>1 DEF StartupInv, StartTypes
    <3>7. QED
      BY <1>1, <3>4, <3>5, <3>6 DEF StartupInv, PidInv
  <2>3. QED
    BY <1>1, <2>1, <2>2
<1>6. QED
  BY <1>2, <1>4, <1>5 DEF StartupInv

(* The server stores its pid, and is there for the others.                 *)
LEMMA StorePidStep ==
  ASSUME StartupInv, NEW c \in Call, U!OpenPid(c) \/ U!StorePid(c)
  PROVE  StartupInv'
<1>1. /\ \/ server[c] = "forked" /\ server' = [server EXCEPT ![c] = "storing"] /\ pidFile' = "empty"
         \/ server[c] = "storing" /\ server' = [server EXCEPT ![c] = "init"] /\ pidFile' = c
      /\ UNCHANGED <<dir, config, pc, pid, raced, overlapped, truncated>>
  BY DEF U!OpenPid, U!StorePid, U!Move, U!files, U!history
<1>2. StartTypes'
  BY <1>1 DEF StartupInv, StartTypes, ServerState
<1>3. MakingInv'
  BY <1>1, MakingFrame DEF StartupInv
<1>4. PidInv'
  <2> SUFFICES ASSUME ~overlapped PROVE PidInv'
    BY <1>1 DEF PidInv
  <2>1. c \in Holding /\ \A d \in Holding : d = c
    BY <1>1 DEF StartupInv, PidInv, Holding
  <2>2. \A d \in Call \ {c} : server'[d] = server[d]
    BY <1>1 DEF StartupInv, StartTypes
  <2>3. Holding' = Holding /\ U!Deciding' \subseteq U!Deciding
    BY <1>1, <2>2 DEF StartupInv, StartTypes, Holding, U!Deciding
  <2>4. \A d \in U!Running' : d = c /\ server'[c] = "init"
    BY <1>1, <2>1, <2>3 DEF StartupInv, StartTypes, Holding, U!Running
  <2>5. \A d \in U!Running' : pidFile' = d
    BY <1>1, <2>4 DEF StartupInv, StartTypes
  <2>6. QED
    BY <1>1, <2>3, <2>5 DEF StartupInv, PidInv
<1>5. QED
  BY <1>2, <1>3, <1>4 DEF StartupInv

(* The server removes the pid file, which had its own pid.                 *)
LEMMA ClearPidStep ==
  ASSUME StartupInv, NEW c \in Call, U!ClearPid(c)
  PROVE  StartupInv'
<1>1. /\ server[c] = "clear" /\ server' = [server EXCEPT ![c] = "left"] /\ pidFile' = "none"
      /\ UNCHANGED <<dir, config, pc, pid, raced, overlapped, truncated>>
  BY DEF U!ClearPid, U!Move, U!files, U!history
<1>2. StartTypes'
  BY <1>1 DEF StartupInv, StartTypes, ServerState
<1>3. MakingInv'
  BY <1>1, MakingFrame DEF StartupInv
<1>4. PidInv'
  <2> SUFFICES ASSUME ~overlapped PROVE PidInv'
    BY <1>1 DEF PidInv
  <2>1. \A d \in Holding : d = c
    BY <1>1 DEF StartupInv, PidInv, Holding
  <2>2. server'[c] = "left" /\ \A d \in Call \ {c} : server'[d] = server[d]
    BY <1>1 DEF StartupInv, StartTypes
  <2>3. Holding' = {} /\ U!Running' = {} /\ U!Deciding' \subseteq U!Deciding
    BY <1>1, <2>1, <2>2 DEF Holding, U!Running, U!Deciding
  <2>4. QED
    BY <1>1, <2>3 DEF StartupInv, PidInv
<1>5. QED
  BY <1>2, <1>3, <1>4 DEF StartupInv

(* A call is killed.                                                       *)
LEMMA KillCallStep ==
  ASSUME StartupInv, NEW c \in Call, U!KillCall(c)
  PROVE  StartupInv'
<1>1. /\ pc' = [pc EXCEPT ![c] = "killed"] /\ truncated' = (truncated \/ pc[c] = "write")
      /\ UNCHANGED <<dir, config, pidFile, pid, server, raced, overlapped>>
  BY DEF U!KillCall, U!Goto, U!files
<1>2. StartTypes'
  BY <1>1 DEF StartupInv, StartTypes, CallState
<1>3. \A d \in Call : (d # c /\ pc'[d] = pc[d]) \/ (d = c /\ pc'[d] = "killed")
  BY <1>1 DEF StartupInv, StartTypes
<1>4. PidInv'
  BY <1>1, <1>3, PidFrame DEF StartupInv
<1>5. MakingInv'
  <2> SUFFICES ASSUME ~raced, ~truncated, pc[c] # "write" PROVE MakingInv'
    BY <1>1 DEF MakingInv
  <2>1. U!Making' \subseteq U!Making
    BY <1>3 DEF U!Making
  <2>2. QED
    BY <1>1, <1>3, <2>1 DEF StartupInv, MakingInv
<1>6. QED
  BY <1>2, <1>4, <1>5 DEF StartupInv

(* Every step of a call or a server keeps the invariant.                   *)
LEMMA StartupStep == StartupInv /\ [U!Next]_startup => StartupInv'
<1> SUFFICES ASSUME StartupInv, [U!Next]_startup PROVE StartupInv'
  OBVIOUS
<1>1. CASE UNCHANGED startup
  <2>1. UNCHANGED <<dir, config, pidFile, pc, pid, server, raced, overlapped, truncated>>
    BY <1>1 DEF startup
  <2>2. QED
    BY <2>1, PidFrame, MakingFrame DEF StartupInv, StartTypes
<1>2. ASSUME NEW c \in Call,
             \/ U!CheckDir(c) \/ U!MakeDir(c) \/ U!CheckConfig(c) \/ U!OpenConfig(c) \/ U!WriteConfig(c)
             \/ U!LoadContent(c) \/ U!FetchPid(c) \/ U!Fork(c) \/ U!OpenPid(c) \/ U!StorePid(c)
             \/ U!ClearPid(c) \/ U!KillCall(c)
      PROVE  StartupInv'
  BY <1>2, CheckDirStep, MakeDirStep, CheckConfigStep, SaveDefaultStep, LoadContentStep, FetchPidStep, ForkStep,
     StorePidStep, ClearPidStep, KillCallStep
<1>3. ASSUME NEW c \in Call, U!ExecInit(c) \/ U!Bind(c) \/ U!StopService(c) \/ U!DumpDone(c) \/ U!Exit(c)
      PROVE  StartupInv'
  <2>1. UNCHANGED <<raced, truncated, overlapped, dir, config, pc, pid, pidFile>>
    BY <1>3 DEF U!ExecInit, U!Bind, U!StopService, U!DumpDone, U!Exit, U!files, U!history
  <2>2. PICK from \in {"init", "restored", "serving", "dump", "left"},
             to \in {"restored", "serving", "dump", "clear", "gone"} :
               U!Move(c, from, to) /\ (from = "left" <=> to = "gone")
    BY <1>3 DEF U!ExecInit, U!Bind, U!StopService, U!DumpDone, U!Exit
  <2>3. from \in ServerState /\ to \in ServerState
    BY DEF ServerState
  <2>4. QED
    BY <2>1, <2>2, <2>3, MoveStep DEF StartupInv
<1>4. ASSUME NEW c \in Call, U!KillServer(c)
      PROVE  StartupInv'
  <2>1. UNCHANGED <<raced, truncated, overlapped, dir, config, pc, pid, pidFile>>
    BY <1>4 DEF U!KillServer, U!files, U!history
  <2>2. U!Move(c, server[c], "gone") /\ server[c] \notin {"none", "gone"}
    BY <1>4 DEF U!KillServer, U!Alive, U!Move
  <2>3. server[c] \in ServerState /\ "gone" \in ServerState
    BY DEF StartupInv, StartTypes, ServerState
  <2>4. QED
    BY <2>1, <2>2, <2>3, MoveStep DEF StartupInv
<1>5. QED
  BY <1>1, <1>2, <1>3, <1>4 DEF U!Next, startup, U!startup

(* Nobody has been called yet.                                             *)
LEMMA StartupInitially == U!Init => StartupInv
BY DEF U!Init, StartupInv, StartTypes, CallState, ServerState, PidInv, MakingInv, Holding, U!Deciding, U!Running, U!Making

(* One server, and no failure but by a race.                               *)
LEMMA StartupImplied == StartupInv => U!StartInv
<1> SUFFICES ASSUME StartupInv PROVE U!StartInv
  OBVIOUS
<1>1. U!OneServer
  <2> DEFINE there == U!Alive \ {c \in Call : server[c] = "left"}
  <2> SUFFICES ASSUME ~overlapped PROVE U!Cardinality(there) <= 1 /\ \A c \in U!Running : pidFile = c
    BY DEF U!OneServer
  <2>1. there = Holding
    BY DEF U!Alive, Holding
  <2>2. \A c, d \in there : c = d
    BY <2>1 DEF StartupInv, PidInv
  <2>3. CASE there = {}
    <3>1. Cardinality(there) = 0
      BY <2>3, FS_EmptySet
    <3>2. QED
      BY <3>1 DEF U!Cardinality, Cardinality, StartupInv, PidInv
  <2>4. CASE there # {}
    <3>1. PICK c : there = {c}
      BY <2>2, <2>4
    <3>2. Cardinality(there) = 1
      BY <3>1, FS_Singleton
    <3>3. QED
      BY <3>2 DEF U!Cardinality, Cardinality, StartupInv, PidInv
  <2>5. QED
    BY <2>3, <2>4
<1>2. U!StartsUp
  BY DEF StartupInv, MakingInv, U!StartsUp
<1>3. QED
  BY <1>1, <1>2 DEF U!StartInv

(* However many calls of the program overlap, are killed, or find a server *)
(* that is about to end: there is one server, which the pid file names, as *)
(* long as none looks into that file while another decides; and no call    *)
(* fails but by such a race over the files of the application.             *)
THEOREM StartIsSound == PartsSpec => []StartInv
<1>1. PartsInit => StartupInv
  BY StartupInitially DEF PartsInit
<1>2. StartupInv /\ [PartsNext]_all => StartupInv'
  <2>1. [PartsNext]_all => [U!Next]_startup
    BY DEF PartsNext, all, OfService, OfWire, OfConnect, OfStartup, OfStore, OfSettings, OfContainers
  <2>2. QED
    BY <2>1, StartupStep
<1>3. StartupInv => StartInv
  BY StartupImplied DEF StartInv
<1>4. QED
  BY <1>1, <1>2, <1>3, PTL DEF PartsSpec

-----------------------------------------------------------------------------
(* The send buffer (module Wire).                                          *)

JobOf(t) == jobs[t][1]

(* A thread that has something to send has one job; the client's are all   *)
(* done under the lock.                                                    *)
JobsInv ==
  /\ stage \in [Sender -> {"idle", "begun", "filled", "sending"}] /\ DOMAIN jobs = Sender
  /\ end \in {"client", "session"}
  /\ \A t \in Sender :
       \/ jobs[t] = <<>> /\ stage[t] = "idle"
       \/ /\ jobs[t] = <<[locked |-> JobOf(t).locked, messages |-> JobOf(t).messages]>>
          /\ JobOf(t).locked \in BOOLEAN
          /\ end = "client" => JobOf(t).locked

(* Who uses the buffer for a job under the lock holds it.                  *)
LockInv == \A t \in W!Using : JobOf(t).locked => mutex = t

MeetInv == met \in {"no", "bare"} /\ (met = "bare" => end = "session")

BufferInv == JobsInv /\ LockInv /\ MeetInv

(* A job of one message or more, done under the lock or not.               *)
LEMMA JobFacts ==
  ASSUME NEW job, job \in W!UserRequests \cup W!SessionReplies \cup {W!SyncRequest, W!NextItem}
  PROVE  /\ job = [locked |-> job.locked, messages |-> job.messages] /\ job.locked \in BOOLEAN
         /\ job \in W!UserRequests \cup {W!SyncRequest} => job.locked
<1>1. \A m : W!Locked(m) = [locked |-> TRUE, messages |-> m]
  BY DEF W!Locked
<1>2. \A m : W!Bare(m) = [locked |-> FALSE, messages |-> <<m>>]
  BY DEF W!Bare
<1>3. CASE \E m : job = W!Locked(m)
  <2>1. PICK m : job = [locked |-> TRUE, messages |-> m]
    BY <1>1, <1>3
  <2>2. job.locked = TRUE /\ job.messages = m
    BY <2>1
  <2>3. QED
    BY <2>1, <2>2
<1>4. CASE job \in {W!SyncRequest, W!NextItem}
  BY <1>3, <1>4 DEF W!SyncRequest, W!NextItem
<1>5. CASE job \in W!UserRequests
  <2>1. \E m : job = W!Locked(m)
    BY <1>5 DEF W!UserRequests
  <2>2. QED
    BY <1>3, <2>1
<1>6. CASE job \in W!SessionReplies /\ ~(job \in W!UserRequests \cup {W!SyncRequest})
  <2>1. (\E m : job = W!Locked(m)) \/ (\E m : job = W!Bare(m))
    BY <1>6 DEF W!SessionReplies
  <2>2. ASSUME NEW m, job = W!Bare(m)
        PROVE  job = [locked |-> job.locked, messages |-> job.messages] /\ job.locked \in BOOLEAN
    <3>1. job = [locked |-> FALSE, messages |-> <<m>>]
      BY <1>2, <2>2
    <3>2. job.locked = FALSE /\ job.messages = <<m>>
      BY <3>1
    <3>3. QED
      BY <3>1, <3>2
  <2>3. QED
    BY <1>3, <1>6, <2>1, <2>2
<1>7. QED
  BY <1>4, <1>5, <1>6

(* What changes neither jobs nor the stages of threads but between the     *)
(* first and the last of a message.                                        *)
LEMMA BufferFrame ==
  ASSUME BufferInv, UNCHANGED <<end, jobs, mutex, met>>,
         stage' \in [Sender -> {"idle", "begun", "filled", "sending"}],
         \A t \in Sender : (stage'[t] = "idle") = (stage[t] = "idle")
  PROVE  BufferInv'
<1>1. W!Using' = W!Using
  BY DEF W!Using
<1>2. JobsInv'
  BY DEF BufferInv, JobsInv, JobOf
<1>3. LockInv'
  BY <1>1 DEF BufferInv, LockInv, JobOf
<1>4. MeetInv'
  BY DEF BufferInv, MeetInv
<1>5. QED
  BY <1>2, <1>3, <1>4 DEF BufferInv

(* A thread takes the buffer: if both have the lock to have, it is alone.  *)
LEMMA TakeStep ==
  ASSUME BufferInv, NEW t \in Sender, W!GetPayloadBuffer(t), Nobody \notin Sender
  PROVE  BufferInv'
<1>1. /\ stage[t] = "idle" /\ jobs[t] # <<>>
      /\ W!NeedsLock(t) => mutex \in {Nobody, t}
      /\ mutex' = IF W!NeedsLock(t) THEN t ELSE mutex
      /\ stage' = [stage EXCEPT ![t] = "begun"]
      /\ met' = IF W!Using = {} \/ met = "bare" THEN met
                ELSE IF \A u \in W!Using \cup {t} : jobs[u][1].locked THEN "locked" ELSE "bare"
      /\ end' = end /\ jobs' = jobs
  BY DEF W!GetPayloadBuffer
<1>2. JobOf(t).locked \in BOOLEAN /\ (end = "client" => JobOf(t).locked)
  BY <1>1 DEF BufferInv, JobsInv
<1>3. JobOf(t).locked => W!NeedsLock(t)
  BY DEF W!NeedsLock, JobOf
<1>4. W!Using \subseteq Sender /\ t \notin W!Using /\ W!Using' = W!Using \cup {t}
  BY <1>1 DEF W!Using, BufferInv, JobsInv
<1>5. JobOf(t)' = JobOf(t) /\ \A u \in Sender : JobOf(u)' = JobOf(u)
  BY <1>1 DEF JobOf
<1>6. JobsInv'
  BY <1>1 DEF BufferInv, JobsInv, JobOf
<1>7. LockInv'
  <2>1. SUFFICES ASSUME NEW u \in W!Using \cup {t}, JobOf(u).locked PROVE mutex' = u
    BY <1>4, <1>5 DEF LockInv
  <2>2. CASE u = t
    BY <1>1, <1>3, <2>1, <2>2
  <2>3. CASE u # t
    <3>1. mutex = u /\ u \in Sender
      BY <1>4, <2>1, <2>3 DEF BufferInv, LockInv
    <3>2. ~W!NeedsLock(t)
      BY <1>1, <2>3, <3>1
    <3>3. QED
      BY <1>1, <3>1, <3>2
  <2>4. QED
    BY <2>2, <2>3
<1>8. MeetInv'
  <2>1. CASE W!Using = {} \/ met = "bare"
    BY <1>1, <2>1 DEF BufferInv, MeetInv
  <2>2. CASE W!Using # {} /\ \E u \in W!Using \cup {t} : ~jobs[u][1].locked
    <3>1. end # "client"
      BY <1>2, <1>4, <2>2 DEF BufferInv, JobsInv, JobOf, W!Using
    <3>2. QED
      BY <1>1, <2>2, <3>1 DEF BufferInv, JobsInv, MeetInv
  <2>3. CASE W!Using # {} /\ \A u \in W!Using \cup {t} : jobs[u][1].locked
    <3>1. PICK u \in W!Using : JobOf(u).locked
      BY <2>3 DEF JobOf
    <3>2. mutex = u /\ u # t /\ u \in Sender
      BY <1>4, <3>1 DEF BufferInv, LockInv
    <3>3. W!NeedsLock(t)
      BY <1>3, <2>3 DEF JobOf
    <3>4. QED
      BY <1>1, <3>2, <3>3
  <2>4. QED
    BY <2>1, <2>2, <2>3
<1>9. QED
  BY <1>6, <1>7, <1>8 DEF BufferInv

(* A message has gone: its thread has the next to send, or gives back the  *)
(* lock.                                                                   *)
LEMMA AdvanceStep ==
  ASSUME BufferInv, NEW t \in Sender, stage[t] # "idle", W!Advance(t), UNCHANGED <<end, met>>
  PROVE  BufferInv'
<1> DEFINE job == JobOf(t)
           last == Len(job.messages) = 1
           rest == [job EXCEPT !.messages = Tail(job.messages)]
<1>1. /\ stage' = [stage EXCEPT ![t] = "idle"]
      /\ jobs' = [jobs EXCEPT ![t] = IF last THEN Tail(jobs[t]) ELSE <<rest>> \o Tail(jobs[t])]
      /\ mutex' = IF mutex = t /\ last THEN Nobody ELSE mutex
  BY DEF W!Advance, JobOf
<1>2. /\ jobs[t] = <<[locked |-> job.locked, messages |-> job.messages]>> /\ job.locked \in BOOLEAN
      /\ end = "client" => job.locked
  BY DEF BufferInv, JobsInv
<1>3. Tail(jobs[t]) = <<>> /\ job = [locked |-> job.locked, messages |-> job.messages]
  <2>1. \A x : Tail(<<x>>) = <<>> /\ <<x>>[1] = x
    OBVIOUS
  <2>2. QED
    BY <1>2, <2>1 DEF JobOf
<1> HIDE DEF job
<1>4. rest = [locked |-> job.locked, messages |-> Tail(job.messages)]
  <2>1. PICK a, b : job = [locked |-> a, messages |-> b]
    BY <1>3
  <2>2. job.locked = a /\ job.messages = b
    BY <2>1
  <2>3. \A x : [[locked |-> a, messages |-> b] EXCEPT !.messages = x] = [locked |-> a, messages |-> x]
    OBVIOUS
  <2>4. [job EXCEPT !.messages = Tail(job.messages)] = [locked |-> a, messages |-> Tail(job.messages)]
    BY <2>1, <2>3
  <2>5. QED
    BY <2>2, <2>4
<1> HIDE DEF rest, last
<1>5. jobs'[t] = <<>> \/ (jobs'[t] = <<rest>> /\ JobOf(t)' = rest)
  <2>1. <<rest>> \o <<>> = <<rest>>
    OBVIOUS
  <2>2. jobs'[t] = IF last THEN <<>> ELSE <<rest>>
    BY <1>1, <1>3, <2>1 DEF BufferInv, JobsInv
  <2>3. QED
    BY <2>2 DEF JobOf
<1>6. /\ DOMAIN jobs' = Sender
      /\ \A u \in Sender \ {t} : jobs'[u] = jobs[u] /\ JobOf(u)' = JobOf(u) /\ stage'[u] = stage[u]
  BY <1>1 DEF BufferInv, JobsInv, JobOf
<1>7. stage' \in [Sender -> {"idle", "begun", "filled", "sending"}] /\ stage'[t] = "idle"
  BY <1>1 DEF BufferInv, JobsInv
<1>8. JobsInv'
  <2>1. jobs'[t] = <<>> \/ (/\ jobs'[t] = <<[locked |-> JobOf(t)'.locked, messages |-> JobOf(t)'.messages]>>
                           /\ JobOf(t)'.locked \in BOOLEAN /\ (end = "client" => JobOf(t)'.locked))
    <3>1. CASE jobs'[t] = <<>>
      BY <3>1
    <3>2. CASE jobs'[t] = <<rest>> /\ JobOf(t)' = rest
      <4>1. rest.locked = job.locked /\ rest = [locked |-> rest.locked, messages |-> rest.messages]
        <5>1. PICK a, b : rest = [locked |-> a, messages |-> b] /\ a = job.locked
          BY <1>4
        <5>2. rest.locked = a /\ rest.messages = b
          BY <5>1
        <5>3. QED
          BY <5>1, <5>2
      <4>2. rest.locked \in BOOLEAN /\ (end = "client" => rest.locked)
        BY <1>2, <4>1
      <4>3. QED
        BY <3>2, <4>1, <4>2
    <3>3. QED
      BY <1>5, <3>1, <3>2
  <2>2. QED
    BY <1>6, <1>7, <2>1 DEF BufferInv, JobsInv
<1>9. LockInv'
  <2>1. W!Using' = W!Using \ {t} /\ W!Using \subseteq Sender
    BY <1>6, <1>7 DEF W!Using
  <2>2. SUFFICES ASSUME NEW u \in W!Using \ {t}, JobOf(u).locked PROVE mutex' = u
    BY <1>6, <2>1 DEF LockInv
  <2>3. mutex = u
    BY <2>2 DEF BufferInv, LockInv
  <2>4. QED
    BY <1>1, <2>2, <2>3
<1>10. MeetInv'
  BY DEF BufferInv, MeetInv
<1>11. QED
  BY <1>8, <1>9, <1>10 DEF BufferInv

(* Every step at either end keeps the invariant.                           *)
LEMMA BufferStep == BufferInv /\ [W!Next]_wire => BufferInv'
<1> SUFFICES ASSUME BufferInv, [W!Next]_wire PROVE BufferInv'
  OBVIOUS
<1>1. stage \in [Sender -> {"idle", "begun", "filled", "sending"}] /\ Nobody \notin Sender
  BY SenderAssumption DEF BufferInv, JobsInv
<1>2. CASE UNCHANGED <<end, jobs, mutex, met, stage>>
  BY <1>1, <1>2, BufferFrame
<1>3. ASSUME NEW t \in Sender, W!GetPayloadBuffer(t)
      PROVE  BufferInv'
  BY <1>1, <1>3, TakeStep
<1>4. ASSUME NEW t \in Sender, W!Fill(t) \/ W!SendOut(t)
      PROVE  BufferInv'
  <2>1. /\ UNCHANGED <<end, jobs, mutex, met>> /\ stage[t] # "idle"
        /\ stage' = [stage EXCEPT ![t] = "filled"] \/ stage' = [stage EXCEPT ![t] = "sending"]
    BY <1>4 DEF W!Fill, W!SendOut
  <2>2. /\ stage' \in [Sender -> {"idle", "begun", "filled", "sending"}]
        /\ \A u \in Sender : (stage'[u] = "idle") = (stage[u] = "idle")
    BY <1>1, <2>1
  <2>3. QED
    BY <2>1, <2>2, BufferFrame
<1>5. ASSUME NEW t \in Sender, NEW n, W!SendN(t, n)
      PROVE  BufferInv'
  <2>1. /\ UNCHANGED <<end, met>> /\ stage[t] # "idle"
        /\ W!Advance(t) \/ UNCHANGED <<stage, jobs, mutex>>
    BY <1>5 DEF W!SendN
  <2>2. QED
    BY <1>2, <2>1, AdvanceStep
<1>6. ASSUME NEW t \in Sender, W!Killed(t)
      PROVE  BufferInv'
  BY <1>2, <1>6 DEF W!Killed, W!buffer
<1>7. ASSUME NEW n, W!RecvN(n)
      PROVE  BufferInv'
  BY <1>2, <1>7 DEF W!RecvN, W!buffer
<1>8. CASE W!EndOfStream
  BY <1>2, <1>8 DEF W!EndOfStream, W!buffer
<1>9. ASSUME NEW who, W!Shutdown(who)
      PROVE  BufferInv'
  BY <1>2, <1>9 DEF W!Shutdown, W!buffer
<1>10. CASE UNCHANGED wire
  BY <1>2, <1>10 DEF wire
<1>11. QED
  BY <1>3, <1>4, <1>5, <1>6, <1>7, <1>8, <1>9, <1>10 DEF W!Next

(* Each thread has its job, and none has begun.                            *)
LEMMA BufferInitially == W!Init => BufferInv
<1> SUFFICES ASSUME W!Init PROVE BufferInv
  OBVIOUS
<1>1. PICK one \in (IF end = "client" THEN W!UserRequests ELSE W!SessionReplies) :
        jobs = [t \in Sender |->
          IF t = W!Main THEN <<one>> ELSE IF end = "client" THEN <<W!SyncRequest>> ELSE <<W!NextItem>>]
  BY DEF W!Init
<1>2. end \in {"client", "session"} /\ stage = [t \in Sender |-> "idle"] /\ met = "no"
  BY DEF W!Init
<1>3. ASSUME NEW t \in Sender
      PROVE  /\ jobs[t] = <<[locked |-> JobOf(t).locked, messages |-> JobOf(t).messages]>>
             /\ JobOf(t).locked \in BOOLEAN
             /\ end = "client" => JobOf(t).locked
  <2>1. PICK job \in W!UserRequests \cup W!SessionReplies \cup {W!SyncRequest, W!NextItem} :
          /\ jobs[t] = <<job>>
          /\ end = "client" => job \in W!UserRequests \cup {W!SyncRequest}
    BY <1>1
  <2>2. JobOf(t) = job
    BY <2>1 DEF JobOf
  <2>3. QED
    BY <2>1, <2>2, JobFacts
<1>4. JobsInv
  BY <1>1, <1>2, <1>3 DEF JobsInv
<1>5. LockInv /\ MeetInv
  BY <1>2 DEF LockInv, W!Using, MeetInv
<1>6. QED
  BY <1>4, <1>5 DEF BufferInv

(* Whoever sends, and whatever, two threads are never in the send buffer   *)
(* at a time while both have the lock; in a client, never at all.  (A part *)
(* of WireInv: what the messages are made of then remains to TLC.)         *)
THEOREM BufferIsGuarded == PartsSpec => [](met # "locked" /\ (met = "bare" => end = "session"))
<1>1. PartsInit => BufferInv
  BY BufferInitially DEF PartsInit
<1>2. BufferInv /\ [PartsNext]_all => BufferInv'
  <2>1. [PartsNext]_all => [W!Next]_wire
    BY DEF PartsNext, all, OfService, OfWire, OfConnect, OfStartup, OfStore, OfSettings, OfContainers
  <2>2. QED
    BY <2>1, BufferStep
<1>3. BufferInv => met # "locked" /\ (met = "bare" => end = "session")
  BY DEF BufferInv, MeetInv
<1>4. QED
  BY <1>1, <1>2, <1>3, PTL DEF PartsSpec
=============================================================================

------------------------------ MODULE Service -------------------------------
(***************************************************************************)
(* The service behind the sessions: the accepting thread of Server.cc, the *)
(* receive thread of each Session, and the pipe through which the latter   *)
(* tell the former to close a session or to stop.                          *)
(*                                                                         *)
(* A session is known by its address, which is free again once it was      *)
(* deleted.  A notification is the letter q and then, by another write,    *)
(* the bytes of the address.  Requests change nothing here but that each   *)
(* is answered; what they do is in module Server.                          *)
(*                                                                         *)
(* A connection whose client has closed it takes one more packet, which    *)
(* the other side answers with a reset; to send after that, or after a     *)
(* shutdown of one's own, is a SIGPIPE, which nothing here handles.        *)
(***************************************************************************)
EXTENDS Naturals, Sequences, FiniteSets

CONSTANTS
  Address,        \* where sessions can be
  Nobody,         \* no session
  Word,           \* the bytes of an address
  ClientBound,    \* bound: how many clients connect
  RequestBound,   \* bound: how many requests of a client wait
  NewsBound       \* bound: how many announcements there are

ASSUME ServiceAssumption ==
  /\ Word \in Nat \ {0} /\ Nobody \notin Address
  /\ {ClientBound, RequestBound, NewsBound} \subseteq Nat

VARIABLES
  process,        \* up, exited, or killed by a signal
  main,           \* where the accepting thread is
  closing,        \* the session it stops
  sessions,       \* m_SessionSet
  thread,         \* m_RecvThread of each session; "none": there is no session
  conn,           \* its connection: open, closed by the client, reset, shut down
  inbox,          \* the requests that wait in it
  pipe,           \* the bytes in the pipe
  clients, news,
  \* For the properties only:
  asked,          \* a client asked for the end of the service
  torn            \* a write came between the two of a notification

vars == <<process, main, closing, sessions, thread, conn, inbox, pipe, clients, news, asked, torn>>
mainVars == <<process, main, closing, sessions>>
clientVars == <<clients, asked>>

Quit == [what |-> "q"]
StopAll == [what |-> "Q"]
Pointer(s) == [k \in 1 .. Word |-> [what |-> "byte", of |-> s, k |-> k]]

Init ==
  /\ process = "up" /\ main = "select" /\ closing = Nobody /\ sessions = {}
  /\ thread = [s \in Address |-> "none"]
  /\ conn = [s \in Address |-> "none"]
  /\ inbox = [s \in Address |-> <<>>]
  /\ pipe = <<>> /\ clients = 0 /\ news = 0 /\ asked = FALSE /\ torn = FALSE

-----------------------------------------------------------------------------
(* The accepting thread.                                                   *)

(* OpenSession: the session is connected to the signals, its thread runs.  *)
OpenSession(s) ==
  /\ main = "select" /\ clients < ClientBound
  /\ thread[s] = "none"
  /\ clients' = clients + 1
  /\ sessions' = sessions \cup {s}
  /\ thread' = [thread EXCEPT ![s] = "start"]
  /\ conn' = [conn EXCEPT ![s] = "open"]
  /\ inbox' = [inbox EXCEPT ![s] = <<>>]
  /\ UNCHANGED <<process, main, closing, pipe, news, asked, torn>>

(* One byte is read; one that is no command is dropped.                    *)
ReadCommand ==
  /\ main = "select" /\ pipe # <<>>
  /\ pipe' = Tail(pipe)
  /\ main' = CASE Head(pipe) = Quit -> "pointer"
               [] Head(pipe) = StopAll -> "stopping"
               [] OTHER -> "select"
  /\ UNCHANGED <<process, closing, sessions, thread, conn, inbox, clientVars, news, torn>>

(* Session::Stop, up to the join.                                          *)
Shut(s, next) ==
  /\ conn' = [conn EXCEPT ![s] = "shut"]
  /\ closing' = s /\ main' = next

(* What read returns when asked for an address, and what it leaves.        *)
Taken(bytes) == [k \in 1 .. (IF Len(bytes) < Word THEN Len(bytes) ELSE Word) |-> bytes[k]]
Rest(bytes) == SubSeq(bytes, Len(Taken(bytes)) + 1, Len(bytes))
Words(bytes) == {s \in Address : bytes = Pointer(s)}

(* Mutant of ReadPointer: the address of another session is read.          *)
ReadPointerOfOther ==
  /\ main = "pointer" /\ pipe # <<>>
  /\ pipe' = Rest(pipe)
  /\ \E s \in sessions : Shut(s, "closing") /\ sessions' = sessions \ {s}
  /\ UNCHANGED <<process, thread, inbox, clientVars, news, torn>>

(* An address is read, or what there is of it yet; CloseSession if it is   *)
(* that of a session.                                                      *)
ReadPointer ==
  /\ main = "pointer" /\ pipe # <<>>
  /\ LET found == Words(Taken(pipe)) \cap sessions IN
     /\ pipe' = Rest(pipe)
     /\ sessions' = sessions \ found
     /\ \/ \E s \in found : Shut(s, "closing")
        \/ found = {} /\ main' = "select" /\ UNCHANGED <<closing, conn>>
  /\ UNCHANGED <<process, thread, inbox, clientVars, news, torn>>

(* Its thread has ended: the session is deleted.                           *)
Delete(s) ==
  /\ thread[s] = "done"
  /\ thread' = [thread EXCEPT ![s] = "none"]
  /\ conn' = [conn EXCEPT ![s] = "none"]
  /\ closing' = Nobody

CloseSession ==
  /\ main = "closing"
  /\ Delete(closing)
  /\ main' = "select"
  /\ UNCHANGED <<process, sessions, inbox, pipe, clientVars, news, torn>>

(* StopService: each session in turn is stopped and deleted.               *)
StopNext ==
  /\ main = "stopping"
  /\ \E s \in sessions : Shut(s, "joining")
  /\ UNCHANGED <<process, sessions, thread, inbox, pipe, clientVars, news, torn>>

StopJoined ==
  /\ main = "joining"
  /\ Delete(closing)
  /\ sessions' = sessions \ {closing}
  /\ main' = "stopping"
  /\ UNCHANGED <<process, inbox, pipe, clientVars, news, torn>>

(* Dump and Cleanup.                                                       *)
Exit ==
  /\ main = "stopping" /\ sessions = {}
  /\ process' = "exited"
  /\ UNCHANGED <<main, closing, sessions, thread, conn, inbox, pipe, clientVars, news, torn>>

Main ==
  \/ ReadCommand \/ ReadPointer \/ CloseSession
  \/ StopNext \/ StopJoined \/ Exit

-----------------------------------------------------------------------------
(* Sessions.                                                               *)

(* A packet to each session of a set: SendOut.                             *)
Send(to) ==
  /\ process' = IF \E s \in to : conn[s] \in {"reset", "shut"} THEN "killed" ELSE "up"
  /\ conn' = [s \in Address |-> IF s \in to /\ conn[s] = "closed" THEN "reset" ELSE conn[s]]

(* NotifySupportedSuffixes.                                                *)
StartThread(s) ==
  /\ thread[s] = "start"
  /\ Send({s})
  /\ thread' = [thread EXCEPT ![s] = "recv"]
  /\ UNCHANGED <<main, closing, sessions, inbox, pipe, clientVars, news, torn>>

Between(s) == \E other \in Address \ {s} : thread[other] = "told"

(* A request is answered; or StopService, after which the thread ends.     *)
Receive(s) ==
  /\ thread[s] = "recv" /\ inbox[s] # <<>>
  /\ inbox' = [inbox EXCEPT ![s] = Tail(@)]
  /\ \/ Head(inbox[s]) = "request" /\ Send({s}) /\ UNCHANGED <<thread, pipe, torn>>
     \/ /\ Head(inbox[s]) = "stop"
        /\ pipe' = Append(pipe, StopAll)
        /\ thread' = [thread EXCEPT ![s] = "done"]
        /\ torn' = (torn \/ Between(s))
        /\ UNCHANGED <<process, conn>>
  /\ UNCHANGED <<main, closing, sessions, clientVars, news>>

(* Mutant of LeaveLoop: the thread just ends.                              *)
LeaveLoopQuiet(s) ==
  /\ thread[s] = "recv" /\ inbox[s] = <<>> /\ conn[s] # "open"
  /\ thread' = [thread EXCEPT ![s] = "done"]
  /\ UNCHANGED <<mainVars, conn, inbox, pipe, clientVars, news, torn>>

(* The connection has ended.                                               *)
LeaveLoop(s) ==
  /\ thread[s] = "recv" /\ inbox[s] = <<>> /\ conn[s] # "open"
  /\ thread' = [thread EXCEPT ![s] = "leaving"]
  /\ UNCHANGED <<mainVars, conn, inbox, pipe, clientVars, news, torn>>

WriteQuit(s) ==
  /\ thread[s] = "leaving"
  /\ pipe' = Append(pipe, Quit)
  /\ thread' = [thread EXCEPT ![s] = "told"]
  /\ torn' = (torn \/ Between(s))
  /\ UNCHANGED <<mainVars, conn, inbox, clientVars, news>>

WritePointer(s) ==
  /\ thread[s] = "told"
  /\ pipe' = pipe \o Pointer(s)
  /\ thread' = [thread EXCEPT ![s] = "done"]
  /\ torn' = (torn \/ Between(s))
  /\ UNCHANGED <<mainVars, conn, inbox, clientVars, news>>

Thread(s) ==
  \/ StartThread(s) \/ Receive(s) \/ LeaveLoop(s)
  \/ WriteQuit(s) \/ WritePointer(s)

(* sigPlayNextItem, from a thread of the player or of a session: the slot  *)
(* of every session sends.                                                 *)
Announce ==
  /\ news < NewsBound
  /\ news' = news + 1
  /\ Send({s \in Address : thread[s] # "none"})
  /\ UNCHANGED <<main, closing, sessions, thread, inbox, pipe, clientVars, torn>>

(* Clients.  A close with a packet unread, the first is that of            *)
(* StartThread, is a reset at once.                                        *)
ClientRequest(s) ==
  /\ conn[s] = "open" /\ Len(inbox[s]) < RequestBound
  /\ inbox' = [inbox EXCEPT ![s] = Append(@, "request")]
  /\ UNCHANGED <<mainVars, thread, conn, pipe, clientVars, news, torn>>

ClientQuit(s) ==
  /\ conn[s] = "open"
  /\ \E left \in {"closed"} \cup IF thread[s] = "start" THEN {} ELSE {"reset"} :
       conn' = [conn EXCEPT ![s] = left]
  /\ \/ UNCHANGED <<inbox, asked>>
     \/ asked' = TRUE /\ inbox' = [inbox EXCEPT ![s] = Append(@, "stop")]
  /\ UNCHANGED <<mainVars, thread, pipe, clients, news, torn>>

Next ==
  /\ process = "up"
  /\ \/ Main \/ Announce
     \/ \E s \in Address : OpenSession(s) \/ Thread(s) \/ ClientRequest(s) \/ ClientQuit(s)

Spec == Init /\ [][Next]_vars

(* The service's threads run; no client has to do anything.                *)
FairSpec ==
  /\ Spec
  /\ WF_vars(process = "up" /\ Main)
  /\ \A s \in Address : WF_vars(process = "up" /\ Thread(s))

-----------------------------------------------------------------------------
(* Properties.                                                             *)

(* Every variable stays in its domain; the accepting thread knows whom it  *)
(* stops; a session in the set is in memory.                               *)
TypeOK ==
  /\ process \in {"up", "exited", "killed"}
  /\ main \in {"select", "pointer", "closing", "stopping", "joining"}
  /\ closing \in Address <=> main \in {"closing", "joining"}
  /\ \A s \in Address :
       /\ thread[s] \in {"none", "start", "recv", "leaving", "told", "done"}
       /\ conn[s] \in {"none", "open", "closed", "reset", "shut"}
       /\ (conn[s] = "none") = (thread[s] = "none")
  /\ sessions \subseteq {s \in Address : thread[s] # "none"}
  /\ {asked, torn} \subseteq BOOLEAN

(* Whatever the writes of several sessions look like in the pipe, and      *)
(* however often an address was used before: CloseSession closes a session *)
(* that has said so itself, never another, and the join does not wait.     *)
(* Every variable is in its domain.                                        *)
ClosesOnlyQuit ==
  []TypeOK /\ [][main' = "closing" /\ main # "closing" => thread[closing'] = "done"]_vars

(* When a client has gone, its session is closed; unless writes of other   *)
(* sessions came between those of a notification.                          *)
GoneIsClosed ==
  \A s \in Address : conn[s] \in {"closed", "reset"} ~> (thread[s] = "none" \/ torn \/ process # "up")

(* A service that a client asks to stop stops; unless, again, that write   *)
(* came between two others.                                                *)
StopIsHeeded == asked ~> (process # "up" \/ torn)

(* What is told through the pipe is done: who has gone is closed, and a    *)
(* stop is heeded; as long as no two writes meet.                          *)
ToldIsDone == GoneIsClosed /\ StopIsHeeded
=============================================================================

------------------------------ MODULE Connect ------------------------------
(***************************************************************************)
(* A terminal client's connection (apps/ncurses/Client.cc, MainUi.cc): its *)
(* receiving thread tries to connect, with a new socket each time, until   *)
(* it succeeds, has tried often enough, or is told to stop trying; then it *)
(* receives.  The user presses keys before, while and after it connects;   *)
(* the key to quit makes Stop set a flag, shut the socket down and wait for*)
(* the thread.  The server comes up, or not, and may end at any time.      *)
(***************************************************************************)
EXTENDS Integers

CONSTANTS
  ConnectMaxRetry,  \* m_ConnectMaxRetry
  KeyBound,         \* keys that send something
  TurnBound         \* how often the server comes up or ends

VARIABLES
  ui,         \* what the user's thread does
  thread,     \* what the receiving thread does
  retryCount,
  stopRetry,  \* m_ConnectStopRetry
  socket,     \* m_Socket
  up,         \* the server listens
  keys, turns,
  late        \* for the properties only: the thread connected after Shutdown

connect == <<ui, thread, retryCount, stopRetry, socket, up, keys, turns, late>>

Init ==
  /\ ui = "keys" /\ thread = "try" /\ retryCount = 0 /\ stopRetry = FALSE
  /\ socket = "new" /\ up \in BOOLEAN /\ keys = 0 /\ turns = 0 /\ late = FALSE

-----------------------------------------------------------------------------
(* The receiving thread.                                                   *)
TryConnect ==
  /\ thread = "try" /\ ui # "killed"
  /\ IF up
     THEN /\ thread' = "receive"
          /\ socket' = IF socket = "shut" THEN "connected and shut" ELSE "connected"
          /\ late' = (ui \in {"join", "closed"})
     ELSE /\ thread' = "failed" /\ UNCHANGED <<socket, late>>
  /\ UNCHANGED <<ui, retryCount, stopRetry, up, keys, turns>>

(* Is there another try?                                                   *)
Decide ==
  /\ thread = "failed" /\ ui # "killed"
  /\ thread' = IF retryCount < ConnectMaxRetry /\ ~stopRetry THEN "renew" ELSE "returned"
  /\ UNCHANGED <<ui, retryCount, stopRetry, socket, up, keys, turns, late>>

(* m_Socket = TcpSocket(), then it sleeps for a while.                     *)
Renew ==
  /\ thread = "renew" /\ ui # "killed" /\ thread' = "try"
  /\ socket' = "new" /\ retryCount' = retryCount + 1
  /\ UNCHANGED <<ui, stopRetry, up, keys, turns, late>>

(* RecvN ends when the server has ended or the socket was shut down.       *)
Receive ==
  /\ thread = "receive" /\ ui # "killed"
  /\ ~up \/ socket = "shut down" \/ socket = "connected and shut"
  /\ thread' = "returned"
  /\ UNCHANGED <<ui, retryCount, stopRetry, socket, up, keys, turns, late>>

-----------------------------------------------------------------------------
(* A key that sends something: to a socket that is not connected, or whose *)
(* other end is gone, it raises SIGPIPE (or is lost).                      *)
Send ==
  /\ ui = "keys" /\ keys < KeyBound /\ keys' = keys + 1
  /\ IF socket = "connected" /\ up THEN UNCHANGED ui
     ELSE ui' = "killed" \/ (socket = "connected" /\ UNCHANGED ui)
  /\ UNCHANGED <<thread, retryCount, stopRetry, socket, up, turns, late>>

(* The timer, which runs from the first connection on, sends a sync.       *)
Tick ==
  /\ ui \in {"keys", "shutdown", "join"} /\ socket \in {"shut down", "connected and shut"}
  /\ ui' = "killed"
  /\ UNCHANGED <<thread, retryCount, stopRetry, socket, up, keys, turns, late>>

(* The key to quit ends the loop of Exec; Stop follows.                    *)
Quit ==
  /\ ui = "keys" /\ ui' = "shutdown" /\ stopRetry' = TRUE
  /\ UNCHANGED <<thread, retryCount, socket, up, keys, turns, late>>

(* Mutant of Shutdown: Stop only waits for the thread.                     *)
ShutdownForgotten ==
  /\ ui = "shutdown" /\ ui' = "join"
  /\ UNCHANGED <<thread, retryCount, stopRetry, socket, up, keys, turns, late>>

(* A shutdown of a socket that is not connected is an error, and may have  *)
(* no effect on the connection that is made with it after.                 *)
Shutdown ==
  /\ ui = "shutdown" /\ ui' = "join"
  /\ socket' \in (IF socket = "new" THEN {"new", "shut"} ELSE {"shut down"})
  /\ UNCHANGED <<thread, retryCount, stopRetry, up, keys, turns, late>>

Join ==
  /\ ui = "join" /\ thread = "returned" /\ ui' = "closed"
  /\ socket' = "closed"
  /\ UNCHANGED <<thread, retryCount, stopRetry, up, keys, turns, late>>

(* The server comes up, or ends and its connections with it.               *)
Turn ==
  /\ turns < TurnBound /\ turns' = turns + 1
  /\ up' = ~up
  /\ socket' = IF up /\ socket = "connected" THEN "shut down" ELSE socket
  /\ UNCHANGED <<ui, thread, retryCount, stopRetry, keys, late>>

Thread == TryConnect \/ Decide \/ Renew \/ Receive
User == Send \/ Quit \/ Shutdown \/ Join

Next == Thread \/ User \/ Tick \/ Turn

Spec == Init /\ [][Next]_connect

(* The receiving thread runs, and so does Stop once it is called.          *)
FairSpec == Spec /\ WF_connect(Thread) /\ WF_connect(Shutdown \/ Join)

-----------------------------------------------------------------------------
(* Stop returns, whatever the thread was doing when it was called, unless  *)
(* the program was killed by a send to a dead connection, or the thread    *)
(* connected after the shutdown: nobody shuts that connection down, and    *)
(* Stop waits for the server to end it.                                    *)
QuitEnds ==
  ui = "shutdown" ~> (ui \in {"closed", "killed"} \/ (late /\ socket = "connected"))

=============================================================================

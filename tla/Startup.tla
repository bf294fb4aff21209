------------------------------ MODULE Startup ------------------------------
(***************************************************************************)
(* Starting the program (apps/ncurses/main.cc, AppEnv.cc): several people, *)
(* or one in several terminals, call mous at a time.  Each call makes sure *)
(* of the directory and of the configuration file, looks up in the pid     *)
(* file whether a server runs, forks one if not, and becomes a client.     *)
(* The server stores its pid, restores the lists, binds its port, serves,  *)
(* and removes the pid file when it has been told to stop.  Whatever is    *)
(* looked up may be out of date by the time it is used.                    *)
(***************************************************************************)
EXTENDS Integers, FiniteSets

CONSTANTS
  Call,      \* calls of the program; a call and the server it forks share the name
  KillBound  \* processes that are killed

VARIABLES
  dir,        \* the directory exists
  config,     \* the configuration: "none", "empty" or "whole"
  pidFile,    \* "none", "empty", or the pid in it
  pc,         \* where a call is
  pid,        \* the pid it read
  server,     \* where the server it forked is
  kills,
  raced,      \* for the properties only: one call looked something up while
  overlapped, \*   another was about to change it: files, or the pid;
  truncated   \*   a call was killed before it had written the configuration

startup ==
  <<dir, config, pidFile, pc, pid, server, kills, raced, overlapped, truncated>>

(* Children that have not ended.                                           *)
Alive == {c \in Call : server[c] \notin {"none", "gone"}}

(* A server is one to the others from its StorePid to its ClearPid.        *)
Running == {c \in Call : server[c] \in {"init", "restored", "serving", "dump", "clear"}}

Init ==
  /\ dir = FALSE /\ config = "none" /\ pidFile = "none"
  /\ pc = [c \in Call |-> "called"] /\ pid = [c \in Call |-> "none"]
  /\ server = [c \in Call |-> "none"]
  /\ kills = 0 /\ raced = FALSE /\ overlapped = FALSE /\ truncated = FALSE

files == <<dir, config>>
history == <<raced, overlapped, truncated>>

Goto(c, where) == pc' = [pc EXCEPT ![c] = where]

(* Calls that have found something missing and have not made it yet.       *)
Making == {c \in Call : pc[c] \in {"mkdir", "save", "write"}}

-----------------------------------------------------------------------------
(* AppEnv::Init.  The directory exists, or is made; MakeDir looks at every *)
(* part of the path and makes those it did not find.                       *)
CheckDir(c) ==
  /\ pc[c] = "called" /\ Goto(c, IF dir THEN "config" ELSE "mkdir")
  /\ raced' = (raced \/ Making # {})
  /\ UNCHANGED <<files, pidFile, pid, server, kills, overlapped, truncated>>

MakeDir(c) ==
  /\ pc[c] = "mkdir" /\ dir' = TRUE
  /\ Goto(c, IF dir THEN "failed" ELSE "config")
  /\ UNCHANGED <<config, pidFile, pid, server, kills, history>>

CheckConfig(c) ==
  /\ pc[c] = "config" /\ Goto(c, IF config = "none" THEN "save" ELSE "load")
  /\ raced' = (raced \/ Making # {})
  /\ UNCHANGED <<files, pidFile, pid, server, kills, overlapped, truncated>>

(* SaveDefault: open truncates, write fills; then it sleeps a second.      *)
OpenConfig(c) ==
  /\ pc[c] = "save" /\ config' = "empty" /\ Goto(c, "write")
  /\ UNCHANGED <<dir, pidFile, pid, server, kills, history>>

WriteConfig(c) ==
  /\ pc[c] = "write" /\ config' = "whole" /\ Goto(c, "load")
  /\ UNCHANGED <<dir, pidFile, pid, server, kills, history>>

(* LoadContent: a key that is missing throws, and nobody catches.          *)
LoadContent(c) ==
  /\ pc[c] = "load" /\ Goto(c, IF config = "whole" THEN "fetch" ELSE "failed")
  /\ UNCHANGED <<files, pidFile, pid, server, kills, history>>

-----------------------------------------------------------------------------
(* Calls that know there is no server, or that look, and have not stored   *)
(* the pid of theirs yet.                                                  *)
Deciding ==
  {c \in Call : pc[c] = "decide" \/ server[c] \in {"forked", "storing"}}

FetchPid(c) ==
  /\ pc[c] = "fetch" /\ Goto(c, "decide")
  /\ pid' = [pid EXCEPT ![c] = IF pidFile = "empty" THEN "none" ELSE pidFile]
  /\ overlapped' = (overlapped \/ Deciding # {})
  /\ UNCHANGED <<files, pidFile, server, kills, raced, truncated>>

(* No pid, or kill knows no such process: fork; then this call is a client.*)
(* The pid of a server that has ended may by now be another program's.     *)
Fork(c) ==
  /\ pc[c] = "decide" /\ Goto(c, "client")
  /\ \/ pid[c] \in Call /\ UNCHANGED server
     \/ pid[c] \notin Alive /\ server' = [server EXCEPT ![c] = "forked"]
  /\ UNCHANGED <<files, pidFile, pid, kills, history>>

-----------------------------------------------------------------------------
Move(c, from, to) == server[c] = from /\ server' = [server EXCEPT ![c] = to]

(* StorePid: open truncates, write fills.                                  *)
OpenPid(c) ==
  /\ Move(c, "forked", "storing") /\ pidFile' = "empty"
  /\ UNCHANGED <<files, pc, pid, kills, history>>

StorePid(c) ==
  /\ Move(c, "storing", "init") /\ pidFile' = c
  /\ UNCHANGED <<files, pc, pid, kills, history>>

(* Server::Exec: without plug-ins, or without the port, it returns at once.*)
ExecInit(c) ==
  /\ Move(c, "init", "restored") \/ Move(c, "init", "clear")
  /\ UNCHANGED <<files, pidFile, pc, pid, kills, history>>

(* With reusePort two servers of one user can have the same port.          *)
Bind(c) ==
  /\ Move(c, "restored", "serving") \/ Move(c, "restored", "clear")
  /\ UNCHANGED <<files, pidFile, pc, pid, kills, history>>

(* Mutant of StopService: the pid file goes first.                         *)
StopServiceEarly(c) ==
  /\ Move(c, "serving", "dump") /\ pidFile' = "none"
  /\ UNCHANGED <<files, pc, pid, kills, history>>

StopService(c) ==
  /\ Move(c, "serving", "dump")
  /\ UNCHANGED <<files, pidFile, pc, pid, kills, history>>

DumpDone(c) ==
  /\ Move(c, "dump", "clear")
  /\ UNCHANGED <<files, pidFile, pc, pid, kills, history>>

(* ClearPid removes the file, whoever's pid is in it.                      *)
ClearPid(c) ==
  /\ Move(c, "clear", "left") /\ pidFile' = "none"
  /\ UNCHANGED <<files, pc, pid, kills, history>>

Exit(c) ==
  /\ Move(c, "left", "gone")
  /\ UNCHANGED <<files, pidFile, pc, pid, kills, history>>

-----------------------------------------------------------------------------
KillCall(c) ==
  /\ kills < KillBound /\ kills' = kills + 1
  /\ pc[c] \notin {"failed", "client", "killed"} /\ Goto(c, "killed")
  /\ truncated' = (truncated \/ pc[c] = "write")
  /\ UNCHANGED <<files, pidFile, pid, server, raced, overlapped>>

KillServer(c) ==
  /\ kills < KillBound /\ kills' = kills + 1
  /\ c \in Alive /\ server' = [server EXCEPT ![c] = "gone"]
  /\ UNCHANGED <<files, pidFile, pc, pid, history>>

Next ==
  \E c \in Call :
    \/ CheckDir(c) \/ MakeDir(c) \/ CheckConfig(c) \/ OpenConfig(c) \/ WriteConfig(c) \/ LoadContent(c)
    \/ FetchPid(c) \/ Fork(c)
    \/ OpenPid(c) \/ StorePid(c) \/ ExecInit(c) \/ Bind(c)
    \/ StopService(c) \/ DumpDone(c) \/ ClearPid(c) \/ Exit(c)
    \/ KillCall(c) \/ KillServer(c)

Spec == Init /\ [][Next]_startup

-----------------------------------------------------------------------------
(* As long as no call looks into the pid file while another decides or has *)
(* a server that has not stored its pid yet, there is one server at most,  *)
(* and the pid file names it from then on until it clears it.  (A call     *)
(* that comes between finds none and starts a second.)                     *)
OneServer ==
  ~overlapped =>
    /\ Cardinality(Alive \ {c \in Call : server[c] = "left"}) <= 1
    /\ \A c \in Running : pidFile = c

(* A call fails to start only if another made directory or configuration   *)
(* at the same time, or was killed before it had written the latter.       *)
StartsUp == (\E c \in Call : pc[c] = "failed") => raced \/ truncated

StartInv == OneServer /\ StartsUp

=============================================================================

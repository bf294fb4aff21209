----------------------------- MODULE MCService ------------------------------
(***************************************************************************)
(* What lies between a terminal client and the server's lists, for TLC:    *)
(* the service with its sessions and the pipe (Service), one direction of  *)
(* a connection (Wire), how a client connects and quits (Connect), how the *)
(* program starts (Startup), what the server keeps over a restart (Store), *)
(* its settings (Settings), and the buffer all of them write with          *)
(* (Containers).  Each behaviour is of one of them, and the variables of   *)
(* the others stand still.                                                 *)
(***************************************************************************)
EXTENDS Service

CONSTANTS
  Sender, MEDIAITEMS_IN_CHUNK, Index, Pos, Direct, Str, Item, Short, CutBound,  \* of Wire
  ConnectMaxRetry, KeyBound, TurnBound,                        \* of Connect
  Call, KillBound,                                             \* of Startup
  ListCount, ListValues, Contexts, EditBound, DumpBound,       \* of Store
  Keys, Texts, LineBound,                                      \* of Settings
  Values, Strings                                              \* of Containers

(* The pid file has the name of a call, or one of two words that are none. *)
ASSUME CallAssumption == {"none", "empty"} \cap Call = {}

(* A thread that sends is somebody.                                        *)
ASSUME SenderAssumption == Nobody \notin Sender

VARIABLES
  part,  \* whose behaviour it is
  end, jobs, stage, mutex, out, size, loose, sent, stream, got, head, ended, closed, killed,
  meant, delivered, met, fault, cuts,
  ui, receiving, retryCount, stopRetry, socket, up, keys, turns, late,
  dir, config, pidFile, pc, pid, server, kills, raced, overlapped, truncated,
  memory, files, phase, at, opened, edits, dumps, dumped, cut, known,
  lines, newline,
  kind, type, source, target, buf, need, step, held

wire ==
  <<end, jobs, stage, mutex, out, size, loose, sent, stream, got, head, ended, closed, killed,
    meant, delivered, met, fault, cuts>>
connect == <<ui, receiving, retryCount, stopRetry, socket, up, keys, turns, late>>
startup == <<dir, config, pidFile, pc, pid, server, kills, raced, overlapped, truncated>>
store == <<memory, files, phase, at, opened, edits, dumps, dumped, cut, known>>
settings == <<lines, newline>>
containers == <<kind, type, source, target, buf, need, step, held>>

W == INSTANCE Wire
O == INSTANCE Connect WITH thread <- receiving
U == INSTANCE Startup
D == INSTANCE Store
F == INSTANCE Settings
B == INSTANCE Containers WITH phase <- step

-----------------------------------------------------------------------------
(* An item, its values as in MediaItem.h; lists, one of them shuffled.     *)
MCItem(n) == <<<<n>>, 6, 1, 7, 8, <<9>>, <<>>, <<>>, <<>>, <<>>, 10, 11>>
MCSong == MCItem(5)
MCStr == <<12, 13>>
MCListValues ==
  {[mode |-> 0, items |-> <<MCItem(5)>>, index |-> 0, queue |-> <<0>>],
   [mode |-> 4, items |-> <<MCItem(5), MCItem(6)>>, index |-> 1, queue |-> <<1, 0>>]}
MCContexts == {[playMode |-> 4, used |-> 1, selected |-> 0, items |-> <<1, 0>>]}
MCKeys == {<<"a">>, <<"b">>}
MCTexts == {<<>>, <<"c">>, <<"=", "#">>}
MCStrings == {<<>>, <<5>>, <<6, 5>>}

-----------------------------------------------------------------------------
(* The others begin in one of the states in which they may.                *)
PartsInit ==
  /\ part \in {"service", "wire", "connect", "startup", "store", "settings", "containers"}
  /\ Init
  /\ W!Init /\ (part = "wire" \/ (end = "client" /\ jobs[W!Main] = <<CHOOSE r \in W!UserRequests : TRUE>>))
  /\ O!Init /\ (part = "connect" \/ up)
  /\ U!Init
  /\ D!Init
  /\ F!Init /\ (part = "settings" \/ newline = F!LF)
  /\ IF part = "containers" THEN B!Init
     ELSE kind = "set" /\ type = "int" /\ source = {} /\ target = {} /\ held = {}
          /\ buf = B!NoMemory /\ need = 0 /\ step = "measure"

OfService(A) ==
  part = "service" /\ A /\ UNCHANGED <<part, wire, connect, startup, store, settings, containers>>
OfWire(A) ==
  part = "wire" /\ A /\ UNCHANGED <<part, vars, connect, startup, store, settings, containers>>
OfConnect(A) ==
  part = "connect" /\ A /\ UNCHANGED <<part, vars, wire, startup, store, settings, containers>>
OfStartup(A) ==
  part = "startup" /\ A /\ UNCHANGED <<part, vars, wire, connect, store, settings, containers>>
OfStore(A) ==
  part = "store" /\ A /\ UNCHANGED <<part, vars, wire, connect, startup, settings, containers>>
OfSettings(A) ==
  part = "settings" /\ A /\ UNCHANGED <<part, vars, wire, connect, startup, store, containers>>
OfContainers(A) ==
  part = "containers" /\ A /\ UNCHANGED <<part, vars, wire, connect, startup, store, settings>>

PartsNext ==
  \/ OfService(Next) \/ OfWire(W!Next) \/ OfConnect(O!Next) \/ OfStartup(U!Next)
  \/ OfStore(D!Next) \/ OfSettings(F!Next) \/ OfContainers(B!Next)

all == <<part, vars, wire, connect, startup, store, settings, containers>>

(* Fairness as in Service and in Connect; a behaviour is of one part only, *)
(* so that one condition can speak of a thread of each.                    *)
PartsSpec ==
  /\ PartsInit /\ [][PartsNext]_all
  /\ WF_<<vars, connect>>(
       \/ part = "service" /\ process = "up" /\ Main /\ UNCHANGED connect
       \/ part = "connect" /\ O!Thread /\ UNCHANGED vars)
  /\ WF_connect(part = "connect" /\ (O!Shutdown \/ O!Join))
  /\ \A s \in Address : WF_vars(part = "service" /\ process = "up" /\ Thread(s))

-----------------------------------------------------------------------------
(* Messages come as they were sent, however cut, unless two threads meet in*)
(* the buffer, as only three replies of a session allow (module Wire).     *)
WireInv == part = "wire" => W!WireInv

(* There is one server, unless two calls overlap; and calls start up       *)
(* (module Startup).                                                       *)
StartInv == part = "startup" => U!StartInv

(* What is read is what was written, of lists, settings and containers,    *)
(* and of what was cut a part that is whole (modules Store, Settings and   *)
(* Containers).                                                            *)
FilesInv ==
  CASE part = "store" -> D!StoreInv
    [] part = "settings" -> F!SettingsInv
    [] part = "containers" -> B!ContainersInv
    [] OTHER -> TRUE

(* Sessions whose clients have gone are closed, a stop is heeded (module   *)
(* Service), and a client that quits ends (module Connect).                *)
StopsEnd == ToldIsDone /\ O!QuitEnds
=============================================================================

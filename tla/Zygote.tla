------------------------------- MODULE Zygote -------------------------------
(***************************************************************************)
(* frameworks/droid/core/zygote: the socket classes, their native methods   *)
(* and the signal handler that reaps the children, in one process whose     *)
(* threads log while they do so. The process uses the server, in Main and   *)
(* with another thread that may close it, or the client. What Java does     *)
(* with a message is not in the repository: here it forks, or does not.     *)
(*                                                                         *)
(* Reading, writing and isOpen of the client change none of this state:     *)
(* they read the descriptor of which DescriptorsHeld says what it is.       *)
(***************************************************************************)
EXTENDS Liblog

CONSTANTS
  Main,              \* the thread that calls nativeOpen of the server
  Children,          \* the processes it may fork
  GarbageFds         \* what ZygoteSocketClient's connFd may be before any use

ASSUME ZygoteAssumption == Main \in Threads /\ IsFiniteSet(Children)

VARIABLES
  uses,              \* the class this program uses, "server" or "client"
  task,              \* what a thread does between its log calls
  listenFd, connFd,  \* of the server
  clientFd,          \* connFd of the client
  connected,         \* the client's last openSocket succeeded, and no close since (history)
  misused,           \* a socket was closed that its class closes too (history)
  child,             \* the state of each child
  handled,           \* SIGCHLD has the handler
  pending,           \* SIGCHLD is pending
  reaping,           \* the threads that are in the handler
  merged,            \* the signals that found one pending (history)
  stopped            \* a child has been stopped by a signal (history)

sockVars == <<uses, task, listenFd, connFd, clientFd, connected, misused>>
childVars == <<child, handled, pending, reaping, merged, stopped>>
vars == <<logVars, sockVars, childVars>>

Init ==
  /\ LiblogInit
  /\ uses \in {"server", "client"}
  /\ task = [t \in Threads |-> "idle"]
  /\ listenFd = 0 /\ connFd = 0
  /\ clientFd \in IF uses = "client" THEN GarbageFds ELSE {0}
  /\ connected = FALSE /\ misused = FALSE
  /\ child = [c \in Children |-> "none"]
  /\ handled = FALSE /\ pending = FALSE /\ reaping = {}
  /\ merged = 0 /\ stopped = FALSE

(* A thread is at a step of its task, and not in a log call.                *)
At(t, step) == pc[t] = "idle" /\ task[t] = step
Then(t, step) == task' = [task EXCEPT ![t] = step]

(* What a step on the descriptors alone leaves as it is.                    *)
LogUnchanged == UNCHANGED <<write_to_log, logFd, pc, at, raced, broken>>

-----------------------------------------------------------------------------
(* The server: nativeOpen and startSocket.                                  *)
Serving == task[Main] \in {"accept", "accepting", "read", "callback", "java"}
ServerIsOpen == listenFd > 0

CallOpen ==
  /\ uses = "server" /\ At(Main, "idle") /\ LogWrite(Main) /\ Then(Main, "open")
  /\ UNCHANGED <<uses, listenFd, connFd, clientFd, connected, misused, childVars>>

(* isOpen asks for the number alone: a server that has ended has one too,   *)
(* and is not started again.                                                *)
AlreadyOpen ==
  /\ At(Main, "open") /\ ServerIsOpen /\ Then(Main, "idle")
  /\ UNCHANGED <<uses, logVars, listenFd, connFd, clientFd, connected, misused, childVars>>

Socket ==
  /\ At(Main, "open") /\ ~ServerIsOpen
  /\ \E fd \in Fds \cup {-1} : OpenFd("listen", fd) /\ listenFd' = fd
  /\ IF listenFd' < 0
     THEN Goto(Main, LogEntry, 1) /\ Then(Main, "idle")
     ELSE UNCHANGED <<pc, at>> /\ Then(Main, "bind")
  /\ UNCHANGED <<uses, write_to_log, logFd, raced, broken,
                 connFd, clientFd, connected, misused, childVars>>

(* bind and listen: the failure of either is logged and ends the same way.  *)
BindListen ==
  /\ At(Main, "bind")
  /\ \/ Then(Main, "accept") /\ UNCHANGED logVars
     \/ LogWrite(Main) /\ Then(Main, "closeListen")
  /\ UNCHANGED <<uses, listenFd, connFd, clientFd, connected, misused, childVars>>

(* accept holds the file it has found, even if the number is closed.        *)
CallAccept ==
  /\ At(Main, "accept")
  /\ \/ FileOf(listenFd) = "listen" /\ Then(Main, "accepting") /\ UNCHANGED connFd
     \/ FileOf(listenFd) # "listen" /\ connFd' = -1 /\ Then(Main, "closeConn")
  /\ UNCHANGED <<uses, logVars, listenFd, clientFd, connected, misused, childVars>>

Accept ==
  /\ At(Main, "accepting")
  /\ \E fd \in Fds \cup {-1} : OpenFd("conn", fd) /\ connFd' = fd
  /\ Then(Main, IF connFd' < 0 THEN "closeConn" ELSE "read")
  /\ LogUnchanged
  /\ UNCHANGED <<uses, listenFd, clientFd, connected, misused, childVars>>

(* Each of the two logs: startSocket what it read, callback what it gets.   *)
Receive(step, next) ==
  /\ At(Main, step) /\ LogWrite(Main) /\ Then(Main, next)
  /\ UNCHANGED <<uses, listenFd, connFd, clientFd, connected, misused, childVars>>

(* The loop goes on to the next connection and leaves this one open.        *)
Return ==
  /\ At(Main, "java") /\ Then(Main, "accept")
  /\ UNCHANGED <<uses, logVars, listenFd, connFd, clientFd, connected, misused, childVars>>

(* The labels at the end of startSocket; the numbers stay.                  *)
CloseAtEnd ==
  /\ \/ At(Main, "closeConn") /\ CloseFd(connFd) /\ Then(Main, "closeListen")
     \/ At(Main, "closeListen") /\ CloseFd(listenFd) /\ Then(Main, "idle")
  /\ LogUnchanged
  /\ UNCHANGED <<uses, listenFd, connFd, clientFd, connected, misused, childVars>>

-----------------------------------------------------------------------------
(* nativeClose of the server, in another thread than Main.                  *)
CallClose(t) ==
  /\ uses = "server" /\ t # Main /\ At(t, "idle") /\ LogWrite(t) /\ Then(t, "close")
  /\ UNCHANGED <<uses, listenFd, connFd, clientFd, connected, misused, childVars>>

(* The number is positive from socket() on: startSocket closes it as well.  *)
CloseListen(t) ==
  /\ At(t, "close")
  /\ \/ ServerIsOpen /\ CloseFd(listenFd) /\ Then(t, "closeConn") /\ misused' = TRUE
     \/ ~ServerIsOpen /\ Then(t, "idle") /\ UNCHANGED <<fdTable, misused>>
  /\ LogUnchanged
  /\ UNCHANGED <<uses, listenFd, connFd, clientFd, connected, childVars>>

CloseConn(t) ==
  /\ t # Main /\ At(t, "closeConn")
  /\ IF connFd > 0 THEN CloseFd(connFd) ELSE UNCHANGED fdTable
  /\ Then(t, "idle")
  /\ LogUnchanged
  /\ UNCHANGED <<uses, listenFd, connFd, clientFd, connected, misused, childVars>>

-----------------------------------------------------------------------------
(* The client.                                                              *)
CallClient(step) ==
  /\ uses = "client" /\ At(Main, "idle") /\ LogWrite(Main) /\ Then(Main, step)
  /\ UNCHANGED <<uses, listenFd, connFd, clientFd, connected, misused, childVars>>

ClientSocket ==
  /\ At(Main, "socket")
  /\ \E fd \in Fds \cup {-1} : OpenFd("client", fd) /\ clientFd' = fd
  /\ IF clientFd' < 0
     THEN Goto(Main, LogEntry, 1) /\ Then(Main, "idle")
     ELSE UNCHANGED <<pc, at>> /\ Then(Main, "connect")
  /\ connected' = FALSE
  /\ UNCHANGED <<uses, write_to_log, logFd, raced, broken, listenFd, connFd, misused, childVars>>

Connect ==
  /\ At(Main, "connect")
  /\ \/ connected' = TRUE /\ Then(Main, "idle") /\ UNCHANGED logVars
     \/ LogWrite(Main) /\ Then(Main, "drop") /\ UNCHANGED connected
  /\ UNCHANGED <<uses, listenFd, connFd, clientFd, misused, childVars>>

(* out_close_conn_fd: the number stays, and isOpen holds.                   *)
DropConnection ==
  /\ At(Main, "drop") /\ CloseFd(clientFd) /\ Then(Main, "idle")
  /\ LogUnchanged
  /\ UNCHANGED <<uses, listenFd, connFd, clientFd, connected, misused, childVars>>

ClientClose ==
  /\ At(Main, "disconnect")
  /\ \/ clientFd > 0 /\ CloseFd(clientFd) /\ misused' = (misused \/ ~connected)
     \/ clientFd <= 0 /\ UNCHANGED <<fdTable, misused>>
  /\ connected' = FALSE
  /\ Then(Main, "idle")
  /\ LogUnchanged
  /\ UNCHANGED <<uses, listenFd, connFd, clientFd, childVars>>

(* Any thread but Main logs for itself.                                     *)
JustLog(t) == t # Main /\ At(t, "idle") /\ LogWrite(t) /\ UNCHANGED <<sockVars, childVars>>

-----------------------------------------------------------------------------
(* Bug: the handler is set in the child alone. *)
ForkHandledInChild ==
  /\ uses = "server"
  /\ At(Main, "idle") \/ At(Main, "java")
  /\ handled' = handled
  /\ \/ \E c \in Children : child[c] = "none" /\ child' = [child EXCEPT ![c] = "alive"]
     \/ UNCHANGED child
  /\ UNCHANGED <<logVars, sockVars, pending, reaping, merged, stopped>>

(* Children. nativeForkSystemServer sets the handler, then forks or fails.  *)
Fork ==
  /\ uses = "server"
  /\ At(Main, "idle") \/ At(Main, "java")
  /\ handled' = TRUE
  /\ \/ \E c \in Children : child[c] = "none" /\ child' = [child EXCEPT ![c] = "alive"]
     \/ UNCHANGED child
  /\ UNCHANGED <<logVars, sockVars, pending, reaping, merged, stopped>>

(* The kernel keeps one pending SIGCHLD: one more is lost in it. Without a  *)
(* handler the signal is ignored.                                           *)
Raise ==
  /\ pending' = (pending \/ handled)
  /\ merged' = IF pending THEN merged + 1 ELSE merged

ChildEnds(c) ==
  /\ child[c] = "alive"
  /\ child' = [child EXCEPT ![c] = "zombie"]
  /\ Raise
  /\ UNCHANGED <<logVars, sockVars, handled, reaping, stopped>>

(* signal() does not set SA_NOCLDSTOP: a stop raises SIGCHLD as well.       *)
ChildStops(c) ==
  /\ child[c] = "alive" /\ ~stopped
  /\ stopped' = TRUE
  /\ Raise
  /\ UNCHANGED <<logVars, sockVars, child, handled, reaping>>

(* Any thread may get it, and only once at a time.                          *)
Deliver(t) ==
  /\ pending /\ t \notin reaping
  /\ pending' = FALSE
  /\ reaping' = reaping \cup {t}
  /\ UNCHANGED <<logVars, sockVars, child, handled, merged, stopped>>

Zombies == {c \in Children : child[c] = "zombie"}
Living  == {c \in Children : child[c] = "alive"}

(* signalHandler: one waitpid, which waits while there is only a living     *)
(* child, and fails when there is none.                                     *)
SignalHandler(t) ==
  /\ t \in reaping
  /\ \/ \E c \in Zombies : child' = [child EXCEPT ![c] = "gone"]
     \/ Zombies = {} /\ Living = {} /\ UNCHANGED child
  /\ reaping' = reaping \ {t}
  /\ UNCHANGED <<logVars, sockVars, handled, pending, merged, stopped>>

-----------------------------------------------------------------------------
ServerStep ==
  \/ CallOpen \/ AlreadyOpen \/ Socket \/ BindListen \/ CallAccept \/ Accept
  \/ Receive("read", "callback") \/ Receive("callback", "java")
  \/ Return \/ CloseAtEnd \/ Fork

ClientStep ==
  \/ CallClient("socket") \/ CallClient("disconnect")
  \/ ClientSocket \/ Connect \/ DropConnection \/ ClientClose

ThreadStep(t) ==
  \/ LogStep(t) /\ UNCHANGED <<sockVars, childVars>>
  \/ CallClose(t) \/ CloseListen(t) \/ CloseConn(t)
  \/ JustLog(t)

Next ==
  \/ Main \notin reaping /\ (ServerStep \/ ClientStep)
  \/ \E t \in Threads \ reaping : ThreadStep(t)
  \/ \E c \in Children : ChildEnds(c) \/ ChildStops(c)
  \/ \E t \in Threads : Deliver(t) \/ SignalHandler(t)

Spec == Init /\ [][Next]_vars

-----------------------------------------------------------------------------
(* Whoever has opened a file and not closed it finds it under its number:   *)
(* the logs once write_to_log goes to them directly, the server that        *)
(* listens, the client that is connected. So no line, message or accept     *)
(* goes to another file. Two things end it, neither of them guarded against *)
(* in the code: a thread that fails to open the logs while another is at it *)
(* (log.cpp:62), and closeSocket of a socket that its class has closed or   *)
(* will close (every nativeClose of the server, ZygoteSocketServer.cpp:28). *)
DescriptorsHeld ==
  ~broken /\ ~misused =>
    /\ write_to_log = "direct" /\ NobodyOpens =>
         \A i \in LogIds : FileOf(logFd[i]) = Logs[i]
    /\ Serving => FileOf(listenFd) = "listen"
    /\ connected => FileOf(clientFd) = "client"

(* As long as no two threads open them at once, the process has one         *)
(* descriptor for each log, and none while write_to_log_init has yet to     *)
(* succeed: a failure closes those it has opened (log.cpp:73).              *)
OneOpenPerLog ==
  ~raced /\ ~misused /\ NobodyOpens =>
    \A i \in LogIds :
      Cardinality({f \in Fds : fdTable[f] = Logs[i]}) =
        IF write_to_log = "direct" THEN 1 ELSE 0

(* signalHandler waits for one child for each signal it gets: while no      *)
(* child is stopped it finds one, so no thread is held up in it, and the    *)
(* zombies that nobody will reap are those whose signals were merged into   *)
(* a pending one (ZygoteInit.cpp:15).                                       *)
ZombiesAccounted ==
  ~stopped =>
    Cardinality(Zombies) = Cardinality(reaping) + merged + (IF pending THEN 1 ELSE 0)
=============================================================================

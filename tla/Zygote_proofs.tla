--------------------------- MODULE Zygote_proofs ---------------------------
(***************************************************************************)
(* For any threads, children, logs and size of the descriptor table. First  *)
(* the children: no zombie is lost but by a merged signal, and a thread     *)
(* that handles SIGCHLD finds a zombie.                                     *)
(*                                                                         *)
(* Then the descriptors: each is the file its holder opened, as long as no  *)
(* log was opened by two threads of which one failed and no socket was      *)
(* closed twice. DescriptorsHeld says it of the moments at which they are   *)
(* used; DInv says what holds of them at every step on the way, above all   *)
(* of logs that one thread opens anew over the ones that another has        *)
(* opened, and of a thread that closes its own after a failure. CInv is for *)
(* a process that opens them one thread at a time: it says which number     *)
(* holds which log, and that no other number holds one.                     *)
(***************************************************************************)
EXTENDS Zygote, FiniteSetTheorems, TLAPS

(* What the counting rests on: the handler is set before there is a child.  *)
ChildTypes ==
  /\ child \in [Children -> {"none", "alive", "zombie", "gone"}]
  /\ reaping \subseteq Threads
  /\ pending \in BOOLEAN /\ handled \in BOOLEAN /\ stopped \in BOOLEAN
  /\ merged \in Nat
  /\ handled \/ \A c \in Children : child[c] = "none"
  /\ pending => handled

ChildInv == ChildTypes /\ ZombiesAccounted

Pending == IF pending THEN 1 ELSE 0

LEMMA Finite ==
  ASSUME ChildTypes
  PROVE  /\ IsFiniteSet(Zombies) /\ IsFiniteSet(reaping)
         /\ Cardinality(Zombies) \in Nat /\ Cardinality(reaping) \in Nat
<1>1. IsFiniteSet(Zombies)
  BY FS_Subset, ZygoteAssumption DEF Zombies
<1>2. IsFiniteSet(reaping)
  BY FS_Subset, LiblogAssumption DEF ChildTypes
<1> QED  BY <1>1, <1>2, FS_CardinalityType

LEMMA ChildrenInit == Init => ChildInv
<1> SUFFICES ASSUME Init PROVE ChildInv  OBVIOUS
<1>1. ChildTypes  BY DEF Init, ChildTypes
<1>2. Zombies = {}  BY DEF Init, Zombies
<1>3. Cardinality({}) = 0  BY FS_EmptySet
<1> QED  BY <1>1, <1>2, <1>3 DEF Init, ChildInv, ZombiesAccounted

(* A child that ends makes a zombie and a signal.                           *)
LEMMA EndKeeps ==
  ASSUME ChildInv, NEW c \in Children, ChildEnds(c)
  PROVE  ChildInv'
<1> USE DEF ChildInv
<1>1. handled  BY DEF ChildEnds, ChildTypes
<1>2. ChildTypes'  BY <1>1 DEF ChildEnds, ChildTypes, Raise
<1>3. Zombies' = Zombies \cup {c} /\ c \notin Zombies
  BY DEF ChildEnds, ChildTypes, Zombies
<1>4. Cardinality(Zombies') = Cardinality(Zombies) + 1
  BY <1>3, Finite, FS_AddElement
<1>5. pending' /\ reaping' = reaping /\ stopped' = stopped
  BY <1>1 DEF ChildEnds, Raise
<1>6. Pending \in Nat /\ merged' = merged + Pending
  BY DEF ChildEnds, Raise, ChildTypes, Pending
<1>7. SUFFICES ASSUME ~stopped
               PROVE  Cardinality(Zombies') = Cardinality(reaping) + merged' + 1
  BY <1>2, <1>5 DEF ZombiesAccounted
<1>8. Cardinality(Zombies) = Cardinality(reaping) + merged + Pending
  BY <1>7 DEF ZombiesAccounted, Pending
<1>9. merged \in Nat /\ merged' \in Nat  BY <1>2 DEF ChildTypes
<1>10. Cardinality(Zombies) \in Nat /\ Cardinality(reaping) \in Nat  BY Finite
<1> QED  BY <1>4, <1>6, <1>8, <1>9, <1>10

(* Delivery moves the pending signal into a handler.                        *)
LEMMA DeliverKeeps ==
  ASSUME ChildInv, NEW t \in Threads, Deliver(t)
  PROVE  ChildInv'
<1> USE DEF ChildInv
<1>1. ChildTypes'  BY DEF Deliver, ChildTypes
<1>2. Cardinality(reaping') = Cardinality(reaping) + 1
  BY Finite, FS_AddElement DEF Deliver
<1>3. Zombies' = Zombies  BY DEF Deliver, Zombies
<1>4. ZombiesAccounted'
  BY <1>2, <1>3, Finite DEF Deliver, ZombiesAccounted, ChildTypes
<1> QED  BY <1>1, <1>4

(* A handler finds a zombie: it is counted among them.                      *)
LEMMA HandlerFindsZombie ==
  ASSUME ChildInv, ~stopped, reaping # {}
  PROVE  Zombies # {}
<1> USE DEF ChildInv
<1>1. Cardinality(reaping) # 0  BY Finite, FS_EmptySet
<1>2. Cardinality(Zombies) # 0
  BY <1>1, Finite DEF ZombiesAccounted, ChildTypes
<1> QED  BY <1>2, FS_EmptySet

LEMMA HandlerKeeps ==
  ASSUME ChildInv, NEW t \in Threads, SignalHandler(t)
  PROVE  ChildInv'
<1> USE DEF ChildInv
<1>1. ChildTypes'  BY DEF SignalHandler, ChildTypes, Zombies
<1>2. CASE stopped
  BY <1>1, <1>2 DEF SignalHandler, ZombiesAccounted
<1>3. CASE ~stopped
  <2>1. PICK c \in Zombies : child' = [child EXCEPT ![c] = "gone"]
    BY <1>3, HandlerFindsZombie DEF SignalHandler
  <2>2. Zombies' = Zombies \ {c}
    BY <2>1 DEF Zombies, ChildTypes
  <2>3. Cardinality(Zombies') = Cardinality(Zombies) - 1
    BY <2>2, Finite, FS_RemoveElement
  <2>4. Cardinality(reaping') = Cardinality(reaping) - 1
    BY Finite, FS_RemoveElement DEF SignalHandler
  <2>5. ZombiesAccounted'
    BY <2>3, <2>4, Finite DEF SignalHandler, ZombiesAccounted, ChildTypes
  <2> QED  BY <1>1, <2>5
<1> QED  BY <1>2, <1>3

LEMMA ForkKeeps ==
  ASSUME ChildInv, Fork
  PROVE  ChildInv'
<1> USE DEF ChildInv
<1>1. ChildTypes'  BY DEF Fork, ChildTypes
<1>2. Zombies' = Zombies  BY DEF Fork, Zombies, ChildTypes
<1>3. ZombiesAccounted'  BY <1>2 DEF Fork, ZombiesAccounted
<1> QED  BY <1>1, <1>3

LEMMA StopKeeps ==
  ASSUME ChildInv, NEW c \in Children, ChildStops(c)
  PROVE  ChildInv'
<1>1. handled  BY DEF ChildInv, ChildStops, ChildTypes
<1>2. ChildTypes'  BY <1>1 DEF ChildInv, ChildStops, ChildTypes, Raise
<1> QED  BY <1>2 DEF ChildInv, ChildStops, ZombiesAccounted

(* Sockets and logs leave the children alone.                               *)
LEMMA ChildrenUnaware ==
  ASSUME ChildInv, UNCHANGED childVars
  PROVE  ChildInv'
BY DEF ChildInv, childVars, ChildTypes, ZombiesAccounted, Zombies

LEMMA ChildrenStep ==
  ASSUME ChildInv, [Next]_vars
  PROVE  ChildInv'
<1>1. CASE UNCHANGED vars  BY <1>1, ChildrenUnaware DEF vars
<1>2. CASE ServerStep
  BY <1>2, ChildrenUnaware, ForkKeeps
  DEF ServerStep, CallOpen, AlreadyOpen, Socket, BindListen, CallAccept, Accept, Receive,
      Return, CloseAtEnd
<1>3. CASE ClientStep
  BY <1>3, ChildrenUnaware
  DEF ClientStep, CallClient, ClientSocket, Connect, DropConnection, ClientClose
<1>4. ASSUME NEW t \in Threads, ThreadStep(t) PROVE ChildInv'
  BY <1>4, ChildrenUnaware DEF ThreadStep, CallClose, CloseListen, CloseConn, JustLog
<1> QED
  BY <1>1, <1>2, <1>3, <1>4, EndKeeps, StopKeeps, DeliverKeeps, HandlerKeeps DEF Next

(* Without a stopped child, the zombies are those that a pending or running *)
(* handler will reap and those of merged signals (signalHandler of          *)
(* ZygoteInit.cpp).                                                         *)
THEOREM ZombiesAreAccounted == Spec => []ZombiesAccounted
<1>1. ChildInv => ZombiesAccounted  BY DEF ChildInv
<1> QED  BY <1>1, ChildrenInit, ChildrenStep, PTL DEF Spec

(* And no thread is held up in signalHandler: there is a zombie for its     *)
(* waitpid.                                                                 *)
THEOREM HandlerNeverWaits == Spec => [](~stopped /\ reaping # {} => Zombies # {})
<1>1. ChildInv => (~stopped /\ reaping # {} => Zombies # {})  BY HandlerFindsZombie
<1> QED  BY <1>1, ChildrenInit, ChildrenStep, PTL DEF Spec

-----------------------------------------------------------------------------
Files == Kinds \cup {Logs[i] : i \in LogIds}
Pcs == {"idle", "test", "open", "check", "publish", "close", "reset", "write"}
FileIn(table, fd) == IF fd \in Fds THEN table[fd] ELSE "none"

DescriptorTypes ==
  /\ fdTable \in [Fds -> Files]
  /\ write_to_log \in {"init", "direct"}
  /\ logFd \in [LogIds -> Fds \cup {-1}]
  /\ pc \in [Threads -> Pcs]
  /\ at \in [Threads -> LogIds]

(* Who runs what: only nativeClose leaves a thread but Main at closeConn.   *)
TaskTypes ==
  /\ DOMAIN task = Threads
  /\ task[Main] # "close"
  /\ \A t \in Threads \ {Main} :
       /\ task[t] \in {"idle", "close", "closeConn"}
       /\ task[t] = "closeConn" => misused

Sound(i) == logFd[i] = -1 \/ FileIn(fdTable, logFd[i]) = Logs[i]

(* No thread has come to log i yet.                                         *)
Untouched(i) ==
  /\ write_to_log = "init"
  /\ \A t \in Threads : Opening(t) => pc[t] = "open" /\ at[t] <= i

Closed(i) == \E t \in Threads : pc[t] = "reset" \/ (pc[t] = "close" /\ i < at[t])

OneFails == \A t, u \in Threads : Failing(t) /\ Opening(u) => t = u
FailsInInit == \A t \in Threads : Failing(t) => write_to_log = "init"
LogsSound == \A i \in LogIds : Sound(i) \/ Untouched(i) \/ Closed(i)

(* Once some thread has found all of them open, only one that opens again   *)
(* can have put -1 there, and it has its own check before it.               *)
MissingSeen ==
  (write_to_log = "direct" \/ \E t \in Threads : pc[t] = "publish") =>
    \/ \E t \in Threads : pc[t] \in {"open", "check"}
    \/ \A i \in LogIds : logFd[i] # -1

LogPart == OneFails /\ FailsInInit /\ LogsSound /\ MissingSeen

Listening == {"bind", "accept", "accepting", "read", "callback", "java",
              "closeConn", "closeListen"}

SocketPart ==
  /\ task[Main] \in Listening => FileIn(fdTable, listenFd) = "listen"
  /\ task[Main] = "closeConn" => connFd = -1
  /\ connected \/ task[Main] \in {"connect", "drop"} => FileIn(fdTable, clientFd) = "client"
  /\ task[Main] \in {"connect", "drop"} => ~connected

DInv ==
  /\ DescriptorTypes /\ TaskTypes
  /\ ~broken /\ ~misused => LogPart /\ SocketPart

(* The logs that the process has open now: those one thread has come to, or *)
(* all of them.                                                             *)
Ours(i) ==
  \/ write_to_log = "direct"
  \/ \E t \in Threads : \/ pc[t] \in {"check", "publish"}
                        \/ pc[t] = "open" /\ i < at[t]
                        \/ pc[t] = "close" /\ at[t] <= i

OpenedOnce == \A i \in LogIds : \A f \in Fds : fdTable[f] = Logs[i] <=> Ours(i) /\ f = logFd[i]
OneOpens == \A t, u \in Threads : Opening(t) /\ Opening(u) => t = u
OpensInInit == \A t \in Threads : Opening(t) => write_to_log = "init"
NoneMissing ==
  (write_to_log = "direct" \/ \E t \in Threads : pc[t] = "publish") =>
    \A i \in LogIds : logFd[i] # -1

OpenPart == OpenedOnce /\ OneOpens /\ OpensInInit /\ NoneMissing

CInv == ~raced /\ ~misused => ~broken /\ OpenPart

-----------------------------------------------------------------------------
LEMMA OpenedKeeps ==
  ASSUME DescriptorTypes, NEW file \in Files, NEW fd \in Fds \cup {-1}, OpenFd(file, fd)
  PROVE  /\ fdTable' \in [Fds -> Files]
         /\ \A g : FileIn(fdTable, g) # "free" => FileIn(fdTable', g) = FileIn(fdTable, g)
         /\ \A g : FileIn(fdTable', g) # FileIn(fdTable, g) => g = fd
         /\ fd = -1 \/ FileIn(fdTable', fd) = file
BY LiblogAssumption DEF DescriptorTypes, OpenFd, FileIn, FreeFds, Fds

LEMMA ClosedKeeps ==
  ASSUME DescriptorTypes, NEW fd, CloseFd(fd)
  PROVE  /\ fdTable' \in [Fds -> Files]
         /\ \A g : FileIn(fdTable, g) # FileIn(fdTable, fd) =>
                     FileIn(fdTable', g) = FileIn(fdTable, g)
         /\ \A g : FileIn(fdTable', g) \in {FileIn(fdTable, g), "free"}
         /\ fd \in Fds => FileIn(fdTable', fd) = "free"
BY DEF DescriptorTypes, CloseFd, FileIn, Files, Kinds

(* A step that opens nothing of the logs and takes none of them keeps what  *)
(* holds of them.                                                           *)
LEMMA LogFrame ==
  ASSUME LogPart, DescriptorTypes,
         write_to_log' = write_to_log, logFd' = logFd,
         \A t \in Threads :
           \/ pc'[t] = pc[t] /\ at'[t] = at[t]
           \/ /\ pc[t] \in {"idle", "test", "write"}
              /\ pc'[t] \in {"idle", "test", "write"},
         \A g : \A i \in LogIds : FileIn(fdTable, g) = Logs[i] => FileIn(fdTable', g) = Logs[i]
  PROVE  LogPart'
<1>1. OneFails' /\ FailsInInit'
  BY DEF LogPart, OneFails, FailsInInit, Failing, Opening
<1>2. \A i \in LogIds : Sound(i) => Sound(i)'  BY DEF Sound
<1>3. \A i \in LogIds : Untouched(i) => Untouched(i)'  BY DEF Untouched, Opening
<1>4. \A i \in LogIds : Closed(i) => Closed(i)'  BY DEF Closed
<1>5. MissingSeen'  BY DEF LogPart, MissingSeen
<1> QED  BY <1>1, <1>2, <1>3, <1>4, <1>5 DEF LogPart, LogsSound

(* The steps of the opening thread touch no socket.                         *)
LEMMA OpeningFrame ==
  ASSUME DInv, NEW t \in Threads, ~broken, ~misused,
         UNCHANGED <<task, listenFd, connFd, clientFd, connected>>,
         \A g : FileIn(fdTable, g) \in {"listen", "client"} =>
                  FileIn(fdTable', g) = FileIn(fdTable, g)
  PROVE  SocketPart'
BY DEF DInv, SocketPart

LEMMA TasksKept ==
  ASSUME TaskTypes, UNCHANGED <<task, misused>>
  PROVE  TaskTypes'
BY DEF TaskTypes

LEMMA GotoKeeps ==
  ASSUME DescriptorTypes, NEW t \in Threads, NEW step \in Pcs, NEW i \in LogIds, Goto(t, step, i)
  PROVE  /\ pc' \in [Threads -> Pcs] /\ at' \in [Threads -> LogIds]
         /\ pc'[t] = step /\ at'[t] = i
         /\ \A u \in Threads \ {t} : pc'[u] = pc[u] /\ at'[u] = at[u]
BY DEF DescriptorTypes, Goto

LEMMA LogIdsRange == 1 \in LogIds /\ LogIds = 1 .. Len(Logs) /\ Len(Logs) \in Nat
BY LiblogAssumption DEF LogIds

LEMMA AskInitKeeps ==
  ASSUME DInv, NEW t \in Threads, AskInit(t), UNCHANGED sockVars
  PROVE  DInv'
<1> USE DEF DInv, sockVars
<1>1. PICK step \in {"open", "write"} : Goto(t, step, 1) /\ (step = "open" => write_to_log = "init")
  BY DEF AskInit
<1>2. DescriptorTypes'  BY <1>1, GotoKeeps, LogIdsRange DEF AskInit, DescriptorTypes, Pcs
<1>3. TaskTypes'  BY TasksKept
<1>4. SUFFICES ASSUME ~broken', ~misused'  PROVE LogPart' /\ SocketPart'
  BY <1>2, <1>3
<1>5. ~broken /\ ~misused
  <2>1. broken => broken'  BY Zenon DEF AskInit
  <2> QED  BY <1>4, <2>1
<1>6. SocketPart'  BY <1>5, OpeningFrame DEF AskInit
<1>7. \A u \in Threads \ {t} : pc'[u] = pc[u] /\ at'[u] = at[u]
  BY <1>1, GotoKeeps, LogIdsRange DEF Pcs
<1>8. pc'[t] = step /\ at'[t] = 1  BY <1>1, GotoKeeps, LogIdsRange DEF Pcs
<1>9. pc[t] = "test"  BY DEF AskInit
<1>10. CASE step = "write"
  <2>1. \A g : FileIn(fdTable', g) = FileIn(fdTable, g)  BY DEF AskInit
  <2>2. LogPart'
    BY <1>5, <1>7, <1>8, <1>9, <1>10, <2>1, LogFrame DEF AskInit
  <2> QED  BY <1>6, <2>2
<1>11. CASE step = "open"
  <2>1. \A u \in Threads \ {t} : ~Failing(u)
    BY <1>1, <1>4, <1>8, <1>11 DEF AskInit, Goto, DescriptorTypes
  <2>2. \A u \in Threads : ~Failing(u) /\ ~Failing(u)'
    BY <2>1, <1>7, <1>8, <1>9, <1>11 DEF Failing
  <2>3. (OneFails /\ FailsInInit)'  BY <2>2 DEF OneFails, FailsInInit
  <2>4. \A i \in LogIds : Sound(i) => Sound(i)'  BY DEF AskInit, Sound
  <2>5. \A i \in LogIds : Untouched(i) => Untouched(i)'
    BY <1>7, <1>8, <1>11, LogIdsRange DEF AskInit, Untouched, Opening
  <2>6. \A i \in LogIds : ~Closed(i)  BY <2>2 DEF Closed, Failing
  <2>7. LogsSound'  BY <1>5, <2>4, <2>5, <2>6 DEF LogPart, LogsSound
  <2>8. MissingSeen'  BY <1>8, <1>11 DEF MissingSeen
  <2> QED  BY <1>6, <2>3, <2>7, <2>8 DEF LogPart
<1> QED  BY <1>10, <1>11

LEMMA OpenDeviceKeeps ==
  ASSUME DInv, NEW t \in Threads, OpenDevice(t), UNCHANGED sockVars
  PROVE  DInv'
<1> USE DEF DInv, sockVars
<1>0. PICK k \in LogIds : k = at[t] /\ Logs[k] \in Files  BY DEF DescriptorTypes, Files
<1>1. PICK fd \in Fds \cup {-1} : OpenFd(Logs[k], fd) /\ logFd' = [logFd EXCEPT ![k] = fd]
  BY <1>0 DEF OpenDevice
<1>2. PICK step \in {"open", "check"}, n \in LogIds :
        /\ Goto(t, step, n)
        /\ step = "open" => k < Len(Logs) /\ n = k + 1
        /\ step = "check" => k = Len(Logs)
  BY <1>0, LogIdsRange DEF OpenDevice
<1>3. /\ pc' \in [Threads -> Pcs] /\ at' \in [Threads -> LogIds]
      /\ pc'[t] = step /\ at'[t] = n
      /\ \A u \in Threads \ {t} : pc'[u] = pc[u] /\ at'[u] = at[u]
  BY <1>2, GotoKeeps DEF Pcs
<1>4. /\ fdTable' \in [Fds -> Files]
      /\ \A g : FileIn(fdTable, g) # "free" => FileIn(fdTable', g) = FileIn(fdTable, g)
      /\ fd = -1 \/ FileIn(fdTable', fd) = Logs[k]
  BY <1>0, <1>1, OpenedKeeps
<1>5. DescriptorTypes'  BY <1>0, <1>1, <1>3, <1>4 DEF DescriptorTypes, OpenDevice
<1>6. TaskTypes'  BY TasksKept
<1>7. SUFFICES ASSUME ~broken, ~misused  PROVE LogPart' /\ SocketPart'
  BY <1>5, <1>6 DEF OpenDevice
<1>8. SocketPart'  BY <1>4, <1>7, OpeningFrame DEF OpenDevice
<1>9. pc[t] = "open"  BY DEF OpenDevice
<1>10. \A u \in Threads : ~Failing(u) /\ ~Failing(u)'
  BY <1>3, <1>7, <1>9 DEF LogPart, OneFails, Failing, Opening
<1>11. (OneFails /\ FailsInInit)'  BY <1>10 DEF OneFails, FailsInInit
<1>12. Sound(k)'  BY <1>0, <1>1, <1>4 DEF Sound, DescriptorTypes
<1>13. \A i \in LogIds \ {k} : Sound(i) => Sound(i)'
  BY <1>0, <1>1, <1>4, LiblogAssumption DEF Sound, DescriptorTypes, Kinds, LogIds
<1>14. \A i \in LogIds \ {k} : Untouched(i) => Untouched(i)'
  BY <1>0, <1>2, <1>3, <1>9, LogIdsRange DEF Untouched, Opening, OpenDevice
<1>15. \A i \in LogIds : ~Closed(i)  BY <1>10 DEF Closed, Failing
<1>16. LogsSound'  BY <1>7, <1>12, <1>13, <1>14, <1>15 DEF LogPart, LogsSound
<1>17. MissingSeen'  BY <1>3 DEF MissingSeen
<1> QED  BY <1>8, <1>11, <1>16, <1>17 DEF LogPart

LEMMA CheckOpenKeeps ==
  ASSUME DInv, NEW t \in Threads, CheckOpen(t), UNCHANGED sockVars
  PROVE  DInv'
<1> USE DEF DInv, sockVars
<1>1. PICK step \in {"publish", "close"} : Goto(t, step, 1) /\ (step = "publish" <=> AllOpen)
  BY DEF CheckOpen
<1>2. /\ pc' \in [Threads -> Pcs] /\ at' \in [Threads -> LogIds]
      /\ pc'[t] = step /\ at'[t] = 1
      /\ \A u \in Threads \ {t} : pc'[u] = pc[u] /\ at'[u] = at[u]
  BY <1>1, GotoKeeps, LogIdsRange DEF Pcs
<1>3. DescriptorTypes' /\ TaskTypes'
  BY <1>2, TasksKept DEF DescriptorTypes, CheckOpen
<1>4. SUFFICES ASSUME ~broken', ~misused'  PROVE LogPart' /\ SocketPart'
  BY <1>3
<1>5. ~broken /\ ~misused
  <2>1. broken => broken'  BY Zenon DEF CheckOpen
  <2> QED  BY <1>4, <2>1
<1>6. SocketPart'  BY <1>5, OpeningFrame DEF CheckOpen
<1>7. pc[t] = "check"  BY DEF CheckOpen
<1>8. \A u \in Threads : ~Failing(u)
  BY <1>5, <1>7 DEF LogPart, OneFails, Failing, Opening
<1>9. \A i \in LogIds : Sound(i)
  BY <1>5, <1>7, <1>8 DEF LogPart, LogsSound, Untouched, Closed, Failing, Opening
<1>10. LogsSound'  BY <1>9 DEF LogsSound, Sound, CheckOpen
<1>11. CASE AllOpen
  <2>1. \A u \in Threads : ~Failing(u)'
    BY <1>1, <1>2, <1>8, <1>11 DEF Failing
  <2>2. MissingSeen'
    BY <1>11 DEF AllOpen, MissingSeen, CheckOpen
  <2> QED  BY <1>6, <1>10, <2>1, <2>2 DEF LogPart, OneFails, FailsInInit
<1>12. CASE ~AllOpen
  <2>1. write_to_log # "direct" /\ \A u \in Threads \ {t} : ~Opening(u)
    <3>1. broken' = (broken \/ (~AllOpen /\ (write_to_log = "direct" \/ \E u \in Threads \ {t} : Opening(u))))
      BY DEF CheckOpen
    <3> QED  BY <1>4, <1>12, <3>1, Zenon
  <2>2. write_to_log' = "init"  BY <2>1 DEF DescriptorTypes, CheckOpen
  <2>3. \A u \in Threads \ {t} : ~Opening(u)' /\ ~Failing(u)'
    BY <1>2, <2>1 DEF Opening, Failing
  <2>4. MissingSeen'
    BY <1>1, <1>2, <1>12, <2>2, <2>3 DEF MissingSeen, Opening
  <2> QED  BY <1>6, <1>10, <2>2, <2>3, <2>4 DEF LogPart, OneFails, FailsInInit
<1> QED  BY <1>11, <1>12

LEMMA PublishKeeps ==
  ASSUME DInv, NEW t \in Threads, Publish(t), UNCHANGED sockVars
  PROVE  DInv'
<1> USE DEF DInv, sockVars
<1>1. Goto(t, "write", 1) /\ pc[t] = "publish"  BY DEF Publish
<1>2. /\ pc' \in [Threads -> Pcs] /\ at' \in [Threads -> LogIds]
      /\ pc'[t] = "write" /\ at'[t] = 1
      /\ \A u \in Threads \ {t} : pc'[u] = pc[u] /\ at'[u] = at[u]
  BY <1>1, GotoKeeps, LogIdsRange DEF Pcs
<1>3. DescriptorTypes' /\ TaskTypes'
  BY <1>2, TasksKept DEF DescriptorTypes, Publish
<1>4. SUFFICES ASSUME ~broken, ~misused  PROVE LogPart' /\ SocketPart'
  BY <1>3 DEF Publish
<1>5. SocketPart'  BY <1>4, OpeningFrame DEF Publish
<1>6. \A u \in Threads : ~Failing(u) /\ ~Failing(u)'
  BY <1>1, <1>2, <1>4 DEF LogPart, OneFails, Failing, Opening
<1>7. \A i \in LogIds : Sound(i)
  BY <1>1, <1>4, <1>6 DEF LogPart, LogsSound, Untouched, Closed, Failing, Opening
<1>8. LogsSound'  BY <1>7 DEF LogsSound, Sound, Publish
<1>9. MissingSeen'
  BY <1>1, <1>2, <1>4 DEF LogPart, MissingSeen, Publish
<1> QED  BY <1>5, <1>6, <1>8, <1>9 DEF LogPart, OneFails, FailsInInit

LEMMA CloseDeviceKeeps ==
  ASSUME DInv, NEW t \in Threads, CloseDevice(t), UNCHANGED sockVars
  PROVE  DInv'
<1> USE DEF DInv, sockVars
<1>0. PICK k \in LogIds : k = at[t]  BY DEF DescriptorTypes
<1>1. PICK step \in {"close", "reset"}, n \in LogIds :
        /\ Goto(t, step, n)
        /\ step = "close" => k < Len(Logs) /\ n = k + 1
        /\ step = "reset" => k = Len(Logs)
  BY <1>0, LogIdsRange DEF CloseDevice
<1>2. /\ pc' \in [Threads -> Pcs] /\ at' \in [Threads -> LogIds]
      /\ pc'[t] = step /\ at'[t] = n
      /\ \A u \in Threads \ {t} : pc'[u] = pc[u] /\ at'[u] = at[u]
  BY <1>1, GotoKeeps DEF Pcs
<1>3. /\ fdTable' \in [Fds -> Files]
      /\ \A g : FileIn(fdTable, g) # FileIn(fdTable, logFd[k]) =>
                  FileIn(fdTable', g) = FileIn(fdTable, g)
  BY <1>0, ClosedKeeps DEF CloseDevice
<1>4. DescriptorTypes' /\ TaskTypes'
  BY <1>2, <1>3, TasksKept DEF DescriptorTypes, CloseDevice
<1>5. SUFFICES ASSUME ~broken, ~misused  PROVE LogPart' /\ SocketPart'
  BY <1>4 DEF CloseDevice
<1>6. pc[t] = "close"  BY DEF CloseDevice
<1>7. /\ \A u \in Threads \ {t} : ~Opening(u) /\ ~Failing(u)
      /\ write_to_log = "init"
  BY <1>5, <1>6 DEF LogPart, OneFails, FailsInInit, Failing, Opening
<1>8. \A i \in LogIds : i >= k => Sound(i)
  BY <1>0, <1>5, <1>6, <1>7, LogIdsRange
  DEF LogPart, LogsSound, Untouched, Closed, Failing, Opening
<1>9. FileIn(fdTable, logFd[k]) \in {"none", Logs[k]}
  BY <1>8, LogIdsRange DEF Sound, FileIn, Fds
<1>10. SocketPart'
  BY <1>3, <1>5, <1>9, OpeningFrame, LiblogAssumption DEF CloseDevice, LogIds, Kinds
<1>11. \A u \in Threads \ {t} : ~Opening(u)' /\ ~Failing(u)'
  BY <1>2, <1>7 DEF Opening, Failing
<1>12. write_to_log' = "init"  BY <1>7 DEF CloseDevice
<1>13. ASSUME NEW i \in LogIds  PROVE (Sound(i) \/ Closed(i))'
  <2>1. CASE i <= k  BY <1>1, <1>2, <2>1, LogIdsRange DEF Closed
  <2>2. CASE i > k
    <3>1. Sound(i) /\ Logs[i] # Logs[k] /\ Logs[i] # "none"
      BY <1>8, <2>2, LogIdsRange, LiblogAssumption DEF LogIds
    <3> QED  BY <1>3, <1>9, <3>1 DEF Sound, CloseDevice
  <2> QED  BY <2>1, <2>2, LogIdsRange
<1>14. LogsSound'  BY <1>13 DEF LogsSound
<1>15. MissingSeen'
  BY <1>1, <1>2, <1>11, <1>12 DEF MissingSeen, Opening
<1> QED  BY <1>10, <1>11, <1>12, <1>14, <1>15 DEF LogPart, OneFails, FailsInInit

LEMMA ResetFdsKeeps ==
  ASSUME DInv, NEW t \in Threads, ResetFds(t), UNCHANGED sockVars
  PROVE  DInv'
<1> USE DEF DInv, sockVars
<1>1. Goto(t, "idle", 1) /\ pc[t] = "reset"  BY DEF ResetFds
<1>2. /\ pc' \in [Threads -> Pcs] /\ at' \in [Threads -> LogIds]
      /\ pc'[t] = "idle" /\ at'[t] = 1
      /\ \A u \in Threads \ {t} : pc'[u] = pc[u] /\ at'[u] = at[u]
  BY <1>1, GotoKeeps, LogIdsRange DEF Pcs
<1>3. DescriptorTypes' /\ TaskTypes'
  BY <1>2, TasksKept DEF DescriptorTypes, ResetFds
<1>4. SUFFICES ASSUME ~broken, ~misused  PROVE LogPart' /\ SocketPart'
  BY <1>3 DEF ResetFds
<1>5. SocketPart'  BY <1>4, OpeningFrame DEF ResetFds
<1>6. /\ \A u \in Threads \ {t} : ~Opening(u) /\ ~Failing(u)
      /\ write_to_log = "init"
  BY <1>1, <1>4 DEF LogPart, OneFails, FailsInInit, Failing, Opening
<1>7. \A u \in Threads : ~Opening(u)' /\ ~Failing(u)'
  BY <1>2, <1>6 DEF Opening, Failing
<1>8. LogsSound'  BY DEF LogsSound, Sound, ResetFds
<1>9. MissingSeen'  BY <1>6, <1>7 DEF MissingSeen, Opening, ResetFds
<1> QED  BY <1>5, <1>7, <1>8, <1>9 DEF LogPart, OneFails, FailsInInit

LEMMA WriteToLogKeeps ==
  ASSUME DInv, NEW t \in Threads, WriteToLog(t), UNCHANGED sockVars
  PROVE  DInv'
<1> USE DEF DInv, sockVars
<1>1. Goto(t, "idle", 1) /\ pc[t] = "write"  BY DEF WriteToLog
<1>2. /\ pc' \in [Threads -> Pcs] /\ at' \in [Threads -> LogIds]
      /\ pc'[t] = "idle"
      /\ \A u \in Threads \ {t} : pc'[u] = pc[u] /\ at'[u] = at[u]
  BY <1>1, GotoKeeps, LogIdsRange DEF Pcs
<1>3. DescriptorTypes' /\ TaskTypes'
  BY <1>2, TasksKept DEF DescriptorTypes, WriteToLog
<1>4. SUFFICES ASSUME ~broken, ~misused  PROVE LogPart' /\ SocketPart'
  BY <1>3 DEF WriteToLog
<1>5. SocketPart'  BY <1>4, OpeningFrame DEF WriteToLog
<1>6. LogPart'
  BY <1>1, <1>2, <1>4, LogFrame DEF WriteToLog
<1> QED  BY <1>5, <1>6

-----------------------------------------------------------------------------
(* The same steps, while the threads open the logs one after the other.     *)
LEMMA AskInitOpens ==
  ASSUME DInv, CInv, NEW t \in Threads, AskInit(t), UNCHANGED sockVars
  PROVE  CInv'
<1> USE DEF DInv, sockVars
<1>1. PICK step \in {"open", "write"} : Goto(t, step, 1) /\ (step = "open" => write_to_log = "init")
  BY DEF AskInit
<1>2. /\ pc'[t] = step /\ at'[t] = 1 /\ pc[t] = "test"
      /\ \A u \in Threads \ {t} : pc'[u] = pc[u] /\ at'[u] = at[u]
  BY <1>1, GotoKeeps, LogIdsRange DEF AskInit, Pcs
<1>3. SUFFICES ASSUME ~raced', ~misused'  PROVE ~broken' /\ OpenPart'
  BY DEF CInv
<1>4. ~raced /\ (step = "open" => \A u \in Threads \ {t} : ~Opening(u))
  <2>1. \/ step = "open" /\ raced' = (raced \/ \E u \in Threads \ {t} : Opening(u))
        \/ step = "write" /\ raced' = raced
    BY <1>1, <1>2 DEF AskInit, Goto, DescriptorTypes
  <2>2. CASE raced' = (raced \/ \E u \in Threads \ {t} : Opening(u))
    BY <1>3, <2>2, Zenon
  <2>3. CASE step = "write" /\ raced' = raced  BY <1>3, <2>3
  <2> QED  BY <2>1, <2>2, <2>3
<1>5. ~broken /\ OpenPart  BY <1>3, <1>4 DEF CInv
<1>6. ~broken'
  <2>1. \/ broken' = (broken \/ \E u \in Threads \ {t} : Failing(u)) /\ step = "open"
        \/ broken' = broken
    BY <1>1, <1>2 DEF AskInit, Goto, DescriptorTypes
  <2>2. step = "open" => \A u \in Threads \ {t} : ~Failing(u)
    BY <1>4 DEF Opening, Failing
  <2> QED  BY <1>5, <2>1, <2>2, Zenon
<1>7. \A i \in LogIds : Ours(i)' <=> Ours(i)
  BY <1>2, LogIdsRange DEF Ours, AskInit
<1>8. OpenedOnce'  BY <1>5, <1>7 DEF OpenPart, OpenedOnce, AskInit
<1>9. (OneOpens /\ OpensInInit /\ NoneMissing)'
  BY <1>1, <1>2, <1>4, <1>5 DEF OpenPart, OneOpens, OpensInInit, NoneMissing, Opening, AskInit
<1> QED  BY <1>6, <1>8, <1>9 DEF OpenPart

LEMMA OpenDeviceOpens ==
  ASSUME DInv, CInv, NEW t \in Threads, OpenDevice(t), UNCHANGED sockVars
  PROVE  CInv'
<1> USE DEF DInv, sockVars
<1>1. SUFFICES ASSUME ~broken, ~misused, OpenPart  PROVE OpenPart'
  BY DEF CInv, OpenDevice
<1>2. PICK k \in LogIds : k = at[t] /\ Logs[k] \in Files  BY DEF DescriptorTypes, Files
<1>3. PICK fd \in Fds \cup {-1} : OpenFd(Logs[k], fd) /\ logFd' = [logFd EXCEPT ![k] = fd]
  BY <1>2 DEF OpenDevice
<1>4. PICK step \in {"open", "check"}, n \in LogIds :
        /\ Goto(t, step, n)
        /\ step = "open" => k < Len(Logs) /\ n = k + 1
        /\ step = "check" => k = Len(Logs)
  BY <1>2, LogIdsRange DEF OpenDevice
<1>5. /\ pc[t] = "open" /\ pc'[t] = step /\ at'[t] = n
      /\ \A u \in Threads \ {t} : pc'[u] = pc[u] /\ at'[u] = at[u]
  BY <1>4, GotoKeeps DEF Pcs, OpenDevice
<1>6. write_to_log = "init" /\ \A u \in Threads \ {t} : ~Opening(u) /\ ~Opening(u)'
  BY <1>1, <1>5 DEF OpenPart, OneOpens, OpensInInit, Opening
<1>7. \A i \in LogIds : Ours(i) <=> i < k
  BY <1>2, <1>5, <1>6, LogIdsRange DEF Ours, Opening
<1>8. \A i \in LogIds : Ours(i)' <=> i <= k
  BY <1>4, <1>5, <1>6, LogIdsRange DEF Ours, Opening, OpenDevice
<1>9. ASSUME NEW i \in LogIds, NEW f \in Fds
      PROVE  fdTable'[f] = Logs[i] <=> i <= k /\ f = logFd'[i]
  <2>1. fdTable[f] = Logs[i] <=> i < k /\ f = logFd[i]
    BY <1>1, <1>7, <1>9 DEF OpenPart, OpenedOnce
  <2>2. logFd'[k] = fd /\ (i # k => logFd'[i] = logFd[i])
    BY <1>3 DEF DescriptorTypes
  <2>3. CASE fd = -1
    <3>1. fdTable' = fdTable /\ f # fd  BY <1>3, <2>3, LiblogAssumption DEF OpenFd, FreeFds, Fds
    <3> QED  BY <2>1, <2>2, <3>1, LogIdsRange
  <2>4. CASE fd # -1
    <3>1. fdTable' = [fdTable EXCEPT ![fd] = Logs[k]] /\ fdTable[fd] = "free"
      BY <1>3, <2>4 DEF OpenFd, FreeFds
    <3>2. /\ fdTable'[f] = IF f = fd THEN Logs[k] ELSE fdTable[f]
          /\ f = fd => fdTable[f] = "free"
      BY <3>1 DEF DescriptorTypes
    <3>3. Logs[i] # "free" /\ (Logs[i] = Logs[k] => i = k)
      BY LiblogAssumption DEF LogIds, Kinds
    <3> QED  BY <2>1, <2>2, <3>2, <3>3, LogIdsRange
  <2> QED  BY <2>3, <2>4
<1>10. OpenedOnce'  BY <1>8, <1>9 DEF OpenedOnce
<1>11. (OneOpens /\ OpensInInit /\ NoneMissing)'
  BY <1>5, <1>6 DEF OneOpens, OpensInInit, NoneMissing, Opening, OpenDevice
<1> QED  BY <1>10, <1>11 DEF OpenPart

LEMMA CheckOpenOpens ==
  ASSUME DInv, CInv, NEW t \in Threads, CheckOpen(t), UNCHANGED sockVars
  PROVE  CInv'
<1> USE DEF DInv, sockVars
<1>1. SUFFICES ASSUME ~broken, ~misused, OpenPart  PROVE ~broken' /\ OpenPart'
  BY DEF CInv, CheckOpen
<1>2. PICK step \in {"publish", "close"} : Goto(t, step, 1) /\ (step = "publish" <=> AllOpen)
  BY DEF CheckOpen
<1>3. /\ pc[t] = "check" /\ pc'[t] = step /\ at'[t] = 1
      /\ \A u \in Threads \ {t} : pc'[u] = pc[u] /\ at'[u] = at[u]
  BY <1>2, GotoKeeps, LogIdsRange DEF Pcs, CheckOpen
<1>4. write_to_log # "direct" /\ \A u \in Threads \ {t} : ~Opening(u) /\ ~Opening(u)'
  BY <1>1, <1>3 DEF OpenPart, OneOpens, OpensInInit, Opening
<1>5. ~broken'
  <2>1. broken' = (broken \/ (~AllOpen /\ (write_to_log = "direct" \/ \E u \in Threads \ {t} : Opening(u))))
    BY DEF CheckOpen
  <2> QED  BY <1>1, <1>4, <2>1, Zenon
<1>6. \A i \in LogIds : Ours(i)' <=> Ours(i)
  BY <1>2, <1>3, <1>4, LogIdsRange DEF Ours, Opening, CheckOpen
<1>7. OpenedOnce'  BY <1>1, <1>6 DEF OpenPart, OpenedOnce, CheckOpen
<1>8. AllOpen => \A i \in LogIds : logFd[i] # -1  BY DEF AllOpen
<1>9. (OneOpens /\ OpensInInit /\ NoneMissing)'
  BY <1>1, <1>2, <1>3, <1>4, <1>8
  DEF OpenPart, OneOpens, OpensInInit, NoneMissing, Opening, CheckOpen
<1> QED  BY <1>5, <1>7, <1>9 DEF OpenPart

LEMMA PublishOpens ==
  ASSUME DInv, CInv, NEW t \in Threads, Publish(t), UNCHANGED sockVars
  PROVE  CInv'
<1> USE DEF DInv, sockVars
<1>1. SUFFICES ASSUME ~broken, ~misused, OpenPart  PROVE OpenPart'
  BY DEF CInv, Publish
<1>2. /\ pc[t] = "publish" /\ pc'[t] = "write"
      /\ \A u \in Threads \ {t} : pc'[u] = pc[u]
  BY GotoKeeps, LogIdsRange DEF Pcs, Publish
<1>3. \A u \in Threads : ~Opening(u)'
  BY <1>1, <1>2 DEF OpenPart, OneOpens, Opening
<1>4. \A i \in LogIds : Ours(i)' /\ Ours(i)  BY <1>2 DEF Ours, Publish
<1>5. OpenedOnce'  BY <1>1, <1>4 DEF OpenPart, OpenedOnce, Publish
<1>6. (OneOpens /\ OpensInInit /\ NoneMissing)'
  BY <1>1, <1>2, <1>3 DEF OpenPart, OneOpens, OpensInInit, NoneMissing, Publish
<1> QED  BY <1>5, <1>6 DEF OpenPart

LEMMA CloseDeviceOpens ==
  ASSUME DInv, CInv, NEW t \in Threads, CloseDevice(t), UNCHANGED sockVars
  PROVE  CInv'
<1> USE DEF DInv, sockVars
<1>1. SUFFICES ASSUME ~broken, ~misused, OpenPart  PROVE OpenPart'
  BY DEF CInv, CloseDevice
<1>2. PICK k \in LogIds : k = at[t]  BY DEF DescriptorTypes
<1>3. PICK step \in {"close", "reset"}, n \in LogIds :
        /\ Goto(t, step, n)
        /\ step = "close" => k < Len(Logs) /\ n = k + 1
        /\ step = "reset" => k = Len(Logs)
  BY <1>2, LogIdsRange DEF CloseDevice
<1>4. /\ pc[t] = "close" /\ pc'[t] = step /\ at'[t] = n
      /\ \A u \in Threads \ {t} : pc'[u] = pc[u] /\ at'[u] = at[u]
  BY <1>3, GotoKeeps DEF Pcs, CloseDevice
<1>5. write_to_log = "init" /\ \A u \in Threads \ {t} : ~Opening(u) /\ ~Opening(u)'
  BY <1>1, <1>4 DEF OpenPart, OneOpens, OpensInInit, Opening
<1>6. \A i \in LogIds : Ours(i) <=> k <= i
  BY <1>2, <1>4, <1>5, LogIdsRange DEF Ours, Opening
<1>7. \A i \in LogIds : Ours(i)' <=> k < i
  BY <1>3, <1>4, <1>5, LogIdsRange DEF Ours, Opening, CloseDevice
<1>8. ASSUME NEW i \in LogIds, NEW f \in Fds
      PROVE  fdTable'[f] = Logs[i] <=> k < i /\ f = logFd[i]
  <2>1. fdTable[f] = Logs[i] <=> k <= i /\ f = logFd[i]
    BY <1>1, <1>6, <1>8 DEF OpenPart, OpenedOnce
  <2>2. fdTable[f] = Logs[k] <=> f = logFd[k]
    BY <1>1, <1>6, <1>8, LogIdsRange DEF OpenPart, OpenedOnce
  <2>3. fdTable'[f] = IF f = logFd[k] THEN "free" ELSE fdTable[f]
    BY <1>2, <1>8 DEF CloseDevice, CloseFd
  <2>4. Logs[i] # "free" /\ (Logs[i] = Logs[k] => i = k)
    BY LiblogAssumption DEF LogIds, Kinds
  <2> QED  BY <2>1, <2>2, <2>3, <2>4, LogIdsRange
<1>9. OpenedOnce'  BY <1>7, <1>8 DEF OpenedOnce, CloseDevice
<1>10. (OneOpens /\ OpensInInit /\ NoneMissing)'
  BY <1>3, <1>4, <1>5 DEF OneOpens, OpensInInit, NoneMissing, Opening, CloseDevice
<1> QED  BY <1>9, <1>10 DEF OpenPart

LEMMA ResetFdsOpens ==
  ASSUME DInv, CInv, NEW t \in Threads, ResetFds(t), UNCHANGED sockVars
  PROVE  CInv'
<1> USE DEF DInv, sockVars
<1>1. SUFFICES ASSUME ~broken, ~misused, OpenPart  PROVE OpenPart'
  BY DEF CInv, ResetFds
<1>2. /\ pc[t] = "reset" /\ pc'[t] = "idle"
      /\ \A u \in Threads \ {t} : pc'[u] = pc[u]
  BY GotoKeeps, LogIdsRange DEF Pcs, ResetFds
<1>3. /\ write_to_log = "init" /\ \A u \in Threads : ~Opening(u)'
      /\ \A u \in Threads \ {t} : ~Opening(u)
  BY <1>1, <1>2 DEF OpenPart, OneOpens, OpensInInit, Opening
<1>4. \A i \in LogIds : ~Ours(i)' /\ ~Ours(i)
  BY <1>2, <1>3 DEF Ours, Opening, ResetFds
<1>5. OpenedOnce'  BY <1>1, <1>4 DEF OpenPart, OpenedOnce, ResetFds
<1>6. (OneOpens /\ OpensInInit /\ NoneMissing)'
  BY <1>3 DEF OneOpens, OpensInInit, NoneMissing, Opening, ResetFds
<1> QED  BY <1>5, <1>6 DEF OpenPart

LEMMA WriteToLogOpens ==
  ASSUME DInv, CInv, NEW t \in Threads, WriteToLog(t), UNCHANGED sockVars
  PROVE  CInv'
<1> USE DEF DInv, sockVars
<1>1. SUFFICES ASSUME ~broken, ~misused, OpenPart  PROVE OpenPart'
  BY DEF CInv, WriteToLog
<1>2. /\ pc[t] = "write" /\ pc'[t] = "idle"
      /\ \A u \in Threads \ {t} : pc'[u] = pc[u] /\ at'[u] = at[u]
  BY GotoKeeps, LogIdsRange DEF Pcs, WriteToLog
<1>3. \A i \in LogIds : Ours(i)' <=> Ours(i)  BY <1>2 DEF Ours, WriteToLog
<1>4. OpenedOnce'  BY <1>1, <1>3 DEF OpenPart, OpenedOnce, WriteToLog
<1>5. (OneOpens /\ OpensInInit /\ NoneMissing)'
  BY <1>1, <1>2 DEF OpenPart, OneOpens, OpensInInit, NoneMissing, Opening, WriteToLog
<1> QED  BY <1>4, <1>5 DEF OpenPart

LEMMA LogStepKeepsOpen ==
  ASSUME DInv, CInv, NEW t \in Threads, LogStep(t), UNCHANGED sockVars
  PROVE  CInv'
BY AskInitOpens, OpenDeviceOpens, CheckOpenOpens, PublishOpens, CloseDeviceOpens,
   ResetFdsOpens, WriteToLogOpens DEF LogStep

-----------------------------------------------------------------------------
(* The steps of the sockets.                                                *)
QuietLog ==
  /\ UNCHANGED <<write_to_log, logFd, raced, broken>>
  /\ pc' \in [Threads -> Pcs] /\ at' \in [Threads -> LogIds]
  /\ \A t \in Threads :
       \/ pc'[t] = pc[t] /\ at'[t] = at[t]
       \/ /\ pc[t] \in {"idle", "test", "write"}
          /\ pc'[t] \in {"idle", "test", "write"}

LogFilesKept ==
  \A g : \A i \in LogIds : FileIn(fdTable, g) = Logs[i] <=> FileIn(fdTable', g) = Logs[i]

LEMMA QuietKeepsOpen ==
  ASSUME DescriptorTypes, QuietLog, LogFilesKept, OpenPart
  PROVE  OpenPart'
<1>1. \A t \in Threads : Opening(t)' <=> Opening(t)  BY DEF QuietLog, Opening
<1>2. \A i \in LogIds : Ours(i)' <=> Ours(i)  BY DEF QuietLog, Ours
<1>3. OpenedOnce'  BY <1>2 DEF QuietLog, LogFilesKept, FileIn, OpenPart, OpenedOnce
<1>4. (OneOpens /\ OpensInInit)'  BY <1>1 DEF QuietLog, OpenPart, OneOpens, OpensInInit
<1>5. NoneMissing'  BY DEF QuietLog, OpenPart, NoneMissing
<1> QED  BY <1>3, <1>4, <1>5 DEF OpenPart

LEMMA SocketStep ==
  ASSUME DInv, QuietLog, fdTable' \in [Fds -> Files], TaskTypes', misused => misused',
         ~broken /\ ~misused /\ ~misused' /\ SocketPart => LogFilesKept /\ SocketPart'
  PROVE  DInv' /\ (CInv => CInv')
<1>1. DescriptorTypes'  BY DEF DInv, DescriptorTypes, QuietLog
<1>2. ASSUME ~broken', ~misused'  PROVE LogPart' /\ SocketPart'
  <2>1. ~broken /\ ~misused  BY <1>2 DEF QuietLog
  <2>2. LogFilesKept /\ SocketPart'  BY <1>2, <2>1 DEF DInv
  <2> QED  BY <2>1, <2>2, LogFrame DEF DInv, QuietLog, LogFilesKept
<1>3. ASSUME CInv, ~raced', ~misused'  PROVE ~broken' /\ OpenPart'
  <2>1. ~misused /\ ~broken /\ OpenPart  BY <1>3 DEF CInv, QuietLog
  <2>2. LogFilesKept  BY <1>3, <2>1 DEF DInv
  <2> QED  BY <2>1, <2>2, QuietKeepsOpen DEF DInv, QuietLog
<1> QED  BY <1>1, <1>2, <1>3 DEF DInv, CInv

LEMMA EntryIsQuiet ==
  ASSUME DescriptorTypes, NEW t \in Threads, pc[t] = "idle", Goto(t, LogEntry, 1),
         UNCHANGED <<write_to_log, logFd, raced, broken>>
  PROVE  QuietLog
<1>1. LogEntry \in {"test", "write"}  BY DEF LogEntry
<1>2. /\ pc' \in [Threads -> Pcs] /\ at' \in [Threads -> LogIds]
      /\ pc'[t] = LogEntry
      /\ \A u \in Threads \ {t} : pc'[u] = pc[u] /\ at'[u] = at[u]
  BY <1>1, GotoKeeps, LogIdsRange DEF Pcs
<1> QED  BY <1>1, <1>2 DEF QuietLog

LEMMA WriteIsQuiet ==
  ASSUME DescriptorTypes, NEW t \in Threads, LogWrite(t)
  PROVE  QuietLog /\ fdTable' = fdTable
BY EntryIsQuiet DEF LogWrite

LEMMA UnchangedIsQuiet ==
  ASSUME DescriptorTypes, UNCHANGED <<write_to_log, logFd, raced, broken, pc, at>>
  PROVE  QuietLog
BY DEF QuietLog, DescriptorTypes

LEMMA OpenKeepsFiles ==
  ASSUME DescriptorTypes, NEW file \in Kinds, NEW fd \in Fds \cup {-1}, OpenFd(file, fd)
  PROVE  /\ fdTable' \in [Fds -> Files] /\ LogFilesKept
         /\ \A g : FileIn(fdTable, g) # "free" => FileIn(fdTable', g) = FileIn(fdTable, g)
         /\ fd < 0 \/ FileIn(fdTable', fd) = file
<1>1. /\ fdTable' \in [Fds -> Files]
      /\ \A g : FileIn(fdTable, g) # "free" => FileIn(fdTable', g) = FileIn(fdTable, g)
      /\ \A g : FileIn(fdTable', g) # FileIn(fdTable, g) => g = fd
      /\ fd = -1 \/ FileIn(fdTable', fd) = file
  BY OpenedKeeps DEF Files
<1>2. \A i \in LogIds : Logs[i] \notin Kinds \cup {"none"}  BY LiblogAssumption DEF LogIds
<1>3. fd = -1 => FileIn(fdTable', fd) = "none"  BY LiblogAssumption DEF FileIn, Fds
<1> QED  BY <1>1, <1>2, <1>3 DEF LogFilesKept, Kinds

LEMMA CloseKeepsFiles ==
  ASSUME DescriptorTypes, NEW fd, CloseFd(fd)
  PROVE  /\ fdTable' \in [Fds -> Files]
         /\ FileIn(fdTable, fd) \in Kinds \cup {"none"} => LogFilesKept
         /\ \A g : FileIn(fdTable, g) # FileIn(fdTable, fd) =>
                     FileIn(fdTable', g) = FileIn(fdTable, g)
<1>1. /\ fdTable' \in [Fds -> Files]
      /\ \A g : FileIn(fdTable, g) # FileIn(fdTable, fd) =>
                  FileIn(fdTable', g) = FileIn(fdTable, g)
      /\ \A g : FileIn(fdTable', g) \in {FileIn(fdTable, g), "free"}
  BY ClosedKeeps
<1>2. \A i \in LogIds : Logs[i] \notin Kinds \cup {"none"}  BY LiblogAssumption DEF LogIds
<1> QED  BY <1>1, <1>2 DEF LogFilesKept, Kinds

LEMMA SocketKinds == "listen" \in Kinds /\ "conn" \in Kinds /\ "client" \in Kinds
BY DEF Kinds

LEMMA MainIsThread == Main \in Threads  BY ZygoteAssumption

(* Steps that log or do nothing to the files.                               *)
LEMMA CallKeeps ==
  ASSUME DInv, NEW t \in Threads,
         \/ CallOpen /\ t = Main
         \/ Receive("read", "callback") /\ t = Main
         \/ Receive("callback", "java") /\ t = Main
         \/ CallClose(t) \/ JustLog(t)
         \/ CallClient("socket") /\ t = Main
         \/ CallClient("disconnect") /\ t = Main
  PROVE  DInv' /\ (CInv => CInv')
<1> USE DEF DInv
<1>1. LogWrite(t) /\ misused' = misused
  BY DEF CallOpen, Receive, CallClose, JustLog, CallClient, sockVars
<1>2. QuietLog /\ fdTable' = fdTable /\ fdTable' \in [Fds -> Files] /\ LogFilesKept
  BY <1>1, WriteIsQuiet DEF DescriptorTypes, LogFilesKept
<1>3. TaskTypes'
  BY MainIsThread DEF TaskTypes, CallOpen, Receive, CallClose, JustLog, CallClient, sockVars, At, Then
<1>4. SocketPart => SocketPart'
  BY <1>2, MainIsThread
  DEF TaskTypes, SocketPart, Listening, CallOpen, Receive, CallClose, JustLog, CallClient,
      sockVars, At, Then
<1> QED  BY <1>1, <1>2, <1>3, <1>4, SocketStep

LEMMA PassKeeps ==
  ASSUME DInv, AlreadyOpen \/ CallAccept \/ Return
  PROVE  DInv' /\ (CInv => CInv')
<1> USE DEF DInv
<1>1. QuietLog /\ fdTable' = fdTable /\ fdTable' \in [Fds -> Files] /\ LogFilesKept
  BY UnchangedIsQuiet
  DEF AlreadyOpen, CallAccept, Return, logVars, DescriptorTypes, LogFilesKept
<1>2. TaskTypes' /\ misused' = misused
  BY MainIsThread DEF TaskTypes, AlreadyOpen, CallAccept, Return, At, Then
<1>3. SocketPart => SocketPart'
  BY <1>1, MainIsThread
  DEF TaskTypes, SocketPart, Listening, AlreadyOpen, CallAccept, Return, At, Then, FileOf, FileIn
<1> QED  BY <1>1, <1>2, <1>3, SocketStep

LEMMA BindListenKeeps ==
  ASSUME DInv, BindListen
  PROVE  DInv' /\ (CInv => CInv')
<1> USE DEF DInv
<1>1. QuietLog /\ fdTable' = fdTable /\ fdTable' \in [Fds -> Files] /\ LogFilesKept
  BY UnchangedIsQuiet, WriteIsQuiet, MainIsThread
  DEF BindListen, logVars, DescriptorTypes, LogFilesKept
<1>2. TaskTypes' /\ misused' = misused
  BY MainIsThread DEF TaskTypes, BindListen, At, Then
<1>3. SocketPart => SocketPart'
  BY <1>1, MainIsThread DEF TaskTypes, SocketPart, Listening, BindListen, At, Then
<1> QED  BY <1>1, <1>2, <1>3, SocketStep

LEMMA ConnectKeeps ==
  ASSUME DInv, Connect
  PROVE  DInv' /\ (CInv => CInv')
<1> USE DEF DInv
<1>1. QuietLog /\ fdTable' = fdTable /\ fdTable' \in [Fds -> Files] /\ LogFilesKept
  BY UnchangedIsQuiet, WriteIsQuiet, MainIsThread
  DEF Connect, logVars, DescriptorTypes, LogFilesKept
<1>2. TaskTypes' /\ misused' = misused
  BY MainIsThread DEF TaskTypes, Connect, At, Then
<1>3. SocketPart => SocketPart'
  BY <1>1, MainIsThread DEF TaskTypes, SocketPart, Listening, Connect, At, Then
<1> QED  BY <1>1, <1>2, <1>3, SocketStep

(* Steps that open or close a file of a socket.                             *)
LEMMA SocketKeeps ==
  ASSUME DInv, Socket
  PROVE  DInv' /\ (CInv => CInv')
<1> USE DEF DInv
<1>1. PICK fd \in Fds \cup {-1} : OpenFd("listen", fd) /\ listenFd' = fd
  BY DEF Socket
<1>2. /\ fdTable' \in [Fds -> Files] /\ LogFilesKept
      /\ \A g : FileIn(fdTable, g) # "free" => FileIn(fdTable', g) = FileIn(fdTable, g)
      /\ fd < 0 \/ FileIn(fdTable', fd) = "listen"
  BY <1>1, OpenKeepsFiles, SocketKinds
<1>3. QuietLog
  BY EntryIsQuiet, UnchangedIsQuiet, MainIsThread DEF Socket, At
<1>4. TaskTypes' /\ misused' = misused
  BY MainIsThread DEF TaskTypes, Socket, At, Then
<1>5. SocketPart => SocketPart'
  BY <1>1, <1>2, MainIsThread DEF TaskTypes, SocketPart, Listening, Socket, At, Then
<1> QED  BY <1>2, <1>3, <1>4, <1>5, SocketStep

LEMMA AcceptKeeps ==
  ASSUME DInv, Accept
  PROVE  DInv' /\ (CInv => CInv')
<1> USE DEF DInv
<1>1. PICK fd \in Fds \cup {-1} : OpenFd("conn", fd) /\ connFd' = fd
  BY DEF Accept
<1>2. /\ fdTable' \in [Fds -> Files] /\ LogFilesKept
      /\ \A g : FileIn(fdTable, g) # "free" => FileIn(fdTable', g) = FileIn(fdTable, g)
  BY <1>1, OpenKeepsFiles, SocketKinds
<1>3. QuietLog  BY UnchangedIsQuiet DEF Accept, LogUnchanged
<1>4. TaskTypes' /\ misused' = misused
  BY MainIsThread DEF TaskTypes, Accept, At, Then
<1>5. fd < 0 => fd = -1  BY LiblogAssumption DEF Fds
<1>6. SocketPart => SocketPart'
  BY <1>1, <1>2, <1>5, MainIsThread DEF TaskTypes, SocketPart, Listening, Accept, At, Then
<1> QED  BY <1>2, <1>3, <1>4, <1>6, SocketStep

LEMMA ClientSocketKeeps ==
  ASSUME DInv, ClientSocket
  PROVE  DInv' /\ (CInv => CInv')
<1> USE DEF DInv
<1>1. PICK fd \in Fds \cup {-1} : OpenFd("client", fd) /\ clientFd' = fd
  BY DEF ClientSocket
<1>2. /\ fdTable' \in [Fds -> Files] /\ LogFilesKept
      /\ \A g : FileIn(fdTable, g) # "free" => FileIn(fdTable', g) = FileIn(fdTable, g)
      /\ fd < 0 \/ FileIn(fdTable', fd) = "client"
  BY <1>1, OpenKeepsFiles, SocketKinds
<1>3. QuietLog
  BY EntryIsQuiet, UnchangedIsQuiet, MainIsThread DEF ClientSocket, At
<1>4. TaskTypes' /\ misused' = misused
  BY MainIsThread DEF TaskTypes, ClientSocket, At, Then
<1>5. SocketPart => SocketPart'
  BY <1>1, <1>2, MainIsThread DEF TaskTypes, SocketPart, Listening, ClientSocket, At, Then
<1> QED  BY <1>2, <1>3, <1>4, <1>5, SocketStep

LEMMA CloseAtEndKeeps ==
  ASSUME DInv, CloseAtEnd
  PROVE  DInv' /\ (CInv => CInv')
<1> USE DEF DInv
<1>1. PICK fd \in {connFd, listenFd} :
        /\ CloseFd(fd)
        /\ \/ At(Main, "closeConn") /\ fd = connFd /\ Then(Main, "closeListen")
           \/ At(Main, "closeListen") /\ fd = listenFd /\ Then(Main, "idle")
  BY DEF CloseAtEnd
<1>2. /\ fdTable' \in [Fds -> Files]
      /\ FileIn(fdTable, fd) \in Kinds \cup {"none"} => LogFilesKept
      /\ \A g : FileIn(fdTable, g) # FileIn(fdTable, fd) =>
                  FileIn(fdTable', g) = FileIn(fdTable, g)
  BY <1>1, CloseKeepsFiles
<1>3. QuietLog  BY UnchangedIsQuiet DEF CloseAtEnd, LogUnchanged
<1>4. TaskTypes' /\ misused' = misused
  BY <1>1, MainIsThread DEF TaskTypes, CloseAtEnd, At, Then
<1>5. ASSUME SocketPart
      PROVE  FileIn(fdTable, fd) = IF task[Main] = "closeConn" THEN "none" ELSE "listen"
  BY <1>1, <1>5, LiblogAssumption DEF SocketPart, Listening, At, FileIn, Fds
<1>6. SocketPart => LogFilesKept
  BY <1>2, <1>5 DEF Kinds
<1>7. SocketPart => SocketPart'
  BY <1>1, <1>2, <1>5, MainIsThread
  DEF TaskTypes, SocketPart, Listening, CloseAtEnd, At, Then
<1> QED  BY <1>2, <1>3, <1>4, <1>6, <1>7, SocketStep

LEMMA DropConnectionKeeps ==
  ASSUME DInv, DropConnection
  PROVE  DInv' /\ (CInv => CInv')
<1> USE DEF DInv
<1>1. CloseFd(clientFd)  BY DEF DropConnection
<1>2. /\ fdTable' \in [Fds -> Files]
      /\ FileIn(fdTable, clientFd) \in Kinds \cup {"none"} => LogFilesKept
  BY <1>1, CloseKeepsFiles
<1>3. QuietLog  BY UnchangedIsQuiet DEF DropConnection, LogUnchanged
<1>4. TaskTypes' /\ misused' = misused
  BY MainIsThread DEF TaskTypes, DropConnection, At, Then
<1>5. SocketPart => FileIn(fdTable, clientFd) \in Kinds
  BY DEF SocketPart, DropConnection, At, Kinds
<1>6. SocketPart => SocketPart'
  BY MainIsThread DEF TaskTypes, SocketPart, Listening, DropConnection, At, Then
<1> QED  BY <1>2, <1>3, <1>4, <1>5, <1>6, SocketStep

LEMMA ClientCloseKeeps ==
  ASSUME DInv, ClientClose
  PROVE  DInv' /\ (CInv => CInv')
<1> USE DEF DInv
<1>1. QuietLog  BY UnchangedIsQuiet DEF ClientClose, LogUnchanged
<1>2. misused => misused'
  <2>1. misused' = (misused \/ ~connected) \/ misused' = misused  BY DEF ClientClose
  <2> QED  BY <2>1, Zenon
<1>3. TaskTypes'
  <2>1. At(Main, "disconnect") /\ Then(Main, "idle")  BY DEF ClientClose
  <2> QED  BY <1>2, <2>1, MainIsThread DEF TaskTypes, At, Then
<1>4. SocketPart => SocketPart'
  BY MainIsThread DEF TaskTypes, SocketPart, Listening, ClientClose, At, Then
<1>5. CASE clientFd > 0 /\ CloseFd(clientFd) /\ misused' = (misused \/ ~connected)
  <2>1. ~misused' => connected  BY <1>5, Zenon
  <2>2. /\ fdTable' \in [Fds -> Files]
        /\ FileIn(fdTable, clientFd) \in Kinds \cup {"none"} => LogFilesKept
    BY <1>5, CloseKeepsFiles
  <2>3. SocketPart /\ connected => FileIn(fdTable, clientFd) \in Kinds
    BY DEF SocketPart, Kinds
  <2> QED  BY <1>1, <1>2, <1>3, <1>4, <2>1, <2>2, <2>3, SocketStep
<1>6. CASE UNCHANGED <<fdTable, misused>>
  <2>1. fdTable' \in [Fds -> Files] /\ LogFilesKept
    BY <1>6 DEF DescriptorTypes, LogFilesKept
  <2> QED  BY <1>1, <1>2, <1>3, <1>4, <1>6, <2>1, SocketStep
<1> QED  BY <1>5, <1>6 DEF ClientClose

LEMMA CloseListenKeeps ==
  ASSUME DInv, NEW t \in Threads, CloseListen(t)
  PROVE  DInv' /\ (CInv => CInv')
<1> USE DEF DInv
<1>1. QuietLog  BY UnchangedIsQuiet DEF CloseListen, LogUnchanged
<1>2. t # Main  BY DEF TaskTypes, CloseListen, At
<1>3. TaskTypes'
  BY <1>2, MainIsThread DEF TaskTypes, CloseListen, At, Then
<1>4. CASE CloseFd(listenFd) /\ misused'
  <2>1. fdTable' \in [Fds -> Files]  BY <1>4, CloseKeepsFiles
  <2> QED  BY <1>1, <1>3, <1>4, <2>1, SocketStep
<1>5. CASE UNCHANGED <<fdTable, misused>>
  <2>1. fdTable' \in [Fds -> Files] /\ LogFilesKept
    BY <1>5 DEF DescriptorTypes, LogFilesKept
  <2>2. SocketPart => SocketPart'
    BY <1>2, <1>5, MainIsThread DEF TaskTypes, SocketPart, Listening, CloseListen, At, Then
  <2> QED  BY <1>1, <1>3, <1>5, <2>1, <2>2, SocketStep
<1> QED  BY <1>4, <1>5 DEF CloseListen

LEMMA CloseConnKeeps ==
  ASSUME DInv, NEW t \in Threads, CloseConn(t)
  PROVE  DInv' /\ (CInv => CInv')
<1> USE DEF DInv
<1>1. QuietLog  BY UnchangedIsQuiet DEF CloseConn, LogUnchanged
<1>2. misused /\ misused'  BY DEF TaskTypes, CloseConn, At
<1>3. TaskTypes'
  BY <1>2, MainIsThread DEF TaskTypes, CloseConn, At, Then
<1>4. fdTable' \in [Fds -> Files]
  BY CloseKeepsFiles DEF CloseConn, DescriptorTypes
<1> QED  BY <1>1, <1>2, <1>3, <1>4, SocketStep

-----------------------------------------------------------------------------
(* The steps of the children have no part in it.                            *)
LEMMA OthersKeep ==
  ASSUME DInv, UNCHANGED <<logVars, sockVars>>
  PROVE  DInv' /\ (CInv => CInv')
<1> USE DEF DInv
<1>1. QuietLog /\ fdTable' \in [Fds -> Files] /\ LogFilesKept
  BY UnchangedIsQuiet DEF logVars, DescriptorTypes, LogFilesKept
<1>2. TaskTypes' /\ misused' = misused  BY TasksKept DEF sockVars
<1>3. SocketPart => SocketPart'  BY DEF SocketPart, sockVars, logVars
<1> QED  BY <1>1, <1>2, <1>3, SocketStep

LEMMA DescriptorsInit == Init => DInv /\ CInv
<1> SUFFICES ASSUME Init  PROVE DInv /\ CInv  OBVIOUS
<1> USE DEF Init, LiblogInit
<1>1. DescriptorTypes
  BY LogIdsRange, LiblogAssumption DEF DescriptorTypes, Files, Kinds, Pcs, Fds
<1>2. TaskTypes  BY MainIsThread DEF TaskTypes
<1>3. LogPart
  BY DEF LogPart, OneFails, FailsInInit, LogsSound, Untouched, MissingSeen, Failing, Opening
<1>4. SocketPart  BY MainIsThread DEF SocketPart, Listening
<1>5. OpenPart
  BY LogIdsRange, LiblogAssumption
  DEF OpenPart, OpenedOnce, OneOpens, OpensInInit, NoneMissing, Ours, Opening, LogIds, Kinds
<1> QED  BY <1>1, <1>2, <1>3, <1>4, <1>5 DEF DInv, CInv

LEMMA LogStepKeeps ==
  ASSUME DInv, NEW t \in Threads, LogStep(t), UNCHANGED sockVars
  PROVE  DInv' /\ (CInv => CInv')
BY AskInitKeeps, OpenDeviceKeeps, CheckOpenKeeps, PublishKeeps, CloseDeviceKeeps,
   ResetFdsKeeps, WriteToLogKeeps, LogStepKeepsOpen DEF LogStep

LEMMA DescriptorsStep == DInv /\ CInv /\ [Next]_vars => DInv' /\ CInv'
<1> SUFFICES ASSUME DInv, CInv, [Next]_vars  PROVE DInv' /\ CInv'  OBVIOUS
<1>1. CASE ServerStep
  <2>1. CASE Fork  BY <2>1, OthersKeep DEF Fork
  <2> QED
    BY <1>1, <2>1, MainIsThread, CallKeeps, PassKeeps, SocketKeeps, BindListenKeeps,
       AcceptKeeps, CloseAtEndKeeps DEF ServerStep
<1>2. CASE ClientStep
  BY <1>2, MainIsThread, CallKeeps, ClientSocketKeeps, ConnectKeeps, DropConnectionKeeps,
     ClientCloseKeeps DEF ClientStep
<1>3. ASSUME NEW t \in Threads, ThreadStep(t)  PROVE DInv' /\ CInv'
  BY <1>3, LogStepKeeps, CallKeeps, CloseListenKeeps, CloseConnKeeps DEF ThreadStep
<1>4. CASE \E c \in Children : ChildEnds(c) \/ ChildStops(c)
  BY <1>4, OthersKeep DEF ChildEnds, ChildStops
<1>5. CASE \E t \in Threads : Deliver(t) \/ SignalHandler(t)
  BY <1>5, OthersKeep DEF Deliver, SignalHandler
<1>6. CASE UNCHANGED vars  BY <1>6, OthersKeep DEF vars
<1> QED  BY <1>1, <1>2, <1>3, <1>4, <1>5, <1>6 DEF Next

LEMMA DescriptorsImplied == DInv => DescriptorsHeld
<1> SUFFICES ASSUME DInv, ~broken, ~misused
    PROVE /\ write_to_log = "direct" /\ NobodyOpens =>
               \A i \in LogIds : FileOf(logFd[i]) = Logs[i]
          /\ Serving => FileOf(listenFd) = "listen"
          /\ connected => FileOf(clientFd) = "client"
  BY DEF DescriptorsHeld
<1>1. LogPart /\ SocketPart  BY DEF DInv
<1>2. ASSUME write_to_log = "direct", NobodyOpens, NEW i \in LogIds
      PROVE  FileOf(logFd[i]) = Logs[i]
  <2>1. ~Untouched(i) /\ ~Closed(i)
    BY <1>2 DEF Untouched, Closed, NobodyOpens, Opening
  <2>2. logFd[i] # -1
    BY <1>1, <1>2 DEF LogPart, MissingSeen, NobodyOpens, Opening
  <2> QED  BY <1>1, <2>1, <2>2 DEF LogPart, LogsSound, Sound, FileIn, FileOf
<1>3. Serving => FileOf(listenFd) = "listen"
  BY <1>1 DEF SocketPart, Serving, Listening, FileIn, FileOf
<1>4. connected => FileOf(clientFd) = "client"
  BY <1>1 DEF SocketPart, FileIn, FileOf
<1> QED  BY <1>2, <1>3, <1>4

LEMMA OpenImplied == DInv /\ CInv => OneOpenPerLog
<1> SUFFICES ASSUME DInv, CInv, ~raced, ~misused, NobodyOpens, NEW i \in LogIds
    PROVE Cardinality({f \in Fds : fdTable[f] = Logs[i]}) =
            IF write_to_log = "direct" THEN 1 ELSE 0
  BY DEF OneOpenPerLog
<1>1. OpenPart  BY DEF CInv
<1>2. CASE write_to_log = "direct"
  <2>1. logFd[i] \in Fds
    BY <1>1, <1>2 DEF DInv, DescriptorTypes, OpenPart, NoneMissing
  <2>2. {f \in Fds : fdTable[f] = Logs[i]} = {logFd[i]}
    BY <1>1, <1>2, <2>1 DEF OpenPart, OpenedOnce, Ours
  <2> QED  BY <1>2, <2>2, FS_Singleton
<1>3. CASE write_to_log # "direct"
  <2>1. ~Ours(i)  BY <1>3 DEF Ours, NobodyOpens, Opening
  <2>2. {f \in Fds : fdTable[f] = Logs[i]} = {}
    BY <1>1, <2>1 DEF OpenPart, OpenedOnce
  <2> QED  BY <1>3, <2>2, FS_EmptySet
<1> QED  BY <1>2, <1>3

(* Whoever has opened a file finds it under its number, unless a thread     *)
(* failed to open the logs while another was at it or a socket was closed   *)
(* twice (log.cpp:62, ZygoteSocketServer.cpp:28): for any number of threads,*)
(* logs and descriptors.                                                    *)
THEOREM DescriptorsAreHeld == Spec => []DescriptorsHeld
<1>1. Spec => [](DInv /\ CInv)
  BY DescriptorsInit, DescriptorsStep, PTL DEF Spec
<1> QED  BY <1>1, DescriptorsImplied, PTL

(* As long as no two threads open the logs at once, the process has one     *)
(* descriptor for each log, or none while write_to_log_init has yet to      *)
(* succeed (log.cpp:62, 73): for any number of threads, logs and            *)
(* descriptors, and whatever sockets it opens and closes meanwhile.         *)
THEOREM LogsOpenOnce == Spec => []OneOpenPerLog
<1>1. Spec => [](DInv /\ CInv)
  BY DescriptorsInit, DescriptorsStep, PTL DEF Spec
<1> QED  BY <1>1, OpenImplied, PTL
=============================================================================

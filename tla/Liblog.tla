------------------------------- MODULE Liblog -------------------------------
(***************************************************************************)
(* system/core/liblog/log.cpp: the threads of one process log, and the      *)
(* first to do so opens the devices, without a lock. The descriptors are    *)
(* those of the process: a number that is closed may be given to another    *)
(* file, and whoever still holds it then uses that one.                     *)
(*                                                                         *)
(* A step is one system call, or one access to what the threads share; the  *)
(* check and the reset of all the descriptors are one step each. A call     *)
(* that the tag filter drops changes nothing and is no step.                *)
(***************************************************************************)
EXTENDS Integers, Sequences, FiniteSets

CONSTANTS
  Threads,
  Logs,              \* the devices of the logs, in the order of their ids
  MaxFd              \* the limit of descriptors of the process

Kinds == {"free", "stdin", "listen", "conn", "client"}   \* of the other descriptors

ASSUME LiblogAssumption ==
  /\ IsFiniteSet(Threads) /\ MaxFd \in Nat \ {0}
  /\ Len(Logs) \in Nat \ {0} /\ DOMAIN Logs = 1 .. Len(Logs)
  /\ \A i \in DOMAIN Logs : /\ Logs[i] \notin Kinds \cup {"none"}
                           /\ \A j \in DOMAIN Logs : Logs[i] = Logs[j] => i = j

VARIABLES
  fdTable,           \* the file of each descriptor of the process
  write_to_log,      \* "init" or "direct": the function it points to
  logFd,
  pc,                \* where a thread is in __droid_log_buf_write
  at,                \* the log a thread that opens or closes has come to
  raced,             \* two threads have been opening at once (history)
  broken             \* and one of them failed (history)

logVars == <<fdTable, write_to_log, logFd, pc, at, raced, broken>>

Fds == 0 .. (MaxFd - 1)
LogIds == DOMAIN Logs

LiblogInit ==
  /\ fdTable = [f \in Fds |-> IF f = 0 THEN "stdin" ELSE "free"]
  /\ write_to_log = "init"
  /\ logFd = [i \in LogIds |-> 0]
  /\ pc = [t \in Threads |-> "idle"]
  /\ at = [t \in Threads |-> 1]
  /\ raced = FALSE /\ broken = FALSE

-----------------------------------------------------------------------------
(* Descriptors.                                                             *)
FileOf(fd) == IF fd \in Fds THEN fdTable[fd] ELSE "none"
FreeFds == {f \in Fds : fdTable[f] = "free"}

(* fd is what open, socket or accept return for a file: the lowest number   *)
(* that is free, or -1.                                                     *)
OpenFd(file, fd) ==
  \/ /\ fd \in FreeFds /\ \A g \in FreeFds : fd <= g
     /\ fdTable' = [fdTable EXCEPT ![fd] = file]
  \/ fd = -1 /\ UNCHANGED fdTable

(* close takes whatever has the number.                                     *)
CloseFd(fd) == fdTable' = [f \in Fds |-> IF f = fd THEN "free" ELSE fdTable[f]]

-----------------------------------------------------------------------------
(* __droid_log_buf_write and write_to_log_init.                             *)
Goto(t, step, i) == pc' = [pc EXCEPT ![t] = step] /\ at' = [at EXCEPT ![t] = i]

Opening(t) == pc[t] \in {"open", "check", "publish", "close", "reset"}
Failing(t) == pc[t] \in {"close", "reset"}

(* The call goes through write_to_log as it is now.                         *)
LogEntry == IF write_to_log = "init" THEN "test" ELSE "write"

LogWrite(t) ==
  /\ pc[t] = "idle"
  /\ Goto(t, LogEntry, 1)
  /\ UNCHANGED <<fdTable, write_to_log, logFd, raced, broken>>

(* Bug: write_to_log_init does not ask. *)
OpensAgain(t) ==
  /\ pc[t] = "test"
  /\ Goto(t, "open", 1)
  /\ raced' = (raced \/ \E u \in Threads \ {t} : Opening(u))
  /\ broken' = (broken \/ \E u \in Threads \ {t} : Failing(u))
  /\ UNCHANGED <<fdTable, write_to_log, logFd>>

(* write_to_log_init asks whether another thread has opened them meanwhile. *)
AskInit(t) ==
  /\ pc[t] = "test"
  /\ \/ /\ write_to_log = "init"
        /\ Goto(t, "open", 1)
        /\ raced' = (raced \/ \E u \in Threads \ {t} : Opening(u))
        /\ broken' = (broken \/ \E u \in Threads \ {t} : Failing(u))
     \/ /\ write_to_log # "init"
        /\ Goto(t, "write", 1)
        /\ UNCHANGED <<raced, broken>>
  /\ UNCHANGED <<fdTable, write_to_log, logFd>>

OpenDevice(t) ==
  /\ pc[t] = "open"
  /\ \E fd \in Fds \cup {-1} :
       OpenFd(Logs[at[t]], fd) /\ logFd' = [logFd EXCEPT ![at[t]] = fd]
  /\ IF at[t] < Len(Logs) THEN Goto(t, "open", at[t] + 1) ELSE Goto(t, "check", 1)
  /\ UNCHANGED <<write_to_log, raced, broken>>

(* Bug: the first log alone is asked after. *)
FirstOpen == logFd[1] >= 0

AllOpen == \A i \in LogIds : logFd[i] >= 0

CheckOpen(t) ==
  /\ pc[t] = "check"
  /\ Goto(t, IF AllOpen THEN "publish" ELSE "close", 1)
  /\ broken' = (broken \/ ( /\ ~AllOpen
                            /\ \/ write_to_log = "direct"
                               \/ \E u \in Threads \ {t} : Opening(u)))
  /\ UNCHANGED <<fdTable, write_to_log, logFd, raced>>

Publish(t) ==
  /\ pc[t] = "publish"
  /\ write_to_log' = "direct"
  /\ Goto(t, "write", 1)
  /\ UNCHANGED <<fdTable, logFd, raced, broken>>

CloseDevice(t) ==
  /\ pc[t] = "close"
  /\ CloseFd(logFd[at[t]])
  /\ IF at[t] < Len(Logs) THEN Goto(t, "close", at[t] + 1) ELSE Goto(t, "reset", 1)
  /\ UNCHANGED <<write_to_log, logFd, raced, broken>>

(* The next call tries again.                                               *)
ResetFds(t) ==
  /\ pc[t] = "reset"
  /\ logFd' = [i \in LogIds |-> -1]
  /\ Goto(t, "idle", 1)
  /\ UNCHANGED <<fdTable, write_to_log, raced, broken>>

(* __write_to_log: writev to whatever file logFd names.                     *)
WriteToLog(t) ==
  /\ pc[t] = "write"
  /\ Goto(t, "idle", 1)
  /\ UNCHANGED <<fdTable, write_to_log, logFd, raced, broken>>

LogStep(t) ==
  \/ AskInit(t) \/ OpenDevice(t) \/ CheckOpen(t) \/ Publish(t)
  \/ CloseDevice(t) \/ ResetFds(t) \/ WriteToLog(t)

NobodyOpens == \A t \in Threads : ~Opening(t)
=============================================================================

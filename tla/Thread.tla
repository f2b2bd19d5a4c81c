------------------------------- MODULE Thread -------------------------------
(***************************************************************************)
(* droid::Thread (system/core/libutils/Threads.cpp): one Thread object, the *)
(* callers that hold it or only have the pointer `new` returned, and the    *)
(* system threads its run() creates, one after the other.                   *)
(*                                                                         *)
(* The object is a RefBase of STRONG lifetime: it is destroyed in the step  *)
(* that gives up the last strong reference, and promote succeeds as long as *)
(* there is one (module ObjectLifetime says so, RefBase implements it).     *)
(* A step is what happens under mLock, or one access without it.            *)
(***************************************************************************)
EXTENDS FiniteSets

CONSTANTS
  Callers,
  Workers,       \* the system threads
  HoldSelf,      \* the reference mHoldSelf, as a holder
  None

ASSUME ThreadConstants ==
  /\ Callers \cap Workers = {}
  /\ {HoldSelf, None} \cap (Callers \cup Workers) = {} /\ HoldSelf # None

VARIABLES
  mCanCallJava, mRunning, mExitPending, mStatus,
  mThread, mTid,
  mLock,         \* who holds it
  holders,       \* the strong references to the object
  alive,         \* the object exists
  pc,            \* of callers and workers
  made,          \* callers: the thread that was created
  result         \* workers: what threadLoop or readyToRun gave

fields == <<mCanCallJava, mRunning, mExitPending, mStatus, mThread, mTid>>
vars == <<fields, mLock, holders, alive, pc, made, result>>

Free == mLock = None
Goto(a, l) == pc' = [pc EXCEPT ![a] = l]

Init ==
  /\ mCanCallJava \in BOOLEAN
  /\ mRunning = FALSE /\ mExitPending = FALSE /\ mStatus = "OK"
  /\ mThread = None /\ mTid = None /\ mLock = None
  /\ holders \in {Callers, {}} /\ alive = TRUE
  /\ pc = [a \in Callers \cup Workers |-> "none"]
  /\ made = [c \in Callers |-> None]
  /\ result = [w \in Workers |-> FALSE]

(* sp::clear, ~sp: the last reference takes the object with it.             *)
LetGo(h) ==
  /\ holders' = holders \ {h}
  /\ alive' = (alive /\ (h \in holders => holders \ {h} # {}))

-----------------------------------------------------------------------------
Drop(c) ==
  /\ pc[c] = "none" /\ c \in holders
  /\ LetGo(c)
  /\ UNCHANGED <<fields, mLock, pc, made, result>>

(* Thread::run. It may be called on a new object, which nobody holds yet    *)
(* (test/DroidThread/DroidThread.cpp does).                                 *)
MayRun(c) == pc[c] = "none" /\ (c \in holders \/ (holders = {} /\ alive))

RunAgain == TRUE             \* Bug: a thread may be started while one runs.

NotRunning == ~mRunning

RunStart(c) ==               \* while mRunning it returns INVALID_OPERATION
  /\ MayRun(c)
  /\ Free /\ NotRunning
  /\ mLock' = c
  /\ mStatus' = "OK" /\ mExitPending' = FALSE
  /\ mThread' = None
  /\ holders' = holders \cup {HoldSelf}
  /\ mRunning' = TRUE
  /\ Goto(c, "create")
  /\ UNCHANGED <<mCanCallJava, mTid, alive, made, result>>

(* droidCreateRawThreadEtc, which may fail. With mCanCallJava nothing is    *)
(* created, and res is read without having been written.                    *)
Create(c) ==
  /\ pc[c] = "create"
  /\ \/ /\ ~mCanCallJava
        /\ \E w \in Workers :
             /\ pc[w] = "none"
             /\ made' = [made EXCEPT ![c] = w]
             /\ pc' = [pc EXCEPT ![c] = "publish", ![w] = "born"]
     \/ mCanCallJava /\ Goto(c, "unlock") /\ UNCHANGED made
     \/ Goto(c, "failed") /\ UNCHANGED made
  /\ UNCHANGED <<fields, mLock, holders, alive, result>>

Publish(c) ==
  /\ pc[c] = "publish"
  /\ mThread' = made[c]
  /\ made' = [made EXCEPT ![c] = None]
  /\ Goto(c, "unlock")
  /\ UNCHANGED <<mCanCallJava, mRunning, mExitPending, mStatus, mTid, mLock, holders, alive, result>>

RunFailed(c) ==
  /\ pc[c] = "failed"
  /\ mStatus' = "UNKNOWN_ERROR"
  /\ mRunning' = FALSE
  /\ mThread' = None
  /\ LetGo(HoldSelf)
  /\ Goto(c, "unlock")
  /\ UNCHANGED <<mCanCallJava, mExitPending, mTid, mLock, made, result>>

Unlock(c) ==
  /\ pc[c] = "unlock"
  /\ mLock' = None
  /\ Goto(c, "none")
  /\ UNCHANGED <<fields, holders, alive, made, result>>

-----------------------------------------------------------------------------
(* Thread::_threadLoop, in the thread that was created.                     *)

Nothing(w) == {}             \* Bug: mHoldSelf is cleared before it is copied.

Copied(w) == IF HoldSelf \in holders THEN {w} ELSE {}

TakeHold(w) ==               \* sp<Thread> strong(self->mHoldSelf)
  /\ pc[w] = "born"
  /\ holders' = holders \cup Copied(w)
  /\ Goto(w, "clearHold")
  /\ UNCHANGED <<fields, mLock, alive, made, result>>

HeldForGood == UNCHANGED <<holders, alive>>   \* Bug: mHoldSelf is not cleared.

HoldSelfCleared == LetGo(HoldSelf)

ClearHold(w) ==
  /\ pc[w] = "clearHold"
  /\ HoldSelfCleared
  /\ Goto(w, "tid")
  /\ UNCHANGED <<fields, mLock, made, result>>

SetTid(w) ==
  /\ pc[w] = "tid"
  /\ mTid' = w
  /\ Goto(w, "ready")
  /\ UNCHANGED <<mCanCallJava, mRunning, mExitPending, mStatus, mThread, mLock, holders, alive,
                 made, result>>

Ready(w) ==                  \* readyToRun
  /\ pc[w] = "ready"
  /\ \E status \in {"OK", "NOT_READY"} :
       /\ mStatus' = status
       /\ result' = [result EXCEPT ![w] = (status = "OK")]
       /\ Goto(w, IF status = "OK" THEN "pending" ELSE "check")
  /\ UNCHANGED <<mCanCallJava, mRunning, mExitPending, mThread, mTid, mLock, holders, alive, made>>

ExitPending(w) ==
  /\ pc[w] = "pending"
  /\ Free
  /\ Goto(w, IF mExitPending THEN "check" ELSE "body")
  /\ UNCHANGED <<fields, mLock, holders, alive, made, result>>

ThreadLoop(w) ==             \* the subclass decides whether it is called again
  /\ pc[w] = "body"
  /\ \E again \in BOOLEAN : result' = [result EXCEPT ![w] = again]
  /\ Goto(w, "check")
  /\ UNCHANGED <<fields, mLock, holders, alive, made>>

Guarded == Free

Check(w) ==
  /\ pc[w] = "check"
  /\ Guarded
  /\ \/ /\ ~result[w] \/ mExitPending
        /\ mExitPending' = TRUE /\ mRunning' = FALSE /\ mThread' = None
        /\ Goto(w, "leave")
     \/ /\ result[w] /\ ~mExitPending
        /\ Goto(w, "clear")
        /\ UNCHANGED <<mExitPending, mRunning, mThread>>
  /\ UNCHANGED <<mCanCallJava, mStatus, mTid, mLock, holders, alive, made, result>>

Leave(w) ==                  \* ~sp of strong
  /\ pc[w] = "leave"
  /\ LetGo(w)
  /\ Goto(w, "none")
  /\ result' = [result EXCEPT ![w] = FALSE]
  /\ UNCHANGED <<fields, mLock, made>>

Clear(w) ==
  /\ pc[w] = "clear"
  /\ LetGo(w)
  /\ Goto(w, "promote")
  /\ result' = [result EXCEPT ![w] = FALSE]
  /\ UNCHANGED <<fields, mLock, made>>

Promoted(w) ==
  \/ holders # {} /\ holders' = holders \cup {w} /\ Goto(w, "body")
  \/ holders = {} /\ UNCHANGED holders /\ Goto(w, "none")

Promote(w) ==
  /\ pc[w] = "promote"
  /\ Promoted(w)
  /\ UNCHANGED <<fields, mLock, alive, made, result>>

-----------------------------------------------------------------------------
CallerStep(c) == Create(c) \/ Publish(c) \/ RunFailed(c) \/ Unlock(c)
WorkerStep(w) ==
  \/ TakeHold(w) \/ ClearHold(w) \/ SetTid(w) \/ Ready(w) \/ ExitPending(w)
  \/ ThreadLoop(w) \/ Check(w) \/ Leave(w) \/ Clear(w) \/ Promote(w)

Next ==
  \/ \E c \in Callers : Drop(c) \/ RunStart(c) \/ CallerStep(c)
  \/ \E w \in Workers : WorkerStep(w)

Spec == Init /\ [][Next]_vars

(* Started threads are scheduled, and threadLoop returns.                   *)
LiveSpec ==
  Spec /\ (\A c \in Callers : WF_vars(CallerStep(c))) /\ (\A w \in Workers : WF_vars(WorkerStep(w)))

-----------------------------------------------------------------------------
CallerPCs == {"none", "create", "publish", "failed", "unlock"}
WorkerPCs == {"none", "born", "clearHold", "tid", "ready", "pending", "body", "check", "leave",
              "clear", "promote"}

(* The types of the variables; the lock is held by the caller in run alone, *)
(* and nothing but the counted references keeps the object.                 *)
TypeOK ==
  /\ {mCanCallJava, mRunning, mExitPending, alive} \subseteq BOOLEAN
  /\ mStatus \in {"OK", "NOT_READY", "UNKNOWN_ERROR"}
  /\ mThread \in Workers \cup {None} /\ mTid \in Workers \cup {None}
  /\ mLock \in Callers \cup {None}
  /\ holders \subseteq Callers \cup Workers \cup {HoldSelf}
  /\ \A c \in Callers : pc[c] \in CallerPCs /\ (pc[c] # "none" <=> mLock = c)
  /\ \A w \in Workers : pc[w] \in WorkerPCs /\ result[w] \in BOOLEAN
  /\ made \in [Callers -> Workers \cup {None}]

(* Where the next thing a caller or a thread does is to use the object.     *)
Uses(a) == pc[a] \notin {"none", "promote"}

(* run that could not create a thread clears mHoldSelf before it unlocks:   *)
(* that destroys an object which nobody else holds, with its lock.          *)
FailedUnheld(c) ==
  c \in Callers \ holders /\ pc[c] = "unlock" /\ mStatus = "UNKNOWN_ERROR"

(* Nobody uses the object after it was destroyed, whoever drops the last    *)
(* reference and wherever the thread and the callers of run are; the only   *)
(* exception is a run on an unheld object that fails.                       *)
NoUseAfterFree ==
  \A a \in Callers \cup Workers : Uses(a) => alive \/ FailedUnheld(a)

Running(w) == pc[w] \notin {"none", "leave"}

(* Where a thread has not yet stored its id in mTid.                        *)
BeforeTid == {"born", "clearHold", "tid"}

(* There is a thread exactly when mRunning says so, and never two that may  *)
(* be in threadLoop, however often run is called while one is ending.       *)
(* getPthreadId gives that thread's id, and nothing when there is none, and *)
(* getTid that thread's own id from the store in _threadLoop to the end of  *)
(* the thread. Of the time before the store nothing is said: mTid is never  *)
(* reset, so that after a restart getTid gives the id of a thread that has  *)
(* ended until the new one has stored its own.                              *)
OneThread ==
  alive /\ Free =>
    /\ ~mCanCallJava =>
         /\ mRunning <=> \E w \in Workers : Running(w)
         /\ \A v, w \in Workers : Running(v) /\ Running(w) => v = w
    /\ \A w \in Workers : Running(w) =>
         /\ mRunning /\ mThread = w
         /\ pc[w] \notin BeforeTid => mTid = w
    /\ ~mRunning => mThread = None

(* When no caller holds the object, the thread ends after the call of       *)
(* threadLoop it is in and the object is destroyed: it does not hold itself *)
(* for ever.                                                                *)
DestroyedWhenDropped ==
  ~mCanCallJava /\ holders # {} /\ holders \cap Callers = {} ~> ~alive
=============================================================================

--------------------------- MODULE IPCThreadState ---------------------------
(***************************************************************************)
(* libbinder in one process (frameworks/native/libs/binder): ProcessState,  *)
(* its driver and its table of proxies, the IPCThreadState of each thread,  *)
(* and transact down to the ioctl.                                          *)
(*                                                                         *)
(* A thread is at a step of the code, and a step is an access to shared     *)
(* state or what happens under one lock; what a thread does to its own      *)
(* parcel is one step. The driver is what BinderDriver says of a whole      *)
(* ioctl: it executes the commands of the buffer in turn, kills the thread  *)
(* at one that has no target, and never says how much it has consumed.      *)
(***************************************************************************)
EXTENDS Parcel, FiniteSets

CONSTANTS
  Threads,
  Handles,           \* the handles asked for, 0 being the context manager
  Drivers,           \* paths of drivers
  defaultDriver,     \* "/dev/binder"
  Errnos,            \* what the errno of a thread may be when it calls
  TrWords,           \* the words of a binder_transaction_data
  MaxWork            \* bound on the ProcessStates, the lookups and the calls together

ASSUME IPCConstants ==
  /\ Handles \subseteq Nat /\ defaultDriver \in Drivers
  /\ Errnos \subseteq {"OK", "EINTR", "OTHER"}
  /\ TrWords \in Nat \ {0} /\ MaxWork \in Nat
ASSUME NobodyIsNoThread == "nobody" \notin Threads

VARIABLES
  processes,         \* the ProcessStates made, in order, by their mDriverFD
  gProcess,          \* the current one, 0 for none, and its path
  mDriverName,
  table,             \* mHandleToObject: the proxy of each slot, 0 for none
  proxies,           \* the proxies created, in order: [of, handle, life, weak]
  held,              \* threads: the proxy in its sp<IBinder>, 0 for none
  gHaveTLS, gTLS,    \* the key, by the number of keys created
  gTLSMutex,
  tls,               \* threads: the key its IPCThreadState is stored under, 0 for none
  mProcess, mOut,    \* of that IPCThreadState
  made,              \* threads: the IPCThreadStates made for it (history)
  pc,
  errno,             \* threads: what an earlier call left, for talkWithDriver to read
  sent,              \* threads: the handles of its transactions (history)
  executed,          \* threads: those the driver has executed (history)
  manager,           \* the driver has a context manager
  work               \* a count that is bounded

pvars == <<processes, gProcess, mDriverName>>
hvars == <<table, proxies, held>>
kvars == <<gHaveTLS, gTLS, gTLSMutex>>
svars == <<tls, mProcess, mOut, made>>
dvars == <<sent, executed, manager>>
vars == <<pvars, hvars, kvars, svars, dvars, pc, errno, work>>

Init ==
  /\ processes = <<>> /\ gProcess = 0 /\ mDriverName = ""
  /\ table = <<>> /\ proxies = <<>> /\ held = [t \in Threads |-> 0]
  /\ gHaveTLS = FALSE /\ gTLS = 0 /\ gTLSMutex = "nobody"
  /\ tls = [t \in Threads |-> 0] /\ mProcess = [t \in Threads |-> 0]
  /\ mOut = [t \in Threads |-> EmptyParcel] /\ made = [t \in Threads |-> 0]
  /\ pc = [t \in Threads |-> "user"] /\ errno = [t \in Threads |-> "OK"]
  /\ sent = [t \in Threads |-> <<>>] /\ executed = [t \in Threads |-> {}]
  /\ manager = FALSE
  /\ work = 0

Work == work < MaxWork /\ work' = work + 1
Goto(t, step) == pc' = [pc EXCEPT ![t] = step]
At(t, from, to) == pc[t] = from /\ Goto(t, to)

-----------------------------------------------------------------------------
(* ProcessState. The driver may fail to open or to map, and the process     *)
(* goes on without one.                                                     *)
NewProcessState(path) ==
  /\ Work
  /\ gProcess' = Len(processes) + 1
  /\ mDriverName' = path

(* ~ProcessState closes the driver when the last sp<ProcessState> is gone:  *)
(* that of gProcess and the mProcess of the threads.                        *)
Released(ps, p, current, users) ==
  IF p # 0 /\ p # current /\ users = {} THEN [ps EXCEPT ![p] = "closed"] ELSE ps

UsersOf(p) == {u \in Threads : mProcess[u] = p}

(* self(), under gProcessMutex, when there is none yet.                     *)
ProcessStateSelf(t) ==
  /\ pc[t] = "user" /\ gProcess = 0
  /\ NewProcessState(defaultDriver)
  /\ \E fd \in {"open", "none"} : processes' = Append(processes, fd)
  /\ UNCHANGED <<hvars, kvars, svars, dvars, pc, errno>>

(* initWithDriver, under gProcessMutex. A path that cannot be read is       *)
(* replaced with the default one, and unless the current ProcessState has   *)
(* the path that was asked for, it is replaced by a new one.                *)
InitWithDriver(t, d) ==
  /\ pc[t] = "user"
  /\ gProcess # 0 => mDriverName # d
  /\ \E path \in {d, defaultDriver} : NewProcessState(path)
  /\ \E fd \in {"open", "none"} :
       processes' = Released(Append(processes, fd), gProcess, gProcess', UsersOf(gProcess))
  /\ table' = <<>>
  /\ UNCHANGED <<proxies, held, kvars, svars, dvars, pc, errno>>

-----------------------------------------------------------------------------
(* The table of proxies of the current ProcessState. It keeps the address of *)
(* a proxy and of its counter block and holds no reference on either.       *)
(* insertAt fills the slots up to h.                                        *)
Grown(tab, h) == [i \in 1 .. (IF Len(tab) <= h THEN h + 1 ELSE Len(tab)) |->
                    IF i <= Len(tab) THEN tab[i] ELSE 0]

(* editItemAt(h) is slot 0 whatever h is: the handles share one entry.      *)
Entry(tab, h) == Grown(tab, h)[1]

(* Bug: the new proxy is not noted in the table.                            *)
CreateProxyUnnoted(t, h) ==
  /\ proxies' = Append(proxies, [of |-> gProcess, handle |-> h, life |-> "live", weak |-> 0])
  /\ table' = Grown(table, h)
  /\ held' = [held EXCEPT ![t] = Len(proxies) + 1]

CreateProxy(t, h) ==
  /\ proxies' = Append(proxies, [of |-> gProcess, handle |-> h, life |-> "live", weak |-> 0])
  /\ table' = [Grown(table, h) EXCEPT ![1] = Len(proxies) + 1]
  /\ held' = [held EXCEPT ![t] = Len(proxies) + 1]

Got(t, h) ==
  LET p == Entry(table, h)
      Null == /\ table' = Grown(table, h)
              /\ UNCHANGED held
      (* attemptIncWeak succeeds: the new reference is never used and never *)
      (* given back, and the result is null.                                *)
      Leaked == Null /\ proxies' = [proxies EXCEPT ![p].weak = @ + 1]
  IN  IF p = 0 THEN CreateProxy(t, h)
      ELSE IF proxies[p].life # "freed" THEN Leaked
      (* The counter block was freed: its count may read as anything.       *)
      ELSE CreateProxy(t, h) \/ (Null /\ UNCHANGED proxies)

(* getStrongProxyForHandle, under mLock.                                    *)
GetStrongProxyForHandle(t, h) ==
  /\ pc[t] = "user" /\ gProcess # 0 /\ held[t] = 0
  /\ Work
  /\ Got(t, h)
  /\ UNCHANGED <<pvars, kvars, svars, dvars, pc, errno>>

(* A thread gives a copy of its sp to another one.                          *)
Share(t, u) ==
  /\ pc[t] = "user" /\ held[t] # 0
  /\ pc[u] = "user" /\ held[u] = 0
  /\ held' = [held EXCEPT ![u] = held[t]]
  /\ UNCHANGED <<pvars, table, proxies, kvars, svars, dvars, pc, errno, work>>

(* ~sp: the proxy is destroyed with its last strong reference, and ...      *)
Drop(t) ==
  /\ pc[t] = "user" /\ held[t] # 0
  /\ held' = [held EXCEPT ![t] = 0]
  /\ proxies' = IF \E u \in Threads \ {t} : held[u] = held[t] THEN proxies
                ELSE [proxies EXCEPT ![held[t]].life = "dying"]
  /\ UNCHANGED <<pvars, table, kvars, svars, dvars, pc, errno, work>>

(* ... then the weak reference that the strong ones had: the counter block  *)
(* is freed with the last weak reference, and kept for good with a leaked   *)
(* one.                                                                     *)
Destroyed(p) ==
  /\ proxies[p].life = "dying" /\ proxies[p].weak = 0
  /\ proxies' = [proxies EXCEPT ![p].life = "freed"]
  /\ UNCHANGED <<pvars, table, held, kvars, svars, dvars, pc, errno, work>>

-----------------------------------------------------------------------------
(* BpBinder::transact and IPCThreadState::self.                             *)
Call(t) ==
  /\ At(t, "user", "self")
  /\ held[t] # 0
  /\ Work
  /\ UNCHANGED <<pvars, hvars, kvars, svars, dvars, errno>>

Self(t) ==                   \* gHaveTLS, without the lock
  /\ pc[t] = "self"
  /\ Goto(t, IF gHaveTLS THEN "get" ELSE "lock")
  /\ UNCHANGED <<pvars, hvars, kvars, svars, dvars, errno, work>>

LockTLS(t) ==
  /\ At(t, "lock", "locked")
  /\ gTLSMutex = "nobody"
  /\ gTLSMutex' = t
  /\ UNCHANGED <<pvars, hvars, gHaveTLS, gTLS, svars, dvars, errno, work>>

(* Without a key self() returns null and transact writes through it: the    *)
(* process dies.                                                            *)
Crash == pc' = [t \in Threads |-> "dead"]

CreateKey(t) ==
  \/ /\ gTLS' = gTLS + 1
     /\ gHaveTLS' = TRUE
     /\ Goto(t, "get")
  \/ /\ Crash
     /\ UNCHANGED <<gTLS, gHaveTLS>>

(* Bug: the first thread to come is taken to be the only one.               *)
MakeKeyUnchecked(t) ==
  /\ pc[t] = "locked"
  /\ CreateKey(t)
  /\ gTLSMutex' = "nobody"
  /\ UNCHANGED <<pvars, hvars, svars, dvars, errno, work>>

(* Bug: the thread that makes the key does not unlock.                      *)
MakeKeyKeepsLock(t) ==
  /\ pc[t] = "locked"
  /\ IF gHaveTLS THEN Goto(t, "get") /\ gTLSMutex' = "nobody" /\ UNCHANGED <<gTLS, gHaveTLS>>
     ELSE CreateKey(t) /\ UNCHANGED gTLSMutex
  /\ UNCHANGED <<pvars, hvars, svars, dvars, errno, work>>

MakeKey(t) ==
  /\ pc[t] = "locked"
  /\ IF gHaveTLS THEN Goto(t, "get") /\ UNCHANGED <<gTLS, gHaveTLS>> ELSE CreateKey(t)
  /\ gTLSMutex' = "nobody"
  /\ UNCHANGED <<pvars, hvars, svars, dvars, errno, work>>

(* pthread_getspecific, and the constructor when it has nothing.            *)
GetState(t) ==
  /\ At(t, "get", "write")
  /\ IF tls[t] = gTLS THEN UNCHANGED svars
     ELSE /\ tls' = [tls EXCEPT ![t] = gTLS]
          /\ mProcess' = [mProcess EXCEPT ![t] = gProcess]
          /\ mOut' = [mOut EXCEPT ![t] = EmptyParcel]
          /\ made' = [made EXCEPT ![t] = @ + 1]
  /\ UNCHANGED <<pvars, hvars, kvars, dvars, errno, work>>

-----------------------------------------------------------------------------
(* writeTransactionData: the command word and the transaction behind it,    *)
(* whatever became of the first write, and no error for either. A word is   *)
(* known by its transaction and its place in it.                            *)
Command(i) == <<[txn |-> i, at |-> 0]>>
Tr(i) == [k \in 1 .. TrWords |-> [txn |-> i, at |-> k]]

WriteTransactionData(t) ==
  /\ At(t, "write", "talk")
  /\ LET i == Len(sent[t]) + 1 IN
     /\ sent' = [sent EXCEPT ![t] = Append(@, proxies[held[t]].handle)]
     /\ \E p \in Writes(mOut[t], Command(i)) : \E q \in Writes(p, Tr(i)) :
          mOut' = [mOut EXCEPT ![t] = q]
  /\ \E e \in Errnos : errno' = [errno EXCEPT ![t] = e]
  /\ UNCHANGED <<pvars, hvars, kvars, tls, mProcess, made, executed, manager, work>>

(* data.errorCheck: what the caller could not write is not sent, and the    *)
(* driver is not called.                                                    *)
DataError(t) ==
  /\ At(t, "write", "user")
  /\ UNCHANGED <<pvars, hvars, kvars, svars, dvars, errno, work>>

(* What the driver finds in a buffer: it passes over words that are not the *)
(* command, and takes the words behind a command for its transaction.       *)
Commands(out) == {p \in DOMAIN out.data : out.data[p].at = 0}
TxnAt(out, p) == out.data[p].txn
CutShort(out, p) == p + TrWords > Len(out.data)
Whole(out, p) == ~CutShort(out, p) /\ SubSeq(out.data, p + 1, p + TrWords) = Tr(TxnAt(out, p))

(* It executes those before the first without a target: behind a command    *)
(* that is not whole the handle is read from the next command.              *)
Executable(t, out, p) == Whole(out, p) /\ manager /\ sent[t][TxnAt(out, p)] = 0
Executes(t, out) ==
  {p \in Commands(out) : \A q \in Commands(out) : q <= p => Executable(t, out, q)}
AllExecuted(t, out) == Executes(t, out) = Commands(out)

(* The last one may be cut short: the driver reads on past the end of what  *)
(* was written, and goes on, fails or kills the thread.                     *)
OnlyCutShort(t, out) ==
  \E p \in Commands(out) : CutShort(out, p) /\ Commands(out) = Executes(t, out) \cup {p}

Return(t) == Goto(t, "user") /\ errno' = [errno EXCEPT ![t] = "OK"]

IoctlWriteRead(t) ==
  LET out == mOut[t]
      Run == executed' = [executed EXCEPT ![t] = @ \cup {TxnAt(out, p) : p \in Executes(t, out)}]
      Ends == AllExecuted(t, out) \/ OnlyCutShort(t, out)
  IN  (* ioctl returns 0, and talkWithDriver the errno of some earlier call.*)
      \/ /\ Run /\ Ends
         /\ IF errno[t] = "EINTR" THEN UNCHANGED <<pc, errno>> ELSE Return(t)
      (* ioctl fails, which is taken for success.                           *)
      \/ /\ (Run /\ OnlyCutShort(t, out)) \/ UNCHANGED executed
         /\ Return(t)
      \/ /\ Run /\ ~AllExecuted(t, out)
         /\ Goto(t, "dead")
         /\ UNCHANGED errno

(* talkWithDriver. As nothing is ever consumed, mOut is never drained, and  *)
(* as nothing is ever read, mIn stays empty and needRead true.              *)
TalkWithDriver(t) ==
  /\ pc[t] = "talk"
  /\ IF processes[mProcess[t]] # "open" \/ mOut[t].mDataSize = 0
       THEN Return(t) /\ UNCHANGED executed
       ELSE IoctlWriteRead(t)
  /\ UNCHANGED <<pvars, hvars, kvars, svars, sent, manager, work>>

(* threadDestructor, for the key that is current when the thread exits.     *)
(* (BINDER_THREAD_EXIT is unknown to the driver.)                           *)
ExitThread(t) ==
  /\ At(t, "user", "gone")
  /\ held[t] = 0 /\ tls[t] # 0
  /\ tls' = [tls EXCEPT ![t] = 0]
  /\ mProcess' = [mProcess EXCEPT ![t] = 0]
  /\ mOut' = [mOut EXCEPT ![t] = EmptyParcel]
  /\ processes' = Released(processes, mProcess[t], gProcess, UsersOf(mProcess[t]) \ {t})
  /\ UNCHANGED <<gProcess, mDriverName, hvars, kvars, made, dvars, errno, work>>

(* Another process becomes context manager, and stays it.                   *)
ManagerAppears ==
  /\ ~manager
  /\ manager' = TRUE
  /\ UNCHANGED <<pvars, hvars, kvars, svars, sent, executed, pc, errno, work>>

-----------------------------------------------------------------------------
Step(t) ==
  \/ Self(t) \/ LockTLS(t) \/ MakeKey(t) \/ GetState(t)
  \/ WriteTransactionData(t) \/ DataError(t) \/ TalkWithDriver(t)

Next ==
  \/ \E t \in Threads :
       \/ ProcessStateSelf(t) \/ \E d \in Drivers : InitWithDriver(t, d)
       \/ \E h \in Handles : GetStrongProxyForHandle(t, h)
       \/ \E u \in Threads : Share(t, u)
       \/ Drop(t) \/ Call(t) \/ ExitThread(t) \/ Step(t)
  \/ \E p \in DOMAIN proxies : Destroyed(p)
  \/ ManagerAppears

Spec == Init /\ [][Next]_vars

(* The scheduler runs a thread that is in a call, and pthread_mutex_lock    *)
(* returns when the lock is free. Nothing makes a thread call again.        *)
FairSpec == Spec /\ \A t \in Threads : WF_vars(Step(t))

-----------------------------------------------------------------------------
(* Whatever the threads' first calls interleave with, one key is made for   *)
(* the process and one IPCThreadState for a thread, and while a thread has  *)
(* it, its ProcessState keeps its driver, also when initWithDriver has      *)
(* replaced it for those that come after.                                   *)
OneState ==
  /\ gTLS <= 1
  /\ \A t \in Threads :
       /\ made[t] <= 1
       /\ mProcess[t] # 0 => processes[mProcess[t]] # "closed"

(* mOut holds all that the thread has ever sent, in order and whole, unless *)
(* an allocation failed, and never more than its capacity; the driver has   *)
(* executed no transaction before an older one of the same thread.          *)
Stride == 1 + TrWords
Everything(t) == [w \in 1 .. (Stride * Len(sent[t])) |->
                    [txn |-> ((w - 1) \div Stride) + 1, at |-> (w - 1) % Stride]]
OutIsHistory ==
  \A t \in Threads :
    LET out == mOut[t] IN
    /\ out.mDataSize = Word * Len(out.data) /\ out.mDataSize <= out.mDataCapacity
    /\ tls[t] # 0 /\ out.mError = "NO_ERROR" =>
         /\ out.data = Everything(t)
         /\ \A i \in executed[t] : \A j \in 1 .. i : j \in executed[t]
    /\ tls[t] # 0 =>
         \A v, w \in 1 .. Len(out.data) :
           v < w => Stride * out.data[v].txn + out.data[v].at
                      < Stride * out.data[w].txn + out.data[w].at

(* Threads that ask for a handle at once, while others drop what they got,  *)
(* never get two proxies of it at a time; a live proxy is the one the table *)
(* names, so that the next lookup finds it and does not make another.       *)
OneProxy ==
  \A p \in DOMAIN proxies :
    proxies[p].life = "live" =>
      /\ \E t \in Threads : held[t] = p
      /\ proxies[p].of = gProcess => table[1] = p
      /\ \A q \in DOMAIN proxies \ {p} :
           proxies[q].of = proxies[p].of /\ proxies[q].handle = proxies[p].handle
             => proxies[q].life # "live"

(* A call returns (or ends the thread), whichever threads make their first  *)
(* call at the same time, but not to a thread whose errno is still EINTR    *)
(* from something else: it repeats the ioctl for ever.                      *)
CallReturns ==
  \A t \in Threads :
    (pc[t] = "self") ~> (pc[t] \in {"user", "dead", "gone"} \/ errno[t] = "EINTR")

=============================================================================

------------------------------- MODULE Looper -------------------------------
(***************************************************************************)
(* droid::Looper (system/core/libutils/Looper.cpp): one looper thread that  *)
(* polls and delivers, and threads that send messages to it.                *)
(*                                                                         *)
(* A step of the looper thread ends where it lets go of mLock, enters or    *)
(* leaves epoll_wait, or returns. A send is two steps: the insertion under  *)
(* mLock, and the write to the eventfd after mLock is released. Time is     *)
(* counted in units of which NsPerMs make a millisecond.                    *)
(*                                                                         *)
(* mRequests stays empty (the repository has no addFd), so epoll reports    *)
(* the eventfd only and mResponses stays empty.                             *)
(***************************************************************************)
EXTENDS VectorImpl, FiniteSets

CONSTANTS
  Senders,      \* the threads that send
  Uptimes,      \* the times messages are sent for
  Timeouts,     \* the timeoutMillis pollOnce and pollAll are called with
  NsPerMs,      \* units of time in a millisecond
  INT_MAX,      \* the largest timeout in milliseconds
  LLONG_MAX,    \* no time at all
  MaxMessages,  \* bound on the messages sent
  Horizon       \* bound on the clock

ASSUME NsPerMsPositive == NsPerMs \in Nat \ {0}
ASSUME TimesInRange == /\ Uptimes \subseteq Nat /\ Timeouts \subseteq Int
                       /\ INT_MAX \in Nat \ {0} /\ LLONG_MAX \in Nat
                       /\ \A u \in Uptimes : u < LLONG_MAX
(* The clock of nanoseconds and an int of milliseconds are far from the end  *)
(* of a long long: pollOnce and pollAll compute no time that overflows.     *)
ASSUME NoOverflow == \A t \in Timeouts : t >= 0 => Horizon + t * NsPerMs < LLONG_MAX
ASSUME BoundsAreNaturals == MaxMessages \in Nat /\ Horizon \in Nat

VARIABLES
  now,                 \* systemTime(SYSTEM_TIME_MONOTONIC)
  mMessageEnvelopes, mSendingMessage, mNextMessageUptime,
  signalled,           \* the counter of mWakeEventFd is not zero
  pc,                  \* where the looper thread is
  call,                \* its call: [all, timed, timeoutMillis, endTime]
  deadline,            \* when epoll_wait gives up
  result,              \* pollInner's local, then the value returned
  spc,                 \* senders: "idle", or about to "wake"
  sent, delivered,     \* the messages accepted and handled, in order (history)
  clobbered,           \* removeAt(0) hit the overlapping move (history)
  overflowed           \* a message was too far away for a timeout (history)

vars == <<now, mMessageEnvelopes, mSendingMessage, mNextMessageUptime, signalled, pc,
          call, deadline, result, spc, sent, delivered, clobbered, overflowed>>

Never == LLONG_MAX
First == ItemAt(mMessageEnvelopes, 0)
Size == mMessageEnvelopes.mCount
LockFree == pc # "drain"

(* toMillisecondTimeoutDelay rounds up, and gives up on what no int holds.  *)
(* Bug: it rounds down.                                                     *)
toMillisecondTimeoutDelayDown(referenceTime, timeoutTime) ==
  IF timeoutTime <= referenceTime THEN 0
  ELSE IF timeoutTime - referenceTime > (INT_MAX - 1) * NsPerMs THEN -1
  ELSE (timeoutTime - referenceTime) \div NsPerMs

toMillisecondTimeoutDelay(referenceTime, timeoutTime) ==
  IF timeoutTime <= referenceTime THEN 0
  ELSE IF timeoutTime - referenceTime > (INT_MAX - 1) * NsPerMs THEN -1
  ELSE (timeoutTime - referenceTime + NsPerMs - 1) \div NsPerMs

After(timeoutMillis) == IF timeoutMillis < 0 THEN Never ELSE now + timeoutMillis * NsPerMs

(* The locals outside of a call and outside of epoll_wait.                  *)
NoCall == [all |-> FALSE, timed |-> FALSE, timeoutMillis |-> 0, endTime |-> 0]

Init ==
  /\ now = 0
  /\ mMessageEnvelopes = EmptyVector(FALSE)
  /\ mSendingMessage = FALSE
  /\ mNextMessageUptime = LLONG_MAX
  /\ signalled = FALSE
  /\ pc = "idle"
  /\ call = NoCall
  /\ deadline = 0
  /\ result = "none"
  /\ spc = [s \in Senders |-> "idle"]
  /\ sent = <<>> /\ delivered = <<>>
  /\ clobbered = FALSE /\ overflowed = FALSE

Tick ==
  /\ now < Horizon
  /\ now' = now + 1
  /\ UNCHANGED <<mMessageEnvelopes, mSendingMessage, mNextMessageUptime, signalled, pc,
                 call, deadline, result, spc, sent, delivered, clobbered, overflowed>>

-----------------------------------------------------------------------------
(* sendMessageAtTime; sendMessage and sendMessageDelayed call it with a     *)
(* time they have computed from the clock.                                  *)

(* How many messages the insertion loop passes: all from the front that are *)
(* not later than uptime.                                                   *)
(* Bug: a message goes before those for the same time.                      *)
InsertionPointBeforeEqual(uptime, i) ==
  /\ \A j \in 0 .. (i - 1) : uptime > ItemAt(mMessageEnvelopes, j).uptime
  /\ i < Size => uptime <= ItemAt(mMessageEnvelopes, i).uptime

InsertionPoint(uptime, i) ==
  /\ \A j \in 0 .. (i - 1) : uptime >= ItemAt(mMessageEnvelopes, j).uptime
  /\ i < Size => uptime < ItemAt(mMessageEnvelopes, i).uptime

Insert(uptime, i) ==
  /\ LockFree
  /\ Len(sent) < MaxMessages
  /\ InsertionPoint(uptime, i)
  /\ LET m == [uptime |-> uptime, id |-> Len(sent) + 1] IN
       /\ mMessageEnvelopes' = insertAt(mMessageEnvelopes, m, i, 1)
       /\ sent' = Append(sent, m)

(* Bug: the looper is woken for the first message only, not for an earlier. *)
SendMessageAtTimeWakesIfEmpty(s, uptime) ==
  /\ spc[s] = "idle"
  /\ \E i \in 0 .. Size :
       /\ Insert(uptime, i)
       /\ spc' = [spc EXCEPT ![s] = IF ~mSendingMessage /\ Size = 0 THEN "wake" ELSE "idle"]
  /\ UNCHANGED <<now, mSendingMessage, mNextMessageUptime, signalled, pc, call, deadline,
                 result, delivered, clobbered, overflowed>>

SendMessageAtTime(s, uptime) ==
  /\ spc[s] = "idle"
  /\ \E i \in 0 .. Size :
       /\ Insert(uptime, i)
       /\ spc' = [spc EXCEPT ![s] = IF ~mSendingMessage /\ i = 0 THEN "wake" ELSE "idle"]
  /\ UNCHANGED <<now, mSendingMessage, mNextMessageUptime, signalled, pc, call, deadline,
                 result, delivered, clobbered, overflowed>>

CallWake(s) ==               \* Looper::wake called by itself
  /\ spc[s] = "idle"
  /\ ~signalled
  /\ spc' = [spc EXCEPT ![s] = "wake"]
  /\ UNCHANGED <<now, mMessageEnvelopes, mSendingMessage, mNextMessageUptime, signalled, pc,
                 call, deadline, result, sent, delivered, clobbered, overflowed>>

Wake(s) ==                   \* write(mWakeEventFd)
  /\ spc[s] = "wake"
  /\ signalled' = TRUE
  /\ spc' = [spc EXCEPT ![s] = "idle"]
  /\ UNCHANGED <<now, mMessageEnvelopes, mSendingMessage, mNextMessageUptime, pc, call,
                 deadline, result, sent, delivered, clobbered, overflowed>>

-----------------------------------------------------------------------------
(* pollOnce and pollAll are called; pollInner computes its timeout and      *)
(* enters epoll_wait.                                                       *)
Poll(all, timeoutMillis) ==
  /\ pc = "idle"
  /\ pc' = "inner"
  /\ call' = [all |-> all, timed |-> timeoutMillis > 0, timeoutMillis |-> timeoutMillis,
              endTime |-> After(timeoutMillis)]
  /\ UNCHANGED <<now, mMessageEnvelopes, mSendingMessage, mNextMessageUptime, signalled,
                 deadline, result, spc, sent, delivered, clobbered, overflowed>>

(* Bug: the time of the next message is not looked at.                      *)
InnerTimeoutCallers(timeoutMillis) == timeoutMillis

(* The timeout pollInner waits with.                                        *)
InnerTimeout(timeoutMillis) ==
  LET messageTimeoutMillis == toMillisecondTimeoutDelay(now, mNextMessageUptime) IN
  IF /\ timeoutMillis # 0 /\ mNextMessageUptime # LLONG_MAX
     /\ messageTimeoutMillis >= 0
     /\ timeoutMillis < 0 \/ messageTimeoutMillis < timeoutMillis
    THEN messageTimeoutMillis ELSE timeoutMillis

PollInner ==
  /\ pc = "inner"
  /\ pc' = "wait"
  /\ deadline' = After(InnerTimeout(call.timeoutMillis))
  /\ result' = "WAKE"
  /\ overflowed' = (overflowed \/ /\ mNextMessageUptime # LLONG_MAX
                                  /\ toMillisecondTimeoutDelay(now, mNextMessageUptime) < 0)
  /\ UNCHANGED <<now, mMessageEnvelopes, mSendingMessage, mNextMessageUptime, signalled,
                 call, spc, sent, delivered, clobbered>>

(* epoll_wait returns: the eventfd is readable, the time is up or, at any   *)
(* time, a signal interrupts it.                                            *)
EpollReturn(outcome) ==
  /\ pc = "wait"
  /\ outcome = "event" => signalled
  /\ outcome = "timeout" => ~signalled /\ deadline # Never /\ now >= deadline
  /\ pc' = outcome
  /\ deadline' = 0
  /\ UNCHANGED <<now, mMessageEnvelopes, mSendingMessage, mNextMessageUptime, signalled,
                 call, result, spc, sent, delivered, clobbered, overflowed>>

(* mLock.lock(): awoken() reads the eventfd; then to Done.                  *)
LockAfterPoll ==
  /\ pc \in {"event", "timeout", "eintr"}
  /\ signalled' = (signalled /\ pc # "event")
  /\ result' = IF pc = "timeout" THEN "TIMEOUT" ELSE "WAKE"
  /\ mNextMessageUptime' = LLONG_MAX
  /\ pc' = "drain"
  /\ UNCHANGED <<now, mMessageEnvelopes, mSendingMessage, call, deadline, spc, sent,
                 delivered, clobbered, overflowed>>

(* Bug: a message due within the current unit of time is taken for due.     *)
TakeMessageEarly ==
  /\ pc = "drain"
  /\ Size # 0 /\ First.uptime <= now + 1
  /\ mMessageEnvelopes' = removeItemsAt(mMessageEnvelopes, 0, 1)
  /\ clobbered' = (clobbered \/ Overlaps(mMessageEnvelopes, 0, 1))
  /\ mSendingMessage' = TRUE
  /\ delivered' = Append(delivered, First)
  /\ pc' = "handler"
  /\ UNCHANGED <<now, mNextMessageUptime, signalled, call, deadline, result, spc, sent, overflowed>>

(* One round of the loop at Done: the head is due, so it is taken off and   *)
(* mLock released for its handler.                                          *)
TakeMessage ==
  /\ pc = "drain"
  /\ Size # 0 /\ First.uptime <= now
  /\ mMessageEnvelopes' = removeItemsAt(mMessageEnvelopes, 0, 1)
  /\ clobbered' = (clobbered \/ Overlaps(mMessageEnvelopes, 0, 1))
  /\ mSendingMessage' = TRUE
  /\ delivered' = Append(delivered, First)
  /\ pc' = "handler"
  /\ UNCHANGED <<now, mNextMessageUptime, signalled, call, deadline, result, spc, sent, overflowed>>

HandlerSends(uptime) ==      \* handleMessage sends to its own looper
  /\ pc = "handler"
  /\ \E i \in 0 .. Size : Insert(uptime, i)
  /\ UNCHANGED <<now, mSendingMessage, mNextMessageUptime, signalled, pc, call, deadline,
                 result, spc, delivered, clobbered, overflowed>>

HandlerDone ==               \* mLock.lock() after handleMessage
  /\ pc = "handler"
  /\ mSendingMessage' = FALSE
  /\ result' = "CALLBACK"
  /\ pc' = "drain"
  /\ UNCHANGED <<now, mMessageEnvelopes, mNextMessageUptime, signalled, call, deadline,
                 spc, sent, delivered, clobbered, overflowed>>

(* Nothing more is due: pollInner and pollOnce return, and pollAll goes on  *)
(* polling as long as the result is POLL_CALLBACK and time is left.         *)
PollDone ==
  /\ pc = "drain"
  /\ Size # 0 => First.uptime > now
  /\ mNextMessageUptime' = IF Size # 0 THEN First.uptime ELSE LLONG_MAX
  /\ LET again == call.all /\ result = "CALLBACK"
         left  == toMillisecondTimeoutDelay(now, call.endTime)
     IN  \/ /\ ~again
            /\ pc' = "idle"
            /\ call' = NoCall
            /\ UNCHANGED result
         \/ /\ again /\ ~call.timed
            /\ pc' = "inner"
            /\ UNCHANGED <<call, result>>
         \/ /\ again /\ call.timed /\ left # 0
            /\ pc' = "inner"
            /\ call' = [call EXCEPT !.timeoutMillis = left]
            /\ UNCHANGED result
         \/ /\ again /\ call.timed /\ left = 0
            /\ pc' = "idle"
            /\ result' = "TIMEOUT"
            /\ call' = NoCall
  /\ UNCHANGED <<now, mMessageEnvelopes, mSendingMessage, signalled, deadline, spc, sent,
                 delivered, clobbered, overflowed>>

-----------------------------------------------------------------------------
Looping ==
  \/ \E all \in BOOLEAN, t \in Timeouts : Poll(all, t)
  \/ PollInner
  \/ EpollReturn("event") \/ EpollReturn("timeout")
  \/ LockAfterPoll \/ TakeMessage \/ HandlerDone \/ PollDone

Next ==
  \/ Tick
  \/ Looping
  \/ EpollReturn("eintr")
  \/ \E u \in Uptimes : HandlerSends(u)
  \/ \E s \in Senders : CallWake(s) \/ Wake(s) \/ \E u \in Uptimes : SendMessageAtTime(s, u)

Spec == Init /\ [][Next]_vars

(* The thread of a looper calls pollOnce or pollAll again and again, as     *)
(* LooperTest does, and is never held up for ever: its handlers return and  *)
(* mLock is held for short; senders finish their sends; time passes.        *)
FairSpec == /\ Spec
            /\ WF_vars(Tick) /\ WF_vars(Looping)
            /\ \A s \in Senders : WF_vars(Wake(s))

-----------------------------------------------------------------------------
Messages == [uptime : Uptimes, id : 1 .. MaxMessages]
Waiting == {"idle", "inner", "wait", "event", "timeout", "eintr"}

(* Every variable is of its type, and mSendingMessage says where the looper *)
(* thread is.                                                               *)
TypeOK ==
  /\ now \in 0 .. Horizon
  /\ mMessageEnvelopes.mCount \in 0 .. mMessageEnvelopes.capacity
  /\ mNextMessageUptime \in Uptimes \cup {LLONG_MAX}
  /\ signalled \in BOOLEAN /\ clobbered \in BOOLEAN /\ overflowed \in BOOLEAN
  /\ pc \in Waiting \cup {"drain", "handler"}
  /\ mSendingMessage = (pc = "handler")
  /\ result \in {"none", "WAKE", "CALLBACK", "TIMEOUT"}
  /\ spc \in [Senders -> {"idle", "wake"}]
  /\ sent \in Seq(Messages) /\ delivered \in Seq(Messages)

(* No wake-up is lost: whenever the looper thread sleeps in epoll_wait, or  *)
(* is on its way into or out of it, and a message is queued, the eventfd is *)
(* signalled, or a sender is about to signal it, or the looper's timeout    *)
(* was computed from a time that is not later than the first message's.     *)
NoLostWakeup ==
  (pc \in Waiting /\ Size # 0) =>
    \/ signalled
    \/ \E s \in Senders : spc[s] = "wake"
    \/ mNextMessageUptime <= First.uptime

(* The rest of the inductive invariant of Looper_proofs: the storage of the *)
(* vector holds at least the messages counted.                              *)
Slots == [val : Messages, live : BOOLEAN]
StorageOf(v) ==
  /\ v.trivial = FALSE
  /\ v.mCount \in Nat /\ v.capacity \in Nat /\ v.mCount <= v.capacity
  /\ DOMAIN v.slots = 0 .. (v.capacity - 1)
  /\ \A k \in 0 .. (v.mCount - 1) : v.slots[k] \in Slots

IInv == TypeOK /\ StorageOf(mMessageEnvelopes) /\ NoLostWakeup

Earlier(m, k) == m.uptime < k.uptime \/ (m.uptime = k.uptime /\ m.id < k.id)
Pending == {sent[i] : i \in DOMAIN sent} \ {delivered[i] : i \in DOMAIN delivered}

(* The queue is exactly the messages accepted and not yet handled, in the   *)
(* order of their times and, for equal times, of their sends; each once and *)
(* with its handler still referenced. It stays so under all sends, from     *)
(* handlers too, until a removal runs into the vector's overlapping move.   *)
QueueIntact ==
  clobbered \/
    /\ Cardinality(Pending) = Size
    /\ \A k \in 0 .. (Size - 1) :
         /\ mMessageEnvelopes.slots[k].live
         /\ ItemAt(mMessageEnvelopes, k) \in Pending
         /\ k > 0 => Earlier(ItemAt(mMessageEnvelopes, k - 1), ItemAt(mMessageEnvelopes, k))

(* A message is handled once, not before its time, and before every message *)
(* accepted so far that is for a later time, or for the same and was sent   *)
(* after it.                                                                *)
HandledInOrder ==
  [][delivered' # delivered /\ ~clobbered =>
       LET m == delivered'[Len(delivered')] IN
       /\ m \in Pending /\ m.uptime <= now
       /\ \A k \in Pending \ {m} : Earlier(m, k)]_vars

(* POLL_TIMEOUT is returned only when the time the caller gave is up: the   *)
(* shorter timeout for the next message, rounded up to milliseconds, always *)
(* finds that message due.                                                  *)
NoEarlyTimeout ==
  [][pc # "idle" /\ pc' = "idle" /\ result' = "TIMEOUT" =>
       call.endTime # Never /\ now >= call.endTime]_vars

(* Every message accepted is handled in the end, unless the vector lost it  *)
(* or a message was more than INT_MAX-1 milliseconds away, for which        *)
(* pollInner sets no timeout at all.                                        *)
EveryMessageHandled ==
  \A i \in 1 .. MaxMessages :
    (Len(sent) >= i) ~> \/ \E k \in DOMAIN delivered : delivered[k].id = i
                        \/ clobbered \/ overflowed
=============================================================================

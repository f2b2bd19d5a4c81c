--------------------------- MODULE Looper_proofs ---------------------------
(***************************************************************************)
(* Proofs about Looper, for any number of senders, messages and times, and  *)
(* about the class of vector its queue is one of, for any elements.         *)
(***************************************************************************)
EXTENDS Looper, Vector, FiniteSetTheorems, SequenceTheorems, NaturalsInduction,
        WellFoundedInduction, TLAPS

(* Inserting one message keeps the storage sound, and puts the message      *)
(* between what was before and what was at the place.                       *)
LEMMA InsertKeeps ==
  ASSUME NEW v, StorageOf(v), NEW m \in Messages, NEW i \in 0 .. v.mCount
  PROVE  LET w == insertAt(v, m, i, 1) IN
         /\ StorageOf(w) /\ w.mCount = v.mCount + 1
         /\ w.slots[i] = Built(m)
         /\ \A k \in 0 .. v.mCount : /\ k < i => w.slots[k] = v.slots[k]
                                     /\ k > i => w.slots[k] = v.slots[k - 1]
<1> DEFINE n == v.mCount + 1
           c == Larger(kMinVectorCapacity, n + n \div 2)
           g == grow(v, i, 1)
           w == insertAt(v, m, i, 1)
<1>1. v.mCount \in Nat /\ v.capacity \in Nat /\ i \in Nat /\ i <= v.mCount /\ ~v.trivial
  BY DEF StorageOf
<1>2. c \in Nat /\ c >= n
  <2>1. n \div 2 \in Nat
    BY <1>1
  <2> QED BY <1>1, <2>1 DEF Larger, kMinVectorCapacity
<1>3. /\ g.mCount = n
      /\ g.capacity \in Nat /\ n <= g.capacity
      /\ DOMAIN g.slots = 0 .. (g.capacity - 1)
      /\ \A k \in 0 .. (n - 1) : (k < i => g.slots[k] = v.slots[k])
                              /\ (k > i => g.slots[k] = v.slots[k - 1])
  <2>1. CASE v.capacity < n
    <3>2. /\ g.mCount = n /\ g.capacity = c
          /\ g.slots = Reallocated(v, c, i, 1, i, n)
      BY <2>1 DEF grow, With
    <3>3. \A k \in 0 .. (n - 1) :
            /\ k < i => Reallocated(v, c, i, 1, i, n)[k] = v.slots[k]
            /\ k > i => Reallocated(v, c, i, 1, i, n)[k] = v.slots[k - 1]
      BY <1>1, <1>2 DEF Reallocated
    <3>4. DOMAIN Reallocated(v, c, i, 1, i, n) = 0 .. (c - 1)
      BY DEF Reallocated
    <3> HIDE DEF c, g
    <3> QED BY <1>2, <3>2, <3>3, <3>4
  <2>2. CASE ~(v.capacity < n)
    <3> DEFINE f == MoveForward(v.slots, FALSE, i + 1, i, v.mCount - i)
    <3>1. v.trivial = FALSE
      BY DEF StorageOf
    <3>2. g.mCount = n /\ g.capacity = v.capacity /\ g.slots = f
      BY <1>1, <2>2, <3>1 DEF grow, With
    <3>3. DOMAIN f = 0 .. (v.capacity - 1)
      BY DEF MoveForward, StorageOf
    <3>4. \A k \in 0 .. (n - 1) : k < i => f[k] = v.slots[k]
      BY <1>1, <2>2 DEF MoveForward, StorageOf
    <3>5. \A k \in 0 .. (n - 1) : k > i => f[k] = v.slots[k - 1]
      <4> SUFFICES ASSUME NEW k \in 0 .. (n - 1), k > i PROVE f[k] = v.slots[k - 1]
        OBVIOUS
      <4>1. LastTaken(i + 1, i, v.mCount - i, k - (i + 1)) = k - (i + 1)
        BY <1>1 DEF LastTaken
      <4>2. k \in DOMAIN v.slots /\ 0 <= k - (i + 1) /\ k - (i + 1) < v.mCount - i
        BY <1>1, <2>2 DEF StorageOf
      <4>3. f[k] = [v.slots[i + (k - (i + 1))] EXCEPT !.live = @ /\ (i + 1 > i \/ k < i)]
        BY <4>1, <4>2 DEF MoveForward
      <4>4. i + (k - (i + 1)) = k - 1 /\ k - 1 \in 0 .. (v.mCount - 1)
        BY <1>1
      <4>5. v.slots[k - 1] \in Slots
        BY <4>4 DEF StorageOf
      <4>6. i + 1 > i
        BY <1>1
      <4>7. \A r \in Slots : [r EXCEPT !.live = @ /\ (i + 1 > i \/ k < i)] = r
        BY <4>6 DEF Slots
      <4> QED BY <4>3, <4>4, <4>5, <4>7
    <3> HIDE DEF f, g
    <3> QED BY <1>1, <2>2, <3>2, <3>3, <3>4, <3>5
  <2> QED BY <2>1, <2>2
<1> DEFINE f == [j \in DOMAIN g.slots |-> IF i <= j /\ j < i + 1 THEN Built(m) ELSE g.slots[j]]
<1>4. w = With(v, g.mCount, g.capacity, f)
  BY <1>1 DEF insertAt
<1> HIDE DEF g
<1>5. w.trivial = v.trivial /\ w.mCount = n /\ w.capacity = g.capacity /\ w.slots = f
  BY <1>3, <1>4, SMTT(20) DEF With
<1>6. \A k \in 0 .. (n - 1) : f[k] \in Slots
  <2> HIDE DEF w
  <2> SUFFICES ASSUME NEW k \in 0 .. (n - 1) PROVE f[k] \in Slots
    OBVIOUS
  <2>1. k \in DOMAIN g.slots
    BY <1>1, <1>3
  <2>2. CASE k = i
    BY <1>1, <2>1, <2>2 DEF Built, Slots
  <2>3. CASE k < i
    BY <1>1, <1>3, <2>1, <2>3, SMTT(20) DEF StorageOf
  <2>4. CASE k > i
    <3>1. k - 1 \in 0 .. (v.mCount - 1)
      BY <1>1, <2>4
    <3>2. g.slots[k] = v.slots[k - 1]
      BY <1>3, <2>4
    <3>3. f[k] = g.slots[k]
      BY <1>1, <2>1, <2>4
    <3> HIDE DEF f
    <3> QED BY <3>1, <3>2, <3>3 DEF StorageOf
  <2> QED BY <1>1, <2>2, <2>3, <2>4
<1>7. /\ f[i] = Built(m)
      /\ \A k \in 0 .. v.mCount : /\ k < i => f[k] = v.slots[k]
                                  /\ k > i => f[k] = v.slots[k - 1]
  BY <1>1, <1>3
<1>8. DOMAIN f = 0 .. (g.capacity - 1)
  BY <1>3
<1> HIDE DEF f, w
<1> QED
  <2>1. StorageOf(w)
    BY <1>1, <1>3, <1>5, <1>6, <1>8 DEF StorageOf
  <2> QED BY <1>5, <1>7, <2>1 DEF w

(* Taking the first message off keeps the storage sound, whichever elements *)
(* the move leaves in it, and unless the move overlaps moves every other    *)
(* message one slot down.                                                   *)
LEMMA RemoveKeeps ==
  ASSUME NEW v, StorageOf(v), v.mCount # 0
  PROVE  LET w == removeItemsAt(v, 0, 1) IN
         /\ StorageOf(w) /\ w.mCount = v.mCount - 1
         /\ ~Overlaps(v, 0, 1) =>
              \A k \in 0 .. (w.mCount - 1) : w.slots[k] = v.slots[k + 1]
<1> DEFINE n == v.mCount - 1
           c == Larger(kMinVectorCapacity, 2 * n)
           w == removeItemsAt(v, 0, 1)
           d == [j \in DOMAIN v.slots |->
                   IF ~v.trivial /\ 0 <= j /\ j < 0 + 1
                     THEN [v.slots[j] EXCEPT !.live = FALSE] ELSE v.slots[j]]
<1>1. v.mCount \in Nat /\ v.capacity \in Nat /\ v.mCount <= v.capacity /\ n \in Nat /\ ~v.trivial
  BY DEF StorageOf
<1>2. c \in Nat /\ c >= n
  BY <1>1 DEF Larger, kMinVectorCapacity
<1>3. w = shrink(v, 0, 1)
  BY <1>1 DEF removeItemsAt
<1>4. CASE ~InPlace(v, 1)
  <2> DEFINE f == Reallocated(v, c, 0, 0, 0 + 1, n)
  <2>2. w.trivial = v.trivial /\ w.mCount = n /\ w.capacity = c /\ w.slots = f
    BY <1>1, <1>3, <1>4 DEF shrink, With
  <2>3. DOMAIN f = 0 .. (c - 1)
    BY DEF Reallocated
  <2>4. \A k \in 0 .. (n - 1) : f[k] = v.slots[k + 1]
    BY <1>1, <1>2 DEF Reallocated
  <2>5. \A k \in 0 .. (n - 1) : v.slots[k + 1] \in Slots
    BY <1>1 DEF StorageOf
  <2> HIDE DEF f, c, w
  <2>6. StorageOf(w)
    BY <1>1, <1>2, <2>2, <2>3, <2>4, <2>5 DEF StorageOf
  <2> QED BY <2>2, <2>4, <2>6 DEF w
<1>5. CASE InPlace(v, 1)
  <2> DEFINE f == MoveForward(d, v.trivial, 0, 0 + 1, n - 0)
  <2>2. w.trivial = v.trivial /\ w.mCount = n /\ w.capacity = v.capacity /\ w.slots = f
    BY <1>1, <1>3, <1>5 DEF shrink, With
  <2>3. DOMAIN f = 0 .. (v.capacity - 1)
    BY DEF MoveForward, StorageOf
  <2>4. \A k \in 0 .. (n - 1) : f[k] \in Slots /\ (n = 1 => f[k] = v.slots[k + 1])
    <3> SUFFICES ASSUME NEW k \in 0 .. (n - 1)
                 PROVE  f[k] \in Slots /\ (n = 1 => f[k] = v.slots[k + 1])
      OBVIOUS
    <3>1. LastTaken(0, 0 + 1, n - 0, k - 0) = n - 1
      <4>1. (0 + 1) - 0 = 1 /\ k - 0 = k /\ n - 0 = n
        BY <1>1
      <4>2. (n - 1 - k) \div 1 = n - 1 - k
        BY <1>1
      <4> QED BY <1>1, <4>1, <4>2 DEF LastTaken
    <3>2. k \in DOMAIN d /\ 0 <= k - 0 /\ k - 0 < n - 0
      BY <1>1 DEF StorageOf
    <3>3. f[k] = [d[(0 + 1) + (n - 1)] EXCEPT !.live = @ /\ (0 > 0 + 1 \/ k < 0 + 1)]
      BY <1>1, <3>1, <3>2 DEF MoveForward
    <3>4. (0 + 1) + (n - 1) = n /\ n \in DOMAIN d /\ n > 0
      BY <1>1 DEF StorageOf
    <3>5. d[n] = v.slots[n]
      BY <1>1, <3>4
    <3>6. v.slots[n] \in Slots
      BY <1>1 DEF StorageOf
    <3>7. f[k] \in Slots
      BY <3>3, <3>4, <3>5, <3>6 DEF Slots
    <3>8. ASSUME n = 1 PROVE f[k] = v.slots[k + 1]
      <4>1. k = 0 /\ k + 1 = n
        BY <3>8
      <4> QED BY <3>3, <3>4, <3>5, <3>6, <4>1 DEF Slots
    <3> QED BY <3>7, <3>8
  <2> HIDE DEF f, w
  <2>6. StorageOf(w)
    BY <1>1, <2>2, <2>3, <2>4 DEF StorageOf
  <2>7. ~Overlaps(v, 0, 1) => n <= 1
    BY <1>1, <1>5 DEF Overlaps
  <2>8. ~Overlaps(v, 0, 1) => \A k \in 0 .. (n - 1) : f[k] = v.slots[k + 1]
    BY <1>1, <2>4, <2>7
  <2> QED BY <2>2, <2>6, <2>8 DEF w
<1> QED BY <1>4, <1>5

LEMMA InitIInv == Init => IInv
<1> SUFFICES ASSUME Init PROVE IInv
  OBVIOUS
<1>1. StorageOf(mMessageEnvelopes)
  BY DEF Init, EmptyVector, StorageOf
<1>2. TypeOK
  <2>1. mMessageEnvelopes.mCount \in 0 .. mMessageEnvelopes.capacity
    BY DEF Init, EmptyVector
  <2>2. <<>> \in Seq(Messages)
    OBVIOUS
  <2>3. mSendingMessage = (pc = "handler")
    <3>1. ~mSendingMessage /\ pc # "handler"
      BY DEF Init
    <3>2. mSendingMessage = FALSE
      BY DEF Init
    <3> QED BY <3>1, <3>2
  <2>4. sent \in Seq(Messages) /\ delivered \in Seq(Messages)
    BY <2>2 DEF Init
  <2>5. spc \in [Senders -> {"idle", "wake"}]
    BY DEF Init
  <2>6. now \in 0 .. Horizon
    BY BoundsAreNaturals DEF Init
  <2>7. pc \in Waiting /\ mNextMessageUptime = LLONG_MAX /\ result = "none"
    BY DEF Init, Waiting
  <2>8. signalled \in BOOLEAN /\ clobbered \in BOOLEAN /\ overflowed \in BOOLEAN
    BY DEF Init
  <2> QED BY <2>1, <2>3, <2>4, <2>5, <2>6, <2>7, <2>8 DEF TypeOK
<1>3. NoLostWakeup
  BY DEF Init, EmptyVector, NoLostWakeup, Size
<1> QED BY <1>1, <1>2, <1>3 DEF IInv

(* The first message of a queue that has one is a message.                  *)
LEMMA FirstIsMessage ==
  ASSUME StorageOf(mMessageEnvelopes), Size # 0
  PROVE  First \in Messages
<1>1. 0 \in 0 .. (mMessageEnvelopes.mCount - 1)
  BY DEF StorageOf, Size
<1>2. mMessageEnvelopes.slots[0] \in Slots
  BY <1>1 DEF StorageOf
<1> QED BY <1>2 DEF First, ItemAt, Slots

(* What an insertion does: the new message is between those before its      *)
(* place and those from it on, and the first message is not a later one.    *)
LEMMA InsertStep ==
  ASSUME IInv, NEW u \in Uptimes, NEW i \in 0 .. Size, Insert(u, i)
  PROVE  /\ StorageOf(mMessageEnvelopes')
         /\ mMessageEnvelopes'.mCount \in 0 .. mMessageEnvelopes'.capacity
         /\ sent' \in Seq(Messages)
         /\ Size' = Size + 1
         /\ mMessageEnvelopes'.slots[i] = Built([uptime |-> u, id |-> Len(sent) + 1])
         /\ \A k \in 0 .. Size :
              /\ k < i => mMessageEnvelopes'.slots[k] = mMessageEnvelopes.slots[k]
              /\ k > i => mMessageEnvelopes'.slots[k] = mMessageEnvelopes.slots[k - 1]
         /\ i # 0 => Size # 0 /\ First' = First
         /\ Size # 0 => First'.uptime <= First.uptime
<1> DEFINE v == mMessageEnvelopes
           m == [uptime |-> u, id |-> Len(sent) + 1]
           w == insertAt(v, m, i, 1)
<1>1. m \in Messages
  BY BoundsAreNaturals DEF IInv, TypeOK, Insert, Messages
<1>2. mMessageEnvelopes' = w /\ sent' = Append(sent, m)
  BY DEF Insert
<1>3. /\ Size = v.mCount /\ i \in 0 .. v.mCount /\ StorageOf(v)
      /\ v.mCount \in Nat /\ i \in Nat
  BY DEF IInv, Size, StorageOf
<1>4. m.uptime = u
  OBVIOUS
<1> HIDE DEF m
<1>5. /\ StorageOf(w) /\ w.mCount = v.mCount + 1
      /\ w.slots[i] = Built(m)
      /\ \A k \in 0 .. v.mCount : /\ k < i => w.slots[k] = v.slots[k]
                                  /\ k > i => w.slots[k] = v.slots[k - 1]
  BY <1>1, <1>3, InsertKeeps
<1> HIDE DEF w
<1>6. w.mCount \in 0 .. w.capacity
  BY <1>5 DEF StorageOf
<1>7. sent' \in Seq(Messages)
  BY <1>1, <1>2 DEF IInv, TypeOK
<1>8. i # 0 => Size # 0 /\ w.slots[0] = v.slots[0]
  BY <1>3, <1>5
<1>9. ASSUME Size # 0 PROVE w.slots[0].val.uptime <= First.uptime
  <2>1. First.uptime \in Nat
    BY <1>3, <1>9, FirstIsMessage, TimesInRange DEF Messages
  <2>2. CASE i # 0
    BY <1>8, <2>1, <2>2 DEF First, ItemAt
  <2>3. CASE i = 0
    <3>1. w.slots[0].val = m
      BY <1>5, <2>3 DEF Built
    <3>2. u < ItemAt(mMessageEnvelopes, i).uptime
      BY <1>3, <1>9, <2>3 DEF Insert, InsertionPoint
    <3> QED BY <1>4, <2>1, <2>3, <3>1, <3>2, TimesInRange DEF First
  <2> QED BY <2>2, <2>3
<1>10. \A k \in 0 .. Size :
         /\ k < i => w.slots[k] = mMessageEnvelopes.slots[k]
         /\ k > i => w.slots[k] = mMessageEnvelopes.slots[k - 1]
  BY <1>3, <1>5
<1>11. /\ Size' = Size + 1 /\ First' = w.slots[0].val /\ First = v.slots[0].val
       /\ mMessageEnvelopes' = w
  BY <1>2, <1>3, <1>5 DEF Size, First, ItemAt
<1>12. mMessageEnvelopes'.slots[i] = Built([uptime |-> u, id |-> Len(sent) + 1])
  BY <1>2, <1>5 DEF m
<1>13. StorageOf(mMessageEnvelopes')
  BY <1>5, <1>11
<1>14. i # 0 => Size # 0 /\ First' = First
  BY <1>8, <1>11
<1>15. Size # 0 => First'.uptime <= First.uptime
  BY <1>9, <1>11
<1>16. mMessageEnvelopes'.mCount \in 0 .. mMessageEnvelopes'.capacity
  BY <1>6, <1>11
<1>17. \A k \in 0 .. Size :
         /\ k < i => mMessageEnvelopes'.slots[k] = mMessageEnvelopes.slots[k]
         /\ k > i => mMessageEnvelopes'.slots[k] = mMessageEnvelopes.slots[k - 1]
  BY <1>10, <1>11
<1> QED BY <1>7, <1>11, <1>12, <1>13, <1>14, <1>15, <1>16, <1>17

LEMMA NextIInv == IInv /\ [Next]_vars => IInv'
<1> SUFFICES ASSUME IInv, [Next]_vars PROVE IInv'
  OBVIOUS
<1> USE BoundsAreNaturals
<1>1. ASSUME Tick PROVE IInv'
  BY <1>1 DEF Tick, IInv, TypeOK, StorageOf, NoLostWakeup, Size, First, ItemAt, Waiting
<1>2. ASSUME NEW s \in Senders, NEW u \in Uptimes, SendMessageAtTime(s, u) PROVE IInv'
  <2> PICK i \in 0 .. Size :
        /\ Insert(u, i)
        /\ spc' = [spc EXCEPT ![s] = IF ~mSendingMessage /\ i = 0 THEN "wake" ELSE "idle"]
    BY <1>2 DEF SendMessageAtTime
  <2>1. /\ StorageOf(mMessageEnvelopes)'
        /\ mMessageEnvelopes'.mCount \in 0 .. mMessageEnvelopes'.capacity
        /\ sent' \in Seq(Messages)
        /\ i # 0 => Size # 0 /\ First' = First
    BY InsertStep DEF StorageOf
  <2>2. UNCHANGED <<now, mSendingMessage, mNextMessageUptime, signalled, pc, call, deadline,
                    result, delivered, clobbered, overflowed>>
    BY <1>2 DEF SendMessageAtTime
  <2>3. TypeOK'
    BY <2>1, <2>2 DEF IInv, TypeOK
  <2>4. NoLostWakeup'
    <3> SUFFICES ASSUME pc \in Waiting
                 PROVE  \/ signalled
                        \/ \E t \in Senders : spc'[t] = "wake"
                        \/ mNextMessageUptime <= First'.uptime
      BY <2>2 DEF NoLostWakeup
    <3>1. ~mSendingMessage /\ spc[s] = "idle" /\ spc \in [Senders -> {"idle", "wake"}]
      BY <1>2 DEF IInv, TypeOK, Waiting, SendMessageAtTime
    <3>2. CASE i = 0
      BY <3>1, <3>2
    <3>3. CASE i # 0
      <4>1. \A t \in Senders : spc[t] = "wake" => spc'[t] = "wake"
        BY <3>1
      <4> QED BY <2>1, <3>3, <4>1 DEF IInv, NoLostWakeup
    <3> QED BY <3>2, <3>3
  <2> QED BY <2>1, <2>3, <2>4 DEF IInv
<1>3. ASSUME NEW s \in Senders, CallWake(s) PROVE IInv'
  BY <1>3 DEF CallWake, IInv, TypeOK, StorageOf, NoLostWakeup, Size, First, ItemAt, Waiting
<1>4. ASSUME NEW s \in Senders, Wake(s) PROVE IInv'
  BY <1>4 DEF Wake, IInv, TypeOK, StorageOf, NoLostWakeup, Size, First, ItemAt, Waiting
<1>5. ASSUME NEW all \in BOOLEAN, NEW t \in Timeouts, Poll(all, t) PROVE IInv'
  BY <1>5 DEF Poll, IInv, TypeOK, StorageOf, NoLostWakeup, Size, First, ItemAt, Waiting
<1>6. ASSUME PollInner PROVE IInv'
  BY <1>6 DEF PollInner, IInv, TypeOK, StorageOf, NoLostWakeup, Size, First, ItemAt, Waiting
<1>7. ASSUME NEW o \in {"event", "timeout", "eintr"}, EpollReturn(o) PROVE IInv'
  BY <1>7 DEF EpollReturn, IInv, TypeOK, StorageOf, NoLostWakeup, Size, First, ItemAt, Waiting
<1>8. ASSUME LockAfterPoll PROVE IInv'
  BY <1>8 DEF LockAfterPoll, IInv, TypeOK, StorageOf, NoLostWakeup, Waiting
<1>9. ASSUME TakeMessage PROVE IInv'
  <2>1. First \in Messages
    BY <1>9, FirstIsMessage DEF TakeMessage, IInv
  <2>2. StorageOf(mMessageEnvelopes)'
    <3>1. mMessageEnvelopes' = removeItemsAt(mMessageEnvelopes, 0, 1)
      BY <1>9 DEF TakeMessage
    <3>2. StorageOf(mMessageEnvelopes')
      BY <1>9, <3>1, RemoveKeeps DEF TakeMessage, IInv, Size
    <3> QED BY <3>2 DEF StorageOf
  <2>3. mMessageEnvelopes'.mCount \in 0 .. mMessageEnvelopes'.capacity
    BY <2>2 DEF StorageOf
  <2>4. delivered' \in Seq(Messages)
    BY <1>9, <2>1 DEF TakeMessage, IInv, TypeOK
  <2>5. clobbered' \in BOOLEAN
    BY <1>9 DEF TakeMessage, IInv, TypeOK
  <2>6. TypeOK'
    BY <1>9, <2>3, <2>4, <2>5 DEF TakeMessage, IInv, TypeOK
  <2>7. NoLostWakeup'
    BY <1>9 DEF TakeMessage, NoLostWakeup, Waiting
  <2> QED BY <2>2, <2>6, <2>7 DEF IInv
<1>10. ASSUME NEW u \in Uptimes, HandlerSends(u) PROVE IInv'
  <2> PICK i \in 0 .. Size : Insert(u, i)
    BY <1>10 DEF HandlerSends
  <2>1. /\ StorageOf(mMessageEnvelopes)'
        /\ mMessageEnvelopes'.mCount \in 0 .. mMessageEnvelopes'.capacity
        /\ sent' \in Seq(Messages)
    BY InsertStep DEF StorageOf
  <2>2. TypeOK'
    BY <1>10, <2>1 DEF HandlerSends, IInv, TypeOK
  <2>3. NoLostWakeup'
    BY <1>10 DEF HandlerSends, NoLostWakeup, Waiting
  <2> QED BY <2>1, <2>2, <2>3 DEF IInv
<1>11. ASSUME HandlerDone PROVE IInv'
  BY <1>11 DEF HandlerDone, IInv, TypeOK, StorageOf, NoLostWakeup, Waiting
<1>12. ASSUME PollDone PROVE IInv'
  <2>1. Size # 0 => First.uptime \in Uptimes
    BY FirstIsMessage DEF IInv, Messages
  <2>2. TypeOK'
    BY <1>12, <2>1 DEF PollDone, IInv, TypeOK, Waiting
  <2>3. NoLostWakeup'
    <3>1. Size # 0 => mNextMessageUptime' = First.uptime /\ First' = First
      BY <1>12 DEF PollDone, First, ItemAt
    <3>2. Size # 0 => First.uptime \in Nat
      BY <2>1, TimesInRange
    <3>3. Size' = Size
      BY <1>12 DEF PollDone, Size
    <3> QED BY <3>1, <3>2, <3>3 DEF NoLostWakeup
  <2>4. StorageOf(mMessageEnvelopes)'
    BY <1>12 DEF PollDone, IInv, StorageOf
  <2> QED BY <2>2, <2>3, <2>4 DEF IInv
<1>13. CASE UNCHANGED vars
  BY <1>13 DEF vars, IInv, TypeOK, StorageOf, NoLostWakeup, Size, First, ItemAt
<1> QED
  BY <1>1, <1>2, <1>3, <1>4, <1>5, <1>6, <1>7, <1>8, <1>9, <1>10, <1>11, <1>12, <1>13
  DEF Next, Looping

(* The queue's storage, the flags and the looper's place agree at all times *)
(* (Looper.cpp's fields are of their types).                                *)
THEOREM LooperTypes == Spec => []TypeOK
<1>1. IInv => TypeOK
  BY DEF IInv
<1> QED BY InitIInv, NextIInv, <1>1, PTL DEF Spec

(* No wake-up is lost, for any number of senders and messages: the test     *)
(* `i == 0` and mSendingMessage in sendMessageAtTime are enough to keep     *)
(* pollInner from sleeping past a message.                                  *)
THEOREM WakeupsKept == Spec => []NoLostWakeup
<1>1. IInv => NoLostWakeup
  BY DEF IInv
<1> QED BY InitIInv, NextIInv, <1>1, PTL DEF Spec
-----------------------------------------------------------------------------
(* When pollOnce may say POLL_TIMEOUT.                                      *)

Calls == [all : BOOLEAN, timed : BOOLEAN, timeoutMillis : Int, endTime : Nat]
CallerDue(t) == call.endTime # Never /\ call.endTime <= t
NextDue(t) == mNextMessageUptime # LLONG_MAX /\ mNextMessageUptime <= t

(* The call of the looper thread never has a time that is no time, and what *)
(* is left of it is not less than what pollInner is asked to wait.          *)
InCall ==
  /\ call \in Calls /\ deadline \in Nat
  /\ pc # "idle" => /\ call.timed \/ call.timeoutMillis >= 0 => call.endTime # Never
                    /\ ~call.timed /\ call.timeoutMillis >= 0 => call.endTime <= now
  /\ pc = "inner" /\ call.timeoutMillis >= 0 =>
       call.endTime <= now + call.timeoutMillis * NsPerMs

(* Where the looper gets to because of the time, the caller's time is up or *)
(* the first message due.                                                   *)
Timed ==
  /\ pc = "wait" /\ deadline # Never => CallerDue(deadline) \/ NextDue(deadline)
  /\ pc = "timeout" => CallerDue(now) \/ NextDue(now)
  /\ pc = "drain" /\ result = "TIMEOUT" =>
       CallerDue(now) \/ (Size # 0 /\ First.uptime <= now)

(* The time of the next message is one a message is queued for, or later.   *)
NextKnown ==
  pc \in Waiting /\ mNextMessageUptime # LLONG_MAX => Size # 0 /\ First.uptime <= mNextMessageUptime

CInv == InCall /\ Timed /\ NextKnown

-----------------------------------------------------------------------------
(* The queue.                                                               *)

(* Messages are numbered as they are accepted.                              *)
Numbered == \A n \in DOMAIN sent : sent[n].id = n

(* What was handled was accepted.                                           *)
Accepted == \A n \in DOMAIN delivered : delivered[n].id <= Len(sent)

(* What is queued is alive, was accepted and is not handled yet.            *)
Queued ==
  \A k \in 0 .. (Size - 1) :
    /\ mMessageEnvelopes.slots[k].live
    /\ ItemAt(mMessageEnvelopes, k) \in Pending

(* It is in order.                                                          *)
Sorted ==
  \A j, k \in 0 .. (Size - 1) :
    j < k => Earlier(ItemAt(mMessageEnvelopes, j), ItemAt(mMessageEnvelopes, k))

(* What was accepted and is not handled is queued.                          *)
Everything == \A m \in Pending : \E k \in 0 .. (Size - 1) : ItemAt(mMessageEnvelopes, k) = m

QInv == Numbered /\ (clobbered \/ (Accepted /\ Queued /\ Sorted /\ Everything))

(* Rounded up to milliseconds a delay reaches the time it is for, and is    *)
(* zero only for a time that is not in the future.                          *)
LEMMA RoundedUp ==
  ASSUME NEW r \in Nat, NEW t \in Nat
  PROVE  LET d == toMillisecondTimeoutDelay(r, t) IN
         /\ d \in Int
         /\ d >= 0 => t <= r + d * NsPerMs
         /\ d = 0 => t <= r
<1> USE NsPerMsPositive, TimesInRange
<1> DEFINE d == toMillisecondTimeoutDelay(r, t)
<1>1. CASE t <= r
  <2>1. d = 0 /\ 0 * NsPerMs = 0
    BY <1>1 DEF toMillisecondTimeoutDelay
  <2> QED BY <1>1, <2>1
<1>2. CASE ~(t <= r) /\ t - r > (INT_MAX - 1) * NsPerMs
  BY <1>2 DEF toMillisecondTimeoutDelay
<1>3. CASE ~(t <= r) /\ ~(t - r > (INT_MAX - 1) * NsPerMs)
  <2>1. PICK x \in Nat : x = t - r + NsPerMs - 1
    BY <1>3
  <2>2. d = x \div NsPerMs
    BY <1>3, <2>1 DEF toMillisecondTimeoutDelay
  <2>3. PICK q \in Nat, m \in 0 .. (NsPerMs - 1) : x = NsPerMs * q + m /\ d = q
    <3>1. /\ x \div NsPerMs \in Nat /\ x % NsPerMs \in 0 .. (NsPerMs - 1)
          /\ x = NsPerMs * (x \div NsPerMs) + (x % NsPerMs)
      OBVIOUS
    <3> QED BY <2>2, <3>1
  <2>4. PICK y \in Nat : y = NsPerMs * q
    OBVIOUS
  <2>5. q * NsPerMs = y
    BY <2>4
  <2>6. t <= r + y
    BY <2>1, <2>3, <2>4
  <2>7. q = 0 => y = 0
    BY <2>4
  <2> QED BY <1>3, <2>3, <2>5, <2>6, <2>7
<1> QED BY <1>1, <1>2, <1>3

(* epoll_wait gives up at a time when the caller's time is up or the next   *)
(* message is due.                                                          *)
LEMMA WaitsLongEnough ==
  ASSUME IInv, CInv, pc = "inner",
         NEW e, e = After(InnerTimeout(call.timeoutMillis)), e # Never
  PROVE  CallerDue(e) \/ NextDue(e)
<1> USE NsPerMsPositive, TimesInRange, BoundsAreNaturals
<1>1. now \in Nat /\ mNextMessageUptime \in Nat /\ call \in Calls /\ call.timeoutMillis \in Int
  BY DEF IInv, TypeOK, CInv, InCall, Calls
<1> DEFINE d == toMillisecondTimeoutDelay(now, mNextMessageUptime)
<1>2. /\ d \in Int
      /\ d >= 0 => mNextMessageUptime <= now + d * NsPerMs
  BY <1>1, RoundedUp
<1>3. \/ InnerTimeout(call.timeoutMillis) = call.timeoutMillis
      \/ InnerTimeout(call.timeoutMillis) = d /\ mNextMessageUptime # LLONG_MAX /\ d >= 0
  BY DEF InnerTimeout
<1> HIDE DEF d
<1>4. CASE InnerTimeout(call.timeoutMillis) = call.timeoutMillis
  <2>1. call.timeoutMillis >= 0 /\ e = now + call.timeoutMillis * NsPerMs
    BY <1>1, <1>4 DEF After, Never
  <2> QED BY <2>1 DEF CInv, InCall, CallerDue
<1>5. CASE InnerTimeout(call.timeoutMillis) = d /\ mNextMessageUptime # LLONG_MAX /\ d >= 0
  <2>1. e = now + d * NsPerMs
    BY <1>2, <1>5 DEF After
  <2> QED BY <1>2, <1>5, <2>1 DEF NextDue
<1> QED BY <1>3, <1>4, <1>5

LEMMA InitCInv == Init => CInv
  BY TimesInRange DEF Init, CInv, InCall, Timed, NextKnown, NoCall, Calls, Waiting

(* A send changes nothing of this but the first message, for an earlier one.*)
LEMMA SendKeepsCInv ==
  ASSUME IInv, CInv, NEW u \in Uptimes, NEW i \in 0 .. Size, Insert(u, i),
         UNCHANGED <<now, mNextMessageUptime, pc, call, deadline, result>>
  PROVE  CInv'
<1>1. Size' = Size + 1 /\ Size \in Nat
  BY InsertStep DEF IInv, StorageOf, Size
<1>2. Size # 0 => First'.uptime <= First.uptime /\ First'.uptime \in Nat /\ First.uptime \in Nat
  <2>1. StorageOf(mMessageEnvelopes') /\ Size' # 0
    <3>1. StorageOf(mMessageEnvelopes')
      BY InsertStep
    <3>2. Size' # 0
      BY <1>1
    <3> QED BY <3>1, <3>2
  <2>2. ASSUME Size # 0 PROVE First.uptime \in Nat
    BY <2>2, FirstIsMessage, TimesInRange DEF IInv, Messages
  <2>3. First'.uptime \in Nat
    <3>1. 0 \in 0 .. (mMessageEnvelopes'.mCount - 1)
      BY <2>1 DEF StorageOf, Size
    <3>2. mMessageEnvelopes'.slots[0] \in Slots
      BY <2>1, <3>1 DEF StorageOf
    <3> QED BY <3>2, TimesInRange DEF First, ItemAt, Slots, Messages
  <2> QED BY <2>2, <2>3, InsertStep
<1>3. pc # "drain"
  BY DEF Insert, LockFree
<1>4. InCall' /\ Timed'
  BY <1>3 DEF CInv, InCall, Timed, CallerDue, NextDue
<1>5. mNextMessageUptime \in Nat
  BY TimesInRange DEF IInv, TypeOK
<1>6. NextKnown'
  BY <1>1, <1>2, <1>5 DEF CInv, NextKnown
<1> QED BY <1>4, <1>6 DEF CInv

LEMMA NextCInv == IInv /\ CInv /\ [Next]_vars => CInv'
<1> SUFFICES ASSUME IInv, CInv, [Next]_vars PROVE CInv'
  OBVIOUS
<1> USE BoundsAreNaturals, TimesInRange, NsPerMsPositive
<1>0. now \in Nat /\ mNextMessageUptime \in Nat /\ call \in Calls /\ deadline \in Nat
  BY DEF IInv, TypeOK, CInv, InCall
<1>1. ASSUME Tick PROVE CInv'
  <2>1. now' = now + 1 /\ First' = First /\ Size' = Size
    BY <1>1 DEF Tick, First, Size, ItemAt
  <2>2. UNCHANGED <<mNextMessageUptime, pc, call, deadline, result>>
    BY <1>1 DEF Tick
  <2>3. call.endTime \in Nat /\ call.timeoutMillis \in Int
    BY <1>0 DEF Calls
  <2>4. InCall'
    <3>1. pc = "inner" /\ call.timeoutMillis >= 0 =>
            call.endTime <= now + 1 + call.timeoutMillis * NsPerMs
      <4>1. PICK y \in Int : y = call.timeoutMillis * NsPerMs
        BY <2>3
      <4> QED BY <1>0, <2>3, <4>1 DEF CInv, InCall
    <3> QED BY <1>0, <2>1, <2>2, <2>3, <3>1 DEF CInv, InCall
  <2>5. Size # 0 => First.uptime \in Nat
    BY FirstIsMessage DEF IInv, Messages
  <2>6. Timed'
    BY <1>0, <2>1, <2>2, <2>3, <2>5 DEF CInv, Timed, CallerDue, NextDue
  <2>7. NextKnown'
    BY <2>1, <2>2 DEF CInv, NextKnown
  <2> QED BY <2>4, <2>6, <2>7 DEF CInv
<1>2. ASSUME NEW s \in Senders, NEW u \in Uptimes, SendMessageAtTime(s, u) PROVE CInv'
  BY <1>2, SendKeepsCInv DEF SendMessageAtTime
<1>3. ASSUME NEW s \in Senders, CallWake(s) PROVE CInv'
  BY <1>3 DEF CallWake, CInv, InCall, Timed, NextKnown, CallerDue, NextDue, Size, First, ItemAt
<1>4. ASSUME NEW s \in Senders, Wake(s) PROVE CInv'
  BY <1>4 DEF Wake, CInv, InCall, Timed, NextKnown, CallerDue, NextDue, Size, First, ItemAt
<1>5. ASSUME NEW all \in BOOLEAN, NEW t \in Timeouts, Poll(all, t) PROVE CInv'
  <2>1. t \in Int /\ call' = [all |-> all, timed |-> t > 0, timeoutMillis |-> t,
                              endTime |-> After(t)]
    BY <1>5 DEF Poll
  <2>2. PICK b \in BOOLEAN : b = (t > 0)
    <3>1. (t > 0) \in BOOLEAN
      OBVIOUS
    <3> QED BY <3>1
  <2>2a. b <=> t > 0
    BY <2>2, Zenon
  <2>3. PICK e : e = After(t)
    OBVIOUS
  <2>4. e \in Nat /\ (t >= 0 => e # Never /\ e = now + t * NsPerMs)
    <3>1. CASE t < 0
      BY <2>1, <2>3, <3>1 DEF After, Never
    <3>2. CASE ~(t < 0)
      <4>1. t \in Nat /\ e = now + t * NsPerMs
        BY <2>1, <2>3, <3>2 DEF After
      <4>2. PICK y \in Nat : y = t * NsPerMs
        BY <4>1
      <4>3. Horizon + y < LLONG_MAX
        BY <2>1, <3>2, <4>2, NoOverflow
      <4>4. now <= Horizon
        BY DEF IInv, TypeOK
      <4> QED BY <1>0, <4>1, <4>2, <4>3, <4>4 DEF Never
    <3> QED BY <3>1, <3>2
  <2>5. call' = [all |-> all, timed |-> b, timeoutMillis |-> t, endTime |-> e]
    BY ONLY <2>1, <2>2, <2>3
  <2>6. /\ call' \in Calls /\ call'.timed = b /\ call'.timeoutMillis = t /\ call'.endTime = e
    BY <2>1, <2>4, <2>5 DEF Calls
  <2>7. ~b /\ t >= 0 => e <= now
    <3>1. ASSUME ~b, t >= 0 PROVE e <= now
      <4>1. t = 0 /\ 0 * NsPerMs = 0
        BY <2>1, <2>2a, <3>1
      <4> QED BY <1>0, <2>4, <3>1, <4>1
    <3> QED BY <3>1
  <2>8. b => t >= 0
    BY <2>1, <2>2a
  <2>9. /\ pc = "idle" /\ pc' = "inner" /\ Size' = Size /\ First' = First
        /\ UNCHANGED <<now, mNextMessageUptime, deadline, result>>
    BY <1>5 DEF Poll, Size, First, ItemAt
  <2>10. InCall'
    <3>1. t >= 0 => e <= now + t * NsPerMs
      BY <1>0, <2>4
    <3> HIDE NoOverflow
    <3> QED BY <1>0, <2>4, <2>6, <2>7, <2>8, <2>9, <3>1 DEF InCall
  <2>11. Timed' /\ NextKnown'
    BY <2>9 DEF CInv, Timed, NextKnown, Waiting
  <2> QED BY <2>10, <2>11 DEF CInv
<1>6. ASSUME PollInner PROVE CInv'
  <2>1. /\ pc = "inner" /\ pc' = "wait" /\ Size' = Size /\ First' = First
        /\ deadline' = After(InnerTimeout(call.timeoutMillis))
        /\ UNCHANGED <<now, mNextMessageUptime, call>>
    BY <1>6 DEF PollInner, Size, First, ItemAt
  <2>2. PICK e : e = After(InnerTimeout(call.timeoutMillis))
    OBVIOUS
  <2>3. e # Never => CallerDue(e) \/ NextDue(e)
    BY <2>1, <2>2, WaitsLongEnough
  <2>4. e \in Nat
    <3>1. toMillisecondTimeoutDelay(now, mNextMessageUptime) \in Int
      BY <1>0, RoundedUp
    <3>2. InnerTimeout(call.timeoutMillis) \in Int
      BY <1>0, <3>1 DEF InnerTimeout, Calls
    <3> QED BY <1>0, <2>2, <3>2 DEF After, Never
  <2>5. InCall' /\ NextKnown'
    BY <2>1, <2>2, <2>4 DEF CInv, InCall, NextKnown, Waiting
  <2>6. Timed'
    BY <2>1, <2>2, <2>3 DEF Timed, CallerDue, NextDue
  <2> QED BY <2>5, <2>6 DEF CInv
<1>7. ASSUME NEW o \in {"event", "timeout", "eintr"}, EpollReturn(o) PROVE CInv'
  <2>1. /\ pc = "wait" /\ pc' = o /\ Size' = Size /\ First' = First /\ deadline' = 0
        /\ o = "timeout" => deadline # Never /\ now >= deadline
        /\ UNCHANGED <<now, mNextMessageUptime, call, result>>
    BY <1>7 DEF EpollReturn, Size, First, ItemAt
  <2>2. InCall' /\ NextKnown'
    BY <2>1 DEF CInv, InCall, NextKnown, Waiting
  <2>3. Timed'
    BY <1>0, <2>1 DEF CInv, Timed, CallerDue, NextDue, Calls
  <2> QED BY <2>2, <2>3 DEF CInv
<1>8. ASSUME LockAfterPoll PROVE CInv'
  <2>1. /\ pc \in {"event", "timeout", "eintr"} /\ pc' = "drain"
        /\ result' = IF pc = "timeout" THEN "TIMEOUT" ELSE "WAKE"
        /\ Size' = Size /\ First' = First
        /\ UNCHANGED <<now, call, deadline>>
    BY <1>8 DEF LockAfterPoll, Size, First, ItemAt
  <2>2. InCall' /\ NextKnown'
    BY <2>1 DEF CInv, InCall, NextKnown, Waiting
  <2>3. pc = "timeout" => CallerDue(now) \/ (Size # 0 /\ First.uptime <= now)
    <3>1. Size # 0 => First.uptime \in Nat
      BY FirstIsMessage DEF IInv, Messages
    <3> QED BY <1>0, <3>1 DEF CInv, Timed, NextKnown, NextDue, Waiting
  <2>4. Timed'
    BY <2>1, <2>3 DEF Timed, CallerDue
  <2> QED BY <2>2, <2>4 DEF CInv
<1>9. ASSUME TakeMessage PROVE CInv'
  BY <1>9 DEF TakeMessage, CInv, InCall, Timed, NextKnown, Waiting
<1>10. ASSUME NEW u \in Uptimes, HandlerSends(u) PROVE CInv'
  BY <1>10, SendKeepsCInv DEF HandlerSends
<1>11. ASSUME HandlerDone PROVE CInv'
  BY <1>11 DEF HandlerDone, CInv, InCall, Timed, NextKnown, Waiting
<1>12. ASSUME PollDone PROVE CInv'
  <2>1. /\ pc = "drain" /\ Size' = Size /\ First' = First
        /\ mNextMessageUptime' = IF Size # 0 THEN First.uptime ELSE LLONG_MAX
        /\ UNCHANGED <<now, deadline>>
    BY <1>12 DEF PollDone, Size, First, ItemAt
  <2> DEFINE left == toMillisecondTimeoutDelay(now, call.endTime)
  <2>2. call.endTime \in Nat /\ left \in Int /\ (left >= 0 => call.endTime <= now + left * NsPerMs)
    BY <1>0, RoundedUp DEF Calls
  <2> HIDE DEF left
  <2>3. \/ pc' = "idle" /\ call' = NoCall
        \/ pc' = "inner" /\ ~call.timed /\ call' = call
        \/ pc' = "inner" /\ call.timed /\ call' = [call EXCEPT !.timeoutMillis = left]
    BY <1>12 DEF PollDone, left
  <2>4. InCall'
    <3>1. CASE pc' = "idle" /\ call' = NoCall
      BY <2>1, <3>1 DEF CInv, InCall, Calls, NoCall
    <3>2. CASE pc' = "inner" /\ ~call.timed /\ call' = call
      <4>1. call.timeoutMillis >= 0 => call.endTime <= now + call.timeoutMillis * NsPerMs
        <5>1. ASSUME call.timeoutMillis >= 0
              PROVE  call.endTime <= now + call.timeoutMillis * NsPerMs
          <6>1. call.endTime <= now /\ call.timeoutMillis \in Nat
            BY <1>0, <2>1, <3>2, <5>1 DEF CInv, InCall, Calls
          <6>2. PICK y \in Nat : y = call.timeoutMillis * NsPerMs
            BY <6>1
          <6> QED BY <1>0, <2>2, <6>1, <6>2
        <5> QED BY <5>1
      <4> QED BY <2>1, <3>2, <4>1 DEF CInv, InCall
    <3>3. CASE pc' = "inner" /\ call.timed /\ call' = [call EXCEPT !.timeoutMillis = left]
      <4>1. /\ call' \in Calls /\ call'.timed = call.timed /\ call'.timeoutMillis = left
            /\ call'.endTime = call.endTime
        BY <1>0, <2>2, <3>3 DEF Calls
      <4>2. call.endTime # Never
        BY <2>1, <3>3 DEF CInv, InCall
      <4> QED BY <1>0, <2>1, <2>2, <3>3, <4>1, <4>2 DEF InCall
    <3> QED BY <2>3, <3>1, <3>2, <3>3
  <2>5. Timed'
    BY <2>3 DEF Timed
  <2>6. NextKnown'
    <3>1. Size # 0 => First.uptime \in Nat
      BY FirstIsMessage DEF IInv, Messages
    <3> QED BY <2>1, <3>1 DEF NextKnown
  <2> QED BY <2>4, <2>5, <2>6 DEF CInv
<1>13. CASE UNCHANGED vars
  BY <1>13 DEF vars, CInv, InCall, Timed, NextKnown, CallerDue, NextDue, Size, First, ItemAt
<1> QED
  BY <1>1, <1>2, <1>3, <1>4, <1>5, <1>6, <1>7, <1>8, <1>9, <1>10, <1>11, <1>12, <1>13
  DEF Next, Looping

(* POLL_TIMEOUT is returned only when the caller's time is up, for any      *)
(* times, timeouts and unit: the rounding of pollInner's shorter timeout    *)
(* never ends a wait before the message it is for is due, so that the       *)
(* result becomes POLL_CALLBACK, and what pollAll has left to wait is never *)
(* less than the rest of its time.                                          *)
THEOREM TimeoutsAreDue == Spec => NoEarlyTimeout
<1> DEFINE Late == pc # "idle" /\ pc' = "idle" /\ result' = "TIMEOUT" =>
                     call.endTime # Never /\ now >= call.endTime
<1>1. IInv /\ CInv /\ [Next]_vars => [Late]_vars
  <2> SUFFICES ASSUME IInv, CInv, [Next]_vars, pc # "idle", pc' = "idle", result' = "TIMEOUT"
               PROVE  call.endTime # Never /\ now >= call.endTime
    OBVIOUS
  <2>1. PollDone
    BY DEF Next, Looping, Tick, SendMessageAtTime, CallWake, Wake, Poll, PollInner, EpollReturn,
           LockAfterPoll, TakeMessage, HandlerSends, HandlerDone, vars
  <2>2. now \in Nat /\ call \in Calls /\ call.endTime \in Nat
    BY BoundsAreNaturals DEF IInv, TypeOK, CInv, InCall, Calls
  <2>3. ASSUME result = "TIMEOUT" PROVE call.endTime # Never /\ now >= call.endTime
    <3>1. ~(Size # 0 /\ First.uptime <= now)
      <4>1. Size # 0 => First.uptime \in Nat /\ First.uptime > now
        BY <2>1, FirstIsMessage, TimesInRange DEF PollDone, IInv, Messages
      <4> QED BY <2>2, <4>1
    <3>2. CallerDue(now)
      BY <2>1, <2>3, <3>1 DEF PollDone, CInv, Timed
    <3> QED BY <2>2, <3>2 DEF CallerDue
  <2>4. ASSUME call.timed, toMillisecondTimeoutDelay(now, call.endTime) = 0
        PROVE  call.endTime # Never /\ now >= call.endTime
    <3>1. call.endTime <= now
      BY <2>2, <2>4, RoundedUp
    <3> QED BY <2>1, <2>2, <2>4, <3>1 DEF PollDone, CInv, InCall
  <2> QED BY <2>1, <2>3, <2>4 DEF PollDone
<1>2. IInv /\ CInv /\ [Next]_vars => (IInv /\ CInv)'
  BY NextIInv, NextCInv
<1>3. Init => IInv /\ CInv
  BY InitIInv, InitCInv
<1> QED BY <1>1, <1>2, <1>3, PTL DEF Spec, NoEarlyTimeout

(* Every message pending was sent, in its turn.                             *)
LEMMA PendingSent ==
  ASSUME IInv, Numbered, NEW p \in Pending
  PROVE  /\ p \in Messages /\ p.uptime \in Nat
         /\ p.id \in 1 .. Len(sent) /\ sent[p.id] = p
<1>1. PICK n \in DOMAIN sent : sent[n] = p
  BY DEF Pending
<1>2. sent \in Seq(Messages) /\ DOMAIN sent = 1 .. Len(sent) /\ Len(sent) \in Nat
  BY DEF IInv, TypeOK
<1>3. p \in Messages
  BY <1>1, <1>2
<1>4. p.id = n
  BY <1>1 DEF Numbered
<1> QED BY <1>1, <1>2, <1>3, <1>4, TimesInRange DEF Messages

LEMMA SendKeepsQInv ==
  ASSUME IInv, QInv, NEW u \in Uptimes, NEW i \in 0 .. Size, Insert(u, i),
         UNCHANGED <<delivered, clobbered>>
  PROVE  QInv'
<1> DEFINE m == [uptime |-> u, id |-> Len(sent) + 1]
           D == {delivered[n] : n \in DOMAIN delivered}
           It(k) == mMessageEnvelopes.slots[k].val
<1>1. sent' = Append(sent, m)
  BY DEF Insert
<1>2. PICK l \in Nat : l = Len(sent)
  BY DEF IInv, TypeOK
<1>3. m \in Messages /\ m.uptime = u /\ m.id = l + 1 /\ u \in Nat
  BY <1>2, BoundsAreNaturals, TimesInRange DEF Insert, IInv, TypeOK, Messages
<1>4. /\ Len(sent') = l + 1 /\ DOMAIN sent' = 1 .. (l + 1) /\ DOMAIN sent = 1 .. l
      /\ sent'[l + 1] = m
      /\ \A n \in 1 .. l : sent'[n] = sent[n]
  <2>1. sent \in Seq(Messages)
    BY DEF IInv, TypeOK
  <2> HIDE DEF m
  <2> QED BY <1>1, <1>2, <1>3, <2>1
<1>5. /\ Size \in Nat /\ i \in 0 .. Size /\ Size' = Size + 1
      /\ mMessageEnvelopes'.slots[i] = Built(m)
      /\ \A k \in 0 .. Size :
           /\ k < i => mMessageEnvelopes'.slots[k] = mMessageEnvelopes.slots[k]
           /\ k > i => mMessageEnvelopes'.slots[k] = mMessageEnvelopes.slots[k - 1]
  BY InsertStep DEF IInv, StorageOf, Size
<1>6. /\ \A j \in 0 .. (i - 1) : u >= It(j).uptime
      /\ i < Size => u < It(i).uptime
  BY DEF Insert, InsertionPoint, ItemAt
<1> HIDE DEF m
<1>7. Numbered'
  BY <1>3, <1>4 DEF QInv, Numbered
<1>8. ASSUME ~clobbered PROVE (Accepted /\ Queued /\ Sorted /\ Everything)'
  <2>1. Accepted /\ Queued /\ Sorted /\ Everything /\ Numbered
    BY <1>8 DEF QInv
  <2>2. Accepted'
    <3>1. delivered \in Seq(Messages)
      BY DEF IInv, TypeOK
    <3>2. \A n \in DOMAIN delivered : delivered[n].id \in Nat /\ delivered[n].id <= l
      <4> SUFFICES ASSUME NEW n \in DOMAIN delivered
                   PROVE  delivered[n].id \in Nat /\ delivered[n].id <= l
        OBVIOUS
      <4>1. delivered[n] \in Messages
        BY <3>1
      <4>2. delivered[n].id \in Nat
        BY <4>1, BoundsAreNaturals DEF Messages
      <4> QED BY <1>2, <2>1, <4>2 DEF Accepted
    <3> QED BY <1>4, <3>2 DEF Accepted
  <2>3. Pending' = Pending \cup {m}
    <3>1. m \notin D
      BY <1>2, <1>3, <2>1 DEF Accepted
    <3>2. {sent'[n] : n \in DOMAIN sent'} = {sent[n] : n \in DOMAIN sent} \cup {m}
      BY <1>4
    <3>3. Pending = {sent[n] : n \in DOMAIN sent} \ D
      BY DEF Pending
    <3>4. Pending' = {sent'[n] : n \in DOMAIN sent'} \ D
      BY DEF Pending
    <3> HIDE DEF D
    <3> QED BY <3>1, <3>2, <3>3, <3>4
  <2>4. \A k \in 0 .. (Size - 1) : It(k) \in Pending /\ mMessageEnvelopes.slots[k].live
    BY <2>1 DEF Queued, ItemAt
  <2>5. \A k \in 0 .. (Size - 1) : It(k).uptime \in Nat /\ It(k).id \in Nat /\ It(k).id <= l
    BY <1>2, <2>1, <2>4, PendingSent
  <2>6. \A j, k \in 0 .. (Size - 1) : j < k => Earlier(It(j), It(k))
    BY <2>1 DEF Sorted, ItemAt
  <2> DEFINE Iw(k) == mMessageEnvelopes'.slots[k].val
  <2>7. /\ Iw(i) = m
        /\ \A k \in 0 .. Size : /\ k < i => Iw(k) = It(k)
                                /\ k > i => Iw(k) = It(k - 1)
    BY <1>5 DEF Built
  <2>8. \A k \in 0 .. Size : mMessageEnvelopes'.slots[k].live
    <3> SUFFICES ASSUME NEW k \in 0 .. Size PROVE mMessageEnvelopes'.slots[k].live
      OBVIOUS
    <3>1. CASE k = i
      BY <1>5, <3>1 DEF Built
    <3>2. CASE k < i
      BY <1>5, <2>4, <3>2
    <3>3. CASE k > i
      <4>1. k - 1 \in 0 .. (Size - 1)
        BY <1>5, <3>3
      <4> QED BY <1>5, <2>4, <3>3, <4>1
    <3> QED BY <1>5, <3>1, <3>2, <3>3
  <2> HIDE DEF It, Iw
  <2>9. \A k \in 0 .. Size : Iw(k) \in Pending \cup {m}
    BY <1>5, <2>4, <2>7
  <2>10. \A k \in 0 .. (Size - 1) : /\ k < i => Earlier(It(k), m)
                                    /\ k >= i => Earlier(m, It(k))
    <3> SUFFICES ASSUME NEW k \in 0 .. (Size - 1)
                 PROVE  /\ k < i => Earlier(It(k), m)
                        /\ k >= i => Earlier(m, It(k))
      OBVIOUS
    <3>1. CASE k < i
      BY <1>3, <1>5, <1>6, <2>5, <3>1 DEF Earlier
    <3>2. CASE k >= i
      <4>1. u < It(i).uptime /\ i \in 0 .. (Size - 1)
        BY <1>5, <1>6, <3>2
      <4>2. It(i).uptime <= It(k).uptime
        <5>1. It(i).uptime \in Nat /\ It(k).uptime \in Nat
          BY <2>5, <4>1
        <5>2. CASE i < k
          <6>1. Earlier(It(i), It(k))
            BY <2>6, <4>1, <5>2
          <6> QED BY <5>1, <6>1 DEF Earlier
        <5> QED BY <1>5, <3>2, <4>1, <5>1, <5>2
      <4> QED BY <1>3, <1>5, <2>5, <3>2, <4>1, <4>2 DEF Earlier
    <3> QED BY <1>5, <3>1, <3>2
  <2>11. \A j, k \in 0 .. Size : j < k => Earlier(Iw(j), Iw(k))
    <3> SUFFICES ASSUME NEW j \in 0 .. Size, NEW k \in 0 .. Size, j < k
                 PROVE  Earlier(Iw(j), Iw(k))
      OBVIOUS
    <3>1. CASE k < i
      BY <1>5, <2>6, <2>7, <3>1
    <3>2. CASE k = i
      BY <1>5, <2>7, <2>10, <3>2
    <3>3. CASE j < i /\ i < k
      <4>1. j \in 0 .. (Size - 1) /\ k - 1 \in 0 .. (Size - 1) /\ j < k - 1
        BY <1>5, <3>3
      <4> QED BY <2>6, <2>7, <3>3, <4>1
    <3>4. CASE j = i
      <4>1. k - 1 \in 0 .. (Size - 1) /\ k - 1 >= i /\ k > i
        BY <1>5, <3>4
      <4> QED BY <2>7, <2>10, <3>4, <4>1
    <3>5. CASE j > i
      <4>1. j - 1 \in 0 .. (Size - 1) /\ k - 1 \in 0 .. (Size - 1) /\ j - 1 < k - 1 /\ k > i
        BY <1>5, <3>5
      <4> QED BY <2>6, <2>7, <3>5, <4>1
    <3> QED BY <1>5, <3>1, <3>2, <3>3, <3>4, <3>5
  <2>12. \A p \in Pending \cup {m} : \E k \in 0 .. Size : Iw(k) = p
    <3> SUFFICES ASSUME NEW p \in Pending PROVE \E k \in 0 .. Size : Iw(k) = p
      BY <1>5, <2>7
    <3>1. PICK k \in 0 .. (Size - 1) : It(k) = p
      BY <2>1 DEF Everything, ItemAt, It
    <3>2. CASE k < i
      BY <1>5, <2>7, <3>1, <3>2
    <3>3. CASE k >= i
      <4>1. k + 1 \in 0 .. Size /\ k + 1 > i /\ (k + 1) - 1 = k
        BY <1>5, <3>3
      <4>2. Iw(k + 1) = It((k + 1) - 1)
        BY <2>7, <4>1
      <4> QED BY <3>1, <4>1, <4>2
    <3> QED BY <1>5, <3>2, <3>3
  <2>13. 0 .. (Size' - 1) = 0 .. Size
    BY <1>5
  <2>14. Queued'
    BY <2>3, <2>8, <2>9, <2>13 DEF Queued, ItemAt, Iw
  <2>15. Sorted'
    BY <2>11, <2>13 DEF Sorted, ItemAt, Iw
  <2>16. Everything'
    BY <2>3, <2>12, <2>13 DEF Everything, ItemAt, Iw
  <2> QED BY <2>2, <2>14, <2>15, <2>16
<1> QED BY <1>7, <1>8 DEF QInv

LEMMA TakeKeepsQInv ==
  ASSUME IInv, QInv, TakeMessage
  PROVE  QInv'
<1> DEFINE v == mMessageEnvelopes
           w == removeItemsAt(v, 0, 1)
           D == {delivered[n] : n \in DOMAIN delivered}
           It(k) == mMessageEnvelopes.slots[k].val
           Iw(k) == mMessageEnvelopes'.slots[k].val
<1>1. /\ Size # 0 /\ mMessageEnvelopes' = w /\ delivered' = Append(delivered, First)
      /\ clobbered' = (clobbered \/ Overlaps(v, 0, 1)) /\ sent' = sent
  BY DEF TakeMessage
<1>2. Size \in Nat /\ Size = v.mCount /\ StorageOf(v)
  BY DEF IInv, StorageOf, Size
<1>3. /\ w.mCount = v.mCount - 1
      /\ ~Overlaps(v, 0, 1) => \A k \in 0 .. (w.mCount - 1) : w.slots[k] = v.slots[k + 1]
  BY <1>1, <1>2, RemoveKeeps
<1> HIDE DEF w
<1>4. Size' = Size - 1
  BY <1>1, <1>2, <1>3 DEF Size
<1>5. Numbered'
  BY <1>1 DEF QInv, Numbered
<1>6. ASSUME ~clobbered' PROVE (Accepted /\ Queued /\ Sorted /\ Everything)'
  <2>1. ~clobbered /\ ~Overlaps(v, 0, 1)
    BY <1>1, <1>6
  <2>2. Accepted /\ Queued /\ Sorted /\ Everything /\ Numbered
    BY <2>1 DEF QInv
  <2>3. \A k \in 0 .. (Size - 2) : mMessageEnvelopes'.slots[k] = mMessageEnvelopes.slots[k + 1]
    BY <1>1, <1>2, <1>3, <2>1
  <2>4. \A k \in 0 .. (Size - 1) : It(k) \in Pending /\ mMessageEnvelopes.slots[k].live
    BY <2>2 DEF Queued, ItemAt
  <2>5. \A j, k \in 0 .. (Size - 1) : j < k => Earlier(It(j), It(k))
    BY <2>2 DEF Sorted, ItemAt
  <2>6. First = It(0) /\ 0 \in 0 .. (Size - 1)
    BY <1>1, <1>2 DEF First, ItemAt
  <2>7. \A k \in 0 .. (Size - 2) : Iw(k) = It(k + 1) /\ k + 1 \in 0 .. (Size - 1)
    BY <1>2, <2>3
  <2>8. \A k \in 0 .. (Size - 2) : mMessageEnvelopes'.slots[k].live
    BY <1>2, <2>3, <2>4
  <2> HIDE DEF It, Iw
  <2>9. \A k \in 1 .. (Size - 1) : It(k) # First
    <3> SUFFICES ASSUME NEW k \in 1 .. (Size - 1), It(k) = It(0) PROVE FALSE
      BY <2>6
    <3>1. k \in 0 .. (Size - 1) /\ 0 < k
      BY <1>2
    <3>2. Earlier(It(0), It(0))
      BY <2>5, <2>6, <3>1
    <3>3. It(0).uptime \in Nat /\ It(0).id \in Nat
      BY <2>2, <2>4, <2>6, PendingSent
    <3> QED BY <3>2, <3>3 DEF Earlier
  <2>10. /\ DOMAIN delivered' = 1 .. (Len(delivered) + 1) /\ Len(delivered) \in Nat
         /\ DOMAIN delivered = 1 .. Len(delivered)
         /\ delivered'[Len(delivered) + 1] = First
         /\ \A n \in 1 .. Len(delivered) : delivered'[n] = delivered[n]
    <3>1. delivered \in Seq(Messages) /\ First \in Messages
      BY <1>1, <1>2, FirstIsMessage DEF IInv, TypeOK
    <3> HIDE DEF v, D
    <3> QED BY <1>1, <3>1
  <2>11. {delivered'[n] : n \in DOMAIN delivered'} = D \cup {First}
    BY <2>10
  <2>12. Pending' = Pending \ {First}
    <3>1. Pending = {sent[n] : n \in DOMAIN sent} \ D
      BY DEF Pending
    <3>2. Pending' = {sent[n] : n \in DOMAIN sent} \ (D \cup {First})
      BY <1>1, <2>11 DEF Pending
    <3> HIDE DEF D
    <3> QED BY <3>1, <3>2
  <2>13. Accepted'
    <3>1. First.id <= Len(sent)
      BY <2>2, <2>4, <2>6, PendingSent
    <3> QED BY <1>1, <2>2, <2>10, <3>1 DEF Accepted
  <2>14. 0 .. (Size' - 1) = 0 .. (Size - 2)
    BY <1>2, <1>4
  <2>15. \A k \in 0 .. (Size - 2) : Iw(k) \in Pending \ {First}
    BY <1>2, <2>4, <2>7, <2>9
  <2>16. \A j, k \in 0 .. (Size - 2) : j < k => Earlier(Iw(j), Iw(k))
    BY <1>2, <2>5, <2>7
  <2>17. \A p \in Pending \ {First} : \E k \in 0 .. (Size - 2) : Iw(k) = p
    <3> SUFFICES ASSUME NEW p \in Pending, p # First PROVE \E k \in 0 .. (Size - 2) : Iw(k) = p
      OBVIOUS
    <3>1. PICK k \in 0 .. (Size - 1) : It(k) = p
      BY <2>2 DEF Everything, ItemAt, It
    <3>2. k # 0 /\ k - 1 \in 0 .. (Size - 2) /\ (k - 1) + 1 = k
      BY <1>2, <2>6, <3>1
    <3>3. Iw(k - 1) = It((k - 1) + 1)
      BY <2>7, <3>2
    <3> QED BY <3>1, <3>2, <3>3
  <2>18. Queued'
    BY <2>8, <2>12, <2>14, <2>15 DEF Queued, ItemAt, Iw
  <2>19. Sorted'
    BY <2>14, <2>16 DEF Sorted, ItemAt, Iw
  <2>20. Everything'
    BY <2>12, <2>14, <2>17 DEF Everything, ItemAt, Iw
  <2> QED BY <2>13, <2>18, <2>19, <2>20
<1> QED BY <1>5, <1>6 DEF QInv

LEMMA InitQInv == Init => QInv
<1> SUFFICES ASSUME Init PROVE QInv
  OBVIOUS
<1>1. sent = <<>> /\ delivered = <<>> /\ Size = 0
  BY DEF Init, EmptyVector, Size
<1>2. Pending = {}
  BY <1>1 DEF Pending
<1> QED BY <1>1, <1>2 DEF QInv, Numbered, Accepted, Queued, Sorted, Everything

(* The steps that leave the queue and its history alone.                    *)
LEMMA RestKeepsQInv ==
  ASSUME QInv, UNCHANGED <<mMessageEnvelopes, sent, delivered, clobbered>>
  PROVE  QInv'
  BY DEF QInv, Numbered, Accepted, Queued, Sorted, Everything, Pending, Size, ItemAt

LEMMA NextQInv == IInv /\ QInv /\ [Next]_vars => QInv'
<1> SUFFICES ASSUME IInv, QInv, [Next]_vars PROVE QInv'
  OBVIOUS
<1>1. ASSUME NEW s \in Senders, NEW u \in Uptimes, SendMessageAtTime(s, u) PROVE QInv'
  BY <1>1, SendKeepsQInv DEF SendMessageAtTime
<1>2. ASSUME NEW u \in Uptimes, HandlerSends(u) PROVE QInv'
  BY <1>2, SendKeepsQInv DEF HandlerSends
<1>3. CASE TakeMessage
  BY <1>3, TakeKeepsQInv
<1>4. ASSUME NEW s \in Senders, CallWake(s) \/ Wake(s) PROVE QInv'
  BY <1>4, RestKeepsQInv DEF CallWake, Wake
<1>5. ASSUME NEW o \in {"event", "timeout", "eintr"}, EpollReturn(o) PROVE QInv'
  BY <1>5, RestKeepsQInv DEF EpollReturn
<1>6. ASSUME NEW all \in BOOLEAN, NEW t \in Timeouts, Poll(all, t) PROVE QInv'
  BY <1>6, RestKeepsQInv DEF Poll
<1>7. CASE Tick \/ PollInner \/ LockAfterPoll \/ HandlerDone \/ UNCHANGED vars
  BY <1>7, RestKeepsQInv DEF Tick, PollInner, LockAfterPoll, HandlerDone, vars
<1>8. CASE PollDone
  BY <1>8, RestKeepsQInv DEF PollDone
<1> QED BY <1>1, <1>2, <1>3, <1>4, <1>5, <1>6, <1>7, <1>8 DEF Next, Looping

(* As many messages are pending as are queued.                              *)
LEMMA Counted ==
  ASSUME IInv, Numbered, Queued, Sorted, Everything
  PROVE  Cardinality(Pending) = Size
<1>1. Size \in Nat
  BY DEF IInv, StorageOf, Size
<1> DEFINE S == 0 .. (Size - 1)
           f == [k \in S |-> ItemAt(mMessageEnvelopes, k)]
<1>2. \A k \in S : f[k] \in Pending
  BY DEF Queued
<1>3. \A p \in Pending : \E k \in S : f[k] = p
  BY DEF Everything
<1>4. \A j, k \in S : j < k => f[j] # f[k]
  <2> SUFFICES ASSUME NEW j \in S, NEW k \in S, j < k, f[j] = f[k] PROVE FALSE
    OBVIOUS
  <2>1. Earlier(f[j], f[j])
    BY DEF Sorted
  <2>2. f[j].uptime \in Nat /\ f[j].id \in Nat
    BY <1>2, PendingSent
  <2> QED BY <2>1, <2>2 DEF Earlier
<1>5. \A j, k \in S : f[j] = f[k] => j = k
  BY <1>1, <1>4
<1>6. f \in [S -> Pending] /\ DOMAIN f = S
  BY <1>2
<1> HIDE DEF f
<1>7. f \in Injection(S, Pending)
  BY <1>5, <1>6 DEF Injection, IsInjective
<1>8. f \in Surjection(S, Pending)
  BY <1>3, <1>6 DEF Surjection
<1>9. ExistsBijection(S, Pending)
  BY <1>7, <1>8 DEF Bijection, ExistsBijection
<1>10. IsFiniteSet(S) /\ Cardinality(S) = Size
  <2>1. Cardinality(S) = IF 0 > Size - 1 THEN 0 ELSE (Size - 1) - 0 + 1
    BY <1>1, FS_Interval
  <2> QED BY <1>1, <2>1, FS_Interval
<1> HIDE DEF S
<1> QED BY <1>9, <1>10, FS_Bijection

(* Until a removal runs into the vector's overlapping move, the queue is    *)
(* the messages accepted and not yet handled, each once, alive and in       *)
(* order, for any number of senders and messages and however handlers send  *)
(* while the looper drains (the insertion loop of sendMessageAtTime and the *)
(* removeAt(0) of pollInner over VectorImpl's growing and shrinking).       *)
THEOREM QueueStaysIntact == Spec => []QueueIntact
<1>1. IInv /\ QInv => QueueIntact
  <2> SUFFICES ASSUME IInv, QInv, ~clobbered
               PROVE  /\ Cardinality(Pending) = Size
                      /\ \A k \in 0 .. (Size - 1) :
                           /\ mMessageEnvelopes.slots[k].live
                           /\ ItemAt(mMessageEnvelopes, k) \in Pending
                           /\ k > 0 => Earlier(ItemAt(mMessageEnvelopes, k - 1),
                                               ItemAt(mMessageEnvelopes, k))
    BY DEF QueueIntact
  <2>1. Numbered /\ Queued /\ Sorted /\ Everything
    BY DEF QInv
  <2>2. Cardinality(Pending) = Size
    BY <2>1, Counted
  <2>3. ASSUME NEW k \in 0 .. (Size - 1), k > 0
        PROVE  Earlier(ItemAt(mMessageEnvelopes, k - 1), ItemAt(mMessageEnvelopes, k))
    <3>1. k - 1 \in 0 .. (Size - 1) /\ k - 1 < k
      BY <2>3 DEF IInv, StorageOf, Size
    <3> QED BY <2>1, <3>1 DEF Sorted
  <2> QED BY <2>1, <2>2, <2>3 DEF Queued
<1> QED BY InitIInv, NextIInv, InitQInv, NextQInv, <1>1, PTL DEF Spec

(* The looper hands out what it should: a message once, when it is due, and *)
(* before every other accepted one that is later or was sent later for the  *)
(* same time, for any messages and senders.                                 *)
THEOREM MessagesInOrder == Spec => HandledInOrder
<1> DEFINE Rightly == delivered' # delivered /\ ~clobbered =>
                        LET m == delivered'[Len(delivered')] IN
                        /\ m \in Pending /\ m.uptime <= now
                        /\ \A k \in Pending \ {m} : Earlier(m, k)
<1>1. IInv /\ QInv /\ [Next]_vars => [Rightly]_vars
  <2> SUFFICES ASSUME IInv, QInv, [Next]_vars, delivered' # delivered, ~clobbered
               PROVE  LET m == delivered'[Len(delivered')] IN
                      /\ m \in Pending /\ m.uptime <= now
                      /\ \A k \in Pending \ {m} : Earlier(m, k)
    OBVIOUS
  <2>1. TakeMessage
    BY DEF Next, Looping, Tick, SendMessageAtTime, CallWake, Wake, Poll, PollInner, EpollReturn,
           LockAfterPoll, PollDone, HandlerSends, HandlerDone, vars
  <2>2. Size # 0 /\ First.uptime <= now /\ delivered' = Append(delivered, First)
    BY <2>1 DEF TakeMessage
  <2>3. delivered'[Len(delivered')] = First
    <3>1. delivered \in Seq(Messages) /\ First \in Messages
      BY <2>2, FirstIsMessage DEF IInv, TypeOK
    <3> QED BY <2>2, <3>1
  <2>4. Queued /\ Sorted /\ Everything /\ Size \in Nat
    BY DEF QInv, IInv, StorageOf, Size
  <2>5. 0 \in 0 .. (Size - 1) /\ First = ItemAt(mMessageEnvelopes, 0)
    BY <2>2, <2>4 DEF First
  <2>6. First \in Pending
    BY <2>4, <2>5 DEF Queued
  <2>7. ASSUME NEW k \in Pending, k # First PROVE Earlier(First, k)
    <3>1. PICK n \in 0 .. (Size - 1) : ItemAt(mMessageEnvelopes, n) = k
      BY <2>4 DEF Everything
    <3>2. 0 < n
      BY <2>4, <2>5, <2>7, <3>1
    <3> QED BY <2>4, <2>5, <3>1, <3>2 DEF Sorted
  <2> QED BY <2>2, <2>3, <2>6, <2>7
<1> QED BY InitIInv, NextIInv, InitQInv, NextQInv, <1>1, PTL DEF Spec, HandledInOrder

-----------------------------------------------------------------------------
(* The vector's storage.                                                    *)

Cells(T) == [val : T, live : BOOLEAN]

(* A vector of elements of T in slots of its own.                           *)
Stored(v, T) ==
  /\ v.trivial \in BOOLEAN
  /\ v.mCount \in Nat /\ v.capacity \in Nat /\ v.mCount <= v.capacity
  /\ DOMAIN v.slots = 0 .. (v.capacity - 1)
  /\ \A k \in 0 .. (v.mCount - 1) : v.slots[k] \in Cells(T)

(* Nothing is constructed after the elements counted.                       *)
NoneBeyond(v) ==
  v.trivial \/ \A j \in v.mCount .. (v.capacity - 1) : v.slots[j].live = FALSE

(* Destroying leaves the bits, and a cell that is kept is the cell it was.  *)
LEMMA BuiltCell ==
  ASSUME NEW T, NEW x \in T
  PROVE  Built(x) \in Cells(T) /\ Built(x).live /\ Built(x).val = x
  BY DEF Built, Cells

LEMMA CellsKept ==
  ASSUME NEW T, NEW r \in Cells(T)
  PROVE  /\ [r EXCEPT !.live = FALSE] \in Cells(T)
         /\ [r EXCEPT !.live = FALSE].live = FALSE
         /\ [r EXCEPT !.live = @ /\ FALSE] \in Cells(T)
         /\ [r EXCEPT !.live = @ /\ TRUE] = r
         /\ [r EXCEPT !.live = @ /\ FALSE].live = FALSE
  BY DEF Cells

(* Growing opens a gap of n slots at i; what is after the gap has moved up. *)
LEMMA Grows ==
  ASSUME NEW T, NEW v, Stored(v, T), NEW i \in 0 .. v.mCount, NEW n \in Nat \ {0}
  PROVE  LET g == grow(v, i, n) IN
         /\ g.trivial = v.trivial
         /\ g.mCount = v.mCount + n /\ g.capacity \in Nat /\ g.mCount <= g.capacity
         /\ DOMAIN g.slots = 0 .. (g.capacity - 1)
         /\ \A k \in 0 .. (g.mCount - 1) : /\ k < i => g.slots[k] = v.slots[k]
                                           /\ k >= i + n => g.slots[k] = v.slots[k - n]
         /\ NoneBeyond(v) => NoneBeyond(g)
<1> DEFINE s == v.mCount + n
           c == Larger(kMinVectorCapacity, s + s \div 2)
           g == grow(v, i, n)
<1>1. /\ v.mCount \in Nat /\ v.capacity \in Nat /\ v.mCount <= v.capacity
      /\ i \in Nat /\ i <= v.mCount /\ v.trivial \in BOOLEAN /\ s \in Nat
      /\ DOMAIN v.slots = 0 .. (v.capacity - 1)
  BY DEF Stored
<1>2. c \in Nat /\ c >= s
  <2>1. s \div 2 \in Nat
    BY <1>1
  <2> QED BY <1>1, <2>1, SMTT(20) DEF Larger, kMinVectorCapacity
<1>3. CASE v.capacity < s
  <2> DEFINE f == Reallocated(v, c, i, n, i, s)
  <2>1. g.trivial = v.trivial /\ g.mCount = s /\ g.capacity = c /\ g.slots = f
    BY <1>3 DEF grow, With
  <2> HIDE DEF c, g
  <2>2. /\ DOMAIN f = 0 .. (c - 1)
        /\ \A j \in 0 .. (c - 1) :
             /\ j < i => f[j] = v.slots[j]
             /\ i + n <= j /\ j < s => f[j] = v.slots[i + (j - i - n)]
             /\ i <= j /\ s <= j => f[j].live = FALSE
    <3>1. c \in Nat /\ i \in Nat /\ n \in Nat /\ s \in Nat /\ s <= c
      BY <1>1, <1>2
    <3> HIDE DEF s
    <3> QED BY <3>1 DEF Reallocated, Unbuilt
  <2> HIDE DEF f
  <2>3. \A k \in 0 .. (s - 1) : /\ k < i => f[k] = v.slots[k]
                                /\ k >= i + n => f[k] = v.slots[k - n]
    <3>1. \A k \in Int : i + (k - i - n) = k - n
      BY <1>1
    <3> QED BY <1>1, <1>2, <2>2, <3>1
  <2>4. \A j \in s .. (c - 1) : f[j].live = FALSE
    BY <1>1, <1>2, <2>2
  <2>5. NoneBeyond(g)
    BY <2>1, <2>4 DEF NoneBeyond
  <2> QED BY <1>1, <1>2, <2>1, <2>2, <2>3, <2>5 DEF g
<1>4. CASE ~(v.capacity < s)
  <2> DEFINE m == v.mCount - i
             f == MoveForward(v.slots, v.trivial, i + n, i, m)
  <2>1. g.trivial = v.trivial /\ g.mCount = s /\ g.capacity = v.capacity /\ g.slots = f
    BY <1>4 DEF grow, With
  <2>2. DOMAIN f = 0 .. (v.capacity - 1)
    BY <1>1 DEF MoveForward
  <2>3. ASSUME NEW k \in 0 .. (s - 1), k < i PROVE f[k] = v.slots[k]
    BY <1>1, <1>4, <2>3, SMTT(20) DEF MoveForward
  <2>4. ASSUME NEW k \in 0 .. (s - 1), k >= i + n PROVE f[k] = v.slots[k - n]
    <3>1. /\ k \in DOMAIN v.slots /\ 0 <= k - (i + n) /\ k - (i + n) < m
          /\ i + (k - (i + n)) = k - n /\ k - n \in 0 .. (v.mCount - 1)
      BY <1>1, <1>4, <2>4, SMTT(20)
    <3>2. LastTaken(i + n, i, m, k - (i + n)) = k - (i + n)
      BY <1>1 DEF LastTaken
    <3>3. CASE v.trivial
      BY <3>1, <3>3 DEF MoveForward
    <3>4. CASE ~v.trivial
      <4>1. f[k] = [v.slots[i + (k - (i + n))] EXCEPT !.live = @ /\ (i + n > i \/ k < i)]
        BY <3>1, <3>2, <3>4 DEF MoveForward
      <4>2. (i + n > i \/ k < i) = TRUE
        BY <1>1
      <4>3. v.slots[k - n] \in Cells(T)
        BY <3>1 DEF Stored
      <4> QED BY <3>1, <4>1, <4>2, <4>3, CellsKept
    <3> QED BY <3>3, <3>4
  <2>5. ASSUME NoneBeyond(v), ~v.trivial, NEW j \in s .. (v.capacity - 1)
        PROVE  f[j].live = FALSE
    <3>1. j \in DOMAIN v.slots /\ j \in v.mCount .. (v.capacity - 1) /\ ~(j - (i + n) < m)
          /\ ~(j < i + m)
      BY <1>1, <2>5
    <3>2. f[j] = v.slots[j]
      BY <2>5, <3>1 DEF MoveForward
    <3> QED BY <2>5, <3>1, <3>2 DEF NoneBeyond
  <2> HIDE DEF f, g
  <2>6. NoneBeyond(v) => NoneBeyond(g)
    BY <2>1, <2>5 DEF NoneBeyond
  <2> QED BY <1>1, <1>4, <2>1, <2>2, <2>3, <2>4, <2>6 DEF g
<1> QED BY <1>3, <1>4

(* Inserting puts n times x between what was before and what was at i.      *)
LEMMA Inserts ==
  ASSUME NEW T, NEW v, Stored(v, T), NEW x \in T, NEW i \in 0 .. v.mCount, NEW n \in Nat \ {0}
  PROVE  LET w == insertAt(v, x, i, n) IN
         /\ Stored(w, T) /\ w.trivial = v.trivial /\ w.mCount = v.mCount + n
         /\ w = With(w, w.mCount, w.capacity, w.slots)
         /\ \A k \in 0 .. (w.mCount - 1) :
              /\ k < i => w.slots[k] = v.slots[k]
              /\ i <= k /\ k < i + n => w.slots[k] = Built(x)
              /\ k >= i + n => w.slots[k] = v.slots[k - n]
         /\ NoneBeyond(v) => NoneBeyond(w)
<1> DEFINE g == grow(v, i, n)
           f == [j \in DOMAIN g.slots |->
                   IF i <= j /\ j < i + n THEN Built(x) ELSE g.slots[j]]
           w == insertAt(v, x, i, n)
<1>1. v.mCount \in Nat /\ i \in Nat /\ i <= v.mCount /\ v.trivial \in BOOLEAN
  BY DEF Stored
<1>2. w = With(v, g.mCount, g.capacity, f)
  BY <1>1 DEF insertAt
<1>3. /\ g.trivial = v.trivial
      /\ g.mCount = v.mCount + n /\ g.capacity \in Nat /\ g.mCount <= g.capacity
      /\ DOMAIN g.slots = 0 .. (g.capacity - 1)
      /\ \A k \in 0 .. (g.mCount - 1) : /\ k < i => g.slots[k] = v.slots[k]
                                        /\ k >= i + n => g.slots[k] = v.slots[k - n]
      /\ NoneBeyond(v) => NoneBeyond(g)
  BY Grows
<1> HIDE DEF g
<1>4. /\ w.trivial = v.trivial /\ w.mCount = v.mCount + n /\ w.capacity = g.capacity
      /\ w.slots = f /\ w = With(w, w.mCount, w.capacity, w.slots)
  BY <1>2, <1>3 DEF With
<1>5. \A k \in 0 .. (v.mCount + n - 1) :
        /\ k < i => f[k] = v.slots[k]
        /\ i <= k /\ k < i + n => f[k] = Built(x)
        /\ k >= i + n => f[k] = v.slots[k - n]
  <2> SUFFICES ASSUME NEW k \in 0 .. (v.mCount + n - 1)
               PROVE  /\ k < i => f[k] = v.slots[k]
                      /\ i <= k /\ k < i + n => f[k] = Built(x)
                      /\ k >= i + n => f[k] = v.slots[k - n]
    OBVIOUS
  <2>1. k \in DOMAIN g.slots /\ k \in 0 .. (g.mCount - 1)
    BY <1>1, <1>3
  <2>2. f[k] = IF i <= k /\ k < i + n THEN Built(x) ELSE g.slots[k]
    BY <2>1
  <2> HIDE DEF f
  <2>3. k < i => ~(i <= k) /\ ~(k >= i + n)
    BY <1>1
  <2>4. k >= i + n => ~(k < i + n)
    BY <1>1
  <2>5. /\ k < i => g.slots[k] = v.slots[k]
        /\ k >= i + n => g.slots[k] = v.slots[k - n]
    BY <1>3, <2>1
  <2> HIDE DEF w
  <2> QED BY <2>2, <2>3, <2>4, <2>5
<1>6. \A k \in 0 .. (v.mCount + n - 1) : f[k] \in Cells(T)
  <2> SUFFICES ASSUME NEW k \in 0 .. (v.mCount + n - 1) PROVE f[k] \in Cells(T)
    OBVIOUS
  <2>1. \A j \in 0 .. (v.mCount - 1) : v.slots[j] \in Cells(T)
    BY DEF Stored
  <2>2. CASE k < i
    BY <1>1, <1>5, <2>1, <2>2
  <2>3. CASE i <= k /\ k < i + n
    <3>1. f[k] = Built(x)
      BY <1>1, <1>5, <2>3
    <3> QED BY <3>1, BuiltCell
  <2>4. CASE k >= i + n
    <3>1. k - n \in 0 .. (v.mCount - 1)
      BY <1>1, <2>4
    <3> QED BY <1>1, <1>5, <2>1, <2>4, <3>1
  <2> QED BY <1>1, <2>2, <2>3, <2>4
<1>7. DOMAIN f = 0 .. (g.capacity - 1)
  BY <1>3
<1>8. \A j \in (v.mCount + n) .. (g.capacity - 1) : f[j] = g.slots[j]
  BY <1>1, <1>3
<1> HIDE DEF f, w
<1>9. Stored(w, T)
  BY <1>1, <1>3, <1>4, <1>6, <1>7 DEF Stored
<1>10. NoneBeyond(v) => NoneBeyond(w)
  BY <1>3, <1>4, <1>8 DEF NoneBeyond
<1>11. \A k \in 0 .. (w.mCount - 1) :
         /\ k < i => w.slots[k] = v.slots[k]
         /\ i <= k /\ k < i + n => w.slots[k] = Built(x)
         /\ k >= i + n => w.slots[k] = v.slots[k - n]
  <2>1. PICK q \in Nat : q = v.mCount + n
    BY <1>1
  <2>2. w.mCount = q /\ w.slots = f
    BY <1>4, <2>1
  <2> QED BY <1>1, <1>5, <2>1, <2>2
<1> QED BY <1>4, <1>9, <1>10, <1>11 DEF w

(* Whatever the overlap, a slot receives one of the elements moved, and the *)
(* next one when the move is not wider than the gap.                        *)
LEMMA TakenInRange ==
  ASSUME NEW s \in Nat, NEW g \in Nat \ {0}, NEW n \in Nat, NEW k \in 0 .. (n - 1)
  PROVE  LET t == LastTaken(s, s + g, n, k) IN
         /\ t \in k .. (n - 1)
         /\ n <= g => t = k
<1>1. (s + g) - s = g /\ s < s + g
  OBVIOUS
<1>2. PICK y \in Nat : y = n - 1 - k
  OBVIOUS
<1>3. PICK q \in Nat, m \in 0 .. (g - 1) : y \div g = q /\ y = g * q + m
  <2>1. y \div g \in Nat /\ y % g \in 0 .. (g - 1) /\ y = g * (y \div g) + (y % g)
    OBVIOUS
  <2> QED BY <2>1
<1>4. LastTaken(s, s + g, n, k) = k + g * q
  BY <1>1, <1>2, <1>3 DEF LastTaken
<1>5. PICK z \in Nat : z = g * q /\ (q = 0 => z = 0) /\ (q # 0 => z >= g)
  <2>1. g * q \in Nat
    OBVIOUS
  <2>2. q = 0 => g * q = 0
    OBVIOUS
  <2>3. ASSUME q # 0 PROVE g * q >= g
    <3>1. PICK p \in Nat : q = p + 1
      BY <2>3
    <3>2. g * q = g * p + g /\ g * p \in Nat
      BY <3>1
    <3> QED BY <3>2
  <2> QED BY <2>1, <2>2, <2>3
<1>6. LastTaken(s, s + g, n, k) = k + z
  BY <1>4, <1>5
<1>7. z <= y
  BY <1>3, <1>5
<1>8. n <= g => z = 0
  BY <1>2, <1>5, <1>7
<1> QED BY <1>2, <1>6, <1>7, <1>8

(* Shrinking takes the n elements from i on away. What is after them moves  *)
(* down, as it is unless the move overlaps; then a destroyed element is     *)
(* left among those that count.                                             *)
LEMMA Shrinks ==
  ASSUME NEW T, NEW v, Stored(v, T), NEW i \in Nat, NEW n \in Nat, i + n <= v.mCount,
         v.capacity # 0, NEW w, w = shrink(v, i, n)
  PROVE  /\ Stored(w, T) /\ w.trivial = v.trivial /\ w.mCount = v.mCount - n
         /\ w = With(w, w.mCount, w.capacity, w.slots)
         /\ n # 0 /\ ~Overlaps(v, i, n) =>
              \A k \in 0 .. (w.mCount - 1) :
                /\ k < i => w.slots[k] = v.slots[k]
                /\ k >= i => w.slots[k] = v.slots[k + n]
         /\ Overlaps(v, i, n) => i + n \in 0 .. (w.mCount - 1) /\ ~w.slots[i + n].live
         /\ NoneBeyond(v) => NoneBeyond(w)
<1> DEFINE s == v.mCount - n
           c == Larger(kMinVectorCapacity, 2 * s)
<1>1. /\ v.mCount \in Nat /\ v.capacity \in Nat /\ v.mCount <= v.capacity
      /\ v.trivial \in BOOLEAN /\ s \in Nat /\ i <= s
      /\ DOMAIN v.slots = 0 .. (v.capacity - 1)
      /\ \A k \in 0 .. (v.mCount - 1) : v.slots[k] \in Cells(T)
  BY DEF Stored
<1>0. /\ v.mCount \in Nat /\ v.capacity \in Nat /\ v.mCount <= v.capacity
      /\ s \in Nat /\ i <= s /\ s + n = v.mCount
  BY <1>1
<1>2. c \in Nat /\ c >= s
  BY <1>1 DEF Larger, kMinVectorCapacity
<1>3. CASE ~InPlace(v, n)
  <2> DEFINE f == Reallocated(v, c, i, 0, i + n, s)
  <2>1. w.trivial = v.trivial /\ w.mCount = s /\ w.capacity = c /\ w.slots = f
        /\ w = With(w, w.mCount, w.capacity, w.slots)
    BY <1>3 DEF shrink, With
  <2> HIDE DEF c
  <2>2. /\ DOMAIN f = 0 .. (c - 1)
        /\ \A k \in 0 .. (s - 1) : /\ k < i => f[k] = v.slots[k]
                                   /\ k >= i => f[k] = v.slots[k + n]
        /\ \A j \in s .. (c - 1) : f[j].live = FALSE
    <3>1. DOMAIN f = 0 .. (c - 1)
      BY DEF Reallocated
    <3>2. ASSUME NEW k \in 0 .. (s - 1)
          PROVE  /\ k < i => f[k] = v.slots[k]
                 /\ k >= i => f[k] = v.slots[k + n]
      <4>1. k \in 0 .. (c - 1) /\ (i + n) + (k - i - 0) = k + n
        BY <1>0, <1>2
      <4> QED BY <1>1, <4>1 DEF Reallocated
    <3>3. ASSUME NEW j \in s .. (c - 1) PROVE f[j].live = FALSE
      BY <1>1, <1>2, <3>3 DEF Reallocated, Unbuilt
    <3> QED BY <3>1, <3>2, <3>3
  <2> HIDE DEF f
  <2>3. \A k \in 0 .. (s - 1) : f[k] \in Cells(T)
    <3> SUFFICES ASSUME NEW k \in 0 .. (s - 1) PROVE f[k] \in Cells(T)
      OBVIOUS
    <3>1. k \in 0 .. (v.mCount - 1) /\ k + n \in 0 .. (v.mCount - 1) /\ (k < i \/ k >= i)
      BY <1>1, SMTT(20)
    <3> QED BY <1>1, <2>2, <3>1
  <2>4. Stored(w, T)
    BY <1>1, <1>2, <2>1, <2>2, <2>3 DEF Stored
  <2>5. NoneBeyond(w)
    BY <2>1, <2>2 DEF NoneBeyond
  <2>6. ~Overlaps(v, i, n)
    BY <1>3 DEF Overlaps
  <2> QED BY <1>1, <2>1, <2>2, <2>4, <2>5, <2>6
<1>4. CASE InPlace(v, n)
  <2> DEFINE d == [j \in DOMAIN v.slots |->
                     IF ~v.trivial /\ i <= j /\ j < i + n
                       THEN [v.slots[j] EXCEPT !.live = FALSE] ELSE v.slots[j]]
             m == s - i
             f == MoveForward(d, v.trivial, i, i + n, m)
  <2>1. w.trivial = v.trivial /\ w.mCount = s /\ w.capacity = v.capacity /\ w.slots = f
        /\ w = With(w, w.mCount, w.capacity, w.slots)
    BY <1>4 DEF shrink, With
  <2>2. DOMAIN f = 0 .. (v.capacity - 1) /\ DOMAIN d = 0 .. (v.capacity - 1) /\ m \in Nat
    BY <1>1 DEF MoveForward
  <2>3. \A j \in (i + n) .. (v.mCount - 1) : d[j] = v.slots[j]
    BY <1>1
  <2>4. \A k \in 0 .. (i - 1) : d[k] = v.slots[k] /\ f[k] = v.slots[k]
    <3> SUFFICES ASSUME NEW k \in 0 .. (i - 1) PROVE d[k] = v.slots[k] /\ f[k] = v.slots[k]
      OBVIOUS
    <3>1. k \in 0 .. (v.capacity - 1) /\ k < i /\ ~(0 <= k - i) /\ ~(i + n <= k)
      BY <1>0
    <3>2. d[k] = v.slots[k]
      BY <1>1, <3>1
    <3> HIDE DEF d, m
    <3> QED BY <2>2, <3>1, <3>2 DEF MoveForward
  <2>5. \A k \in i .. (s - 1) :
          /\ f[k] \in Cells(T)
          /\ n # 0 /\ (v.trivial \/ m <= n) => f[k] = v.slots[k + n]
          /\ n # 0 /\ ~v.trivial /\ k >= i + n => f[k].live = FALSE
    <3> SUFFICES ASSUME NEW k \in i .. (s - 1)
                 PROVE  /\ f[k] \in Cells(T)
                        /\ n # 0 /\ (v.trivial \/ m <= n) => f[k] = v.slots[k + n]
                        /\ n # 0 /\ ~v.trivial /\ k >= i + n => f[k].live = FALSE
      OBVIOUS
    <3> DEFINE b == k - i
    <3>1. /\ b \in 0 .. (m - 1) /\ 0 <= b /\ b < m /\ k \in 0 .. (v.capacity - 1)
          /\ (i + n) + b = k + n
          /\ k + n \in (i + n) .. (v.mCount - 1) /\ k + n \in 0 .. (v.mCount - 1)
      BY <1>0
    <3>2. CASE v.trivial
      <4>1. f[k] = d[(i + n) + b]
        <5> HIDE DEF d, m
        <5> QED BY <2>2, <3>1, <3>2 DEF MoveForward
      <4>2. f[k] = v.slots[k + n]
        BY <2>3, <3>1, <4>1
      <4> QED BY <1>1, <3>1, <3>2, <4>2
    <3>3. CASE ~v.trivial
      <4> DEFINE t == LastTaken(i, i + n, m, b)
      <4>1. t \in b .. (m - 1) /\ (n # 0 /\ m <= n => t = b)
        <5>1. CASE n = 0
          <6>1. t = b
            BY <5>1 DEF LastTaken
          <6> QED BY <1>1, <3>1, <5>1, <6>1
        <5>2. CASE n # 0
          <6>1. n \in Nat \ {0}
            BY <5>2
          <6> HIDE DEF m, b
          <6> QED BY <2>2, <3>1, <6>1, TakenInRange
        <5> QED BY <5>1, <5>2
      <4> HIDE DEF t
      <4>2. (i + n) + t \in (i + n) .. (v.mCount - 1) /\ (i + n) + t \in 0 .. (v.mCount - 1)
        BY <1>0, <3>1, <4>1
      <4>3. PICK r \in Cells(T) : r = d[(i + n) + t] /\ r = v.slots[(i + n) + t]
        BY <1>1, <2>3, <4>2
      <4>4. f[k] = [r EXCEPT !.live = @ /\ (i > i + n \/ k < i + n)]
        <5>1. f[k] = [d[(i + n) + t] EXCEPT !.live = @ /\ (i > i + n \/ k < i + n)]
          <6> HIDE DEF d, m
          <6> QED BY <2>2, <3>1, <3>3 DEF MoveForward, t
        <5> QED BY <4>3, <5>1
      <4> HIDE DEF f
      <4>5. ASSUME k < i + n PROVE f[k] = r
        <5>1. (i > i + n \/ k < i + n) = TRUE
          BY <4>5
        <5> QED BY <4>3, <4>4, <5>1, CellsKept
      <4>6. ASSUME ~(k < i + n) PROVE f[k] \in Cells(T) /\ f[k].live = FALSE
        <5>1. (r.live /\ (i > i + n \/ k < i + n)) = FALSE
          BY <4>6
        <5>2. f[k] = [r EXCEPT !.live = FALSE]
          BY <4>4, <5>1
        <5> QED BY <4>3, <5>2 DEF Cells
      <4>7. f[k] \in Cells(T)
        BY <4>3, <4>5, <4>6
      <4>8. ASSUME n # 0, m <= n PROVE f[k] = v.slots[k + n]
        <5>1. t = b /\ k < i + n
          BY <1>0, <3>1, <4>1, <4>8
        <5> QED BY <3>1, <4>3, <4>5, <5>1
      <4>9. ASSUME n # 0, k >= i + n PROVE f[k].live = FALSE
        <5>1. ~(k < i + n)
          BY <1>0, <4>9
        <5> QED BY <4>6, <5>1
      <4> QED BY <3>3, <4>7, <4>8, <4>9
    <3> QED BY <3>2, <3>3
  <2>6. ASSUME NoneBeyond(v), ~v.trivial, NEW j \in s .. (v.capacity - 1)
        PROVE  f[j].live = FALSE
    <3>1. j \in DOMAIN d /\ j \in DOMAIN v.slots /\ ~(j - i < m) /\ j >= i
      BY <1>1, <2>2
    <3>2. f[j] = IF i + n <= j /\ j < (i + n) + m THEN [d[j] EXCEPT !.live = FALSE] ELSE d[j]
      <4> HIDE DEF d, m
      <4> QED BY <2>6, <3>1 DEF MoveForward
    <3>3. CASE j >= v.mCount
      <4>1. v.slots[j].live = FALSE
        BY <1>1, <2>6, <3>3 DEF NoneBeyond
      <4>2. d[j] = v.slots[j] /\ ~(j < (i + n) + m)
        BY <1>1, <3>1, <3>3, SMTT(20)
      <4> HIDE DEF d, m, f
      <4> QED BY <3>2, <4>1, <4>2
    <3>4. CASE j < v.mCount
      <4>1. v.slots[j] \in Cells(T)
        BY <1>1, <3>4
      <4>2. CASE j < i + n
        <5>1. d[j] = [v.slots[j] EXCEPT !.live = FALSE]
          BY <2>6, <3>1, <4>2
        <5> HIDE DEF d, m, f
        <5> QED BY <3>2, <4>1, <4>2, <5>1, CellsKept
      <4>3. CASE j >= i + n
        <5>1. d[j] = v.slots[j] /\ j < (i + n) + m
          BY <1>1, <3>1, <3>4, <4>3
        <5> HIDE DEF d, m, f
        <5> QED BY <3>2, <4>1, <4>3, <5>1, CellsKept
      <4>4. j < i + n \/ j >= i + n
        BY <1>0
      <4> HIDE DEF f
      <4> QED BY <4>2, <4>3, <4>4
    <3>5. j >= v.mCount \/ j < v.mCount
      BY <1>0
    <3> HIDE DEF f
    <3> QED BY <3>3, <3>4, <3>5
  <2> HIDE DEF f, d
  <2>7. \A k \in 0 .. (s - 1) : f[k] \in Cells(T)
    <3> SUFFICES ASSUME NEW k \in 0 .. (s - 1) PROVE f[k] \in Cells(T)
      OBVIOUS
    <3>1. (k \in 0 .. (i - 1) /\ k \in 0 .. (v.mCount - 1)) \/ k \in i .. (s - 1)
      BY <1>0
    <3> QED BY <1>1, <2>4, <2>5, <3>1
  <2>8. Stored(w, T)
    BY <1>1, <2>1, <2>2, <2>7 DEF Stored
  <2>9. NoneBeyond(v) => NoneBeyond(w)
    BY <2>1, <2>6 DEF NoneBeyond
  <2>10. ASSUME n # 0, ~Overlaps(v, i, n), NEW k \in 0 .. (s - 1)
         PROVE  /\ k < i => f[k] = v.slots[k]
                /\ k >= i => f[k] = v.slots[k + n]
    <3>1. v.trivial \/ m <= n
      BY <1>1, <1>4, <2>10, SMTT(20) DEF Overlaps
    <3> QED BY <1>1, <2>4, <2>5, <2>10, <3>1
  <2>11. ASSUME Overlaps(v, i, n)
         PROVE  i + n \in 0 .. (s - 1) /\ ~f[i + n].live
    <3>1. n # 0 /\ ~v.trivial /\ i + n \in i .. (s - 1) /\ i + n >= i + n
      BY <1>1, <2>11, SMTT(20) DEF Overlaps
    <3> QED BY <1>1, <2>5, <3>1
  <2> QED BY <1>1, <2>1, <2>8, <2>9, <2>10, <2>11
<1> QED BY <1>3, <1>4

-----------------------------------------------------------------------------
(* The vector and the sequence it is for.                                   *)

Holds(v, m) == \A k \in 0 .. (v.mCount - 1) : v.slots[k] = Built(m[k + 1])

(* A vector of items with nothing constructed after them, and a sequence of *)
(* as many.                                                                 *)
VInv ==
  /\ Stored(vec, Items) /\ NoneBeyond(vec)
  /\ vec = With(vec, vec.mCount, vec.capacity, vec.slots)
  /\ model \in Seq(Items) /\ Len(model) = vec.mCount
  /\ hit \in BOOLEAN /\ (~hit => Holds(vec, model))

LEMMA InitVInv == VecInit => VInv
<1> SUFFICES ASSUME VecInit PROVE VInv
  OBVIOUS
<1>1. PICK t \in Trivials : vec = EmptyVector(t)
  BY DEF VecInit
<1>2. /\ t \in BOOLEAN /\ vec.trivial = t /\ vec.mCount = 0 /\ vec.capacity = 0
      /\ vec.slots = <<>> /\ vec = With(vec, vec.mCount, vec.capacity, vec.slots)
  BY <1>1, TrivialOrNot DEF EmptyVector, With
<1>3. DOMAIN vec.slots = 0 .. (vec.capacity - 1)
  BY <1>2
<1>4. model = <<>> /\ hit = FALSE
  BY DEF VecInit
<1>5. model \in Seq(Items) /\ Len(model) = 0
  BY <1>4
<1> HIDE DEF VecInit
<1>6. Stored(vec, Items) /\ NoneBeyond(vec)
  BY <1>2, <1>3 DEF Stored, NoneBeyond
<1>7. Holds(vec, model)
  BY <1>2 DEF Holds
<1>8. Len(model) = vec.mCount
  BY <1>2, <1>5
<1>9. hit \in BOOLEAN
  BY <1>4
<1> QED BY <1>2, <1>5, <1>6, <1>7, <1>8, <1>9 DEF VInv

(* The front and the back of a sequence.                                    *)
LEMMA FrontOf ==
  ASSUME NEW S, NEW m \in Seq(S), NEW i \in 0 .. Len(m)
  PROVE  LET a == SubSeq(m, 1, i) IN
         a \in Seq(S) /\ Len(a) = i /\ \A k \in 1 .. i : a[k] = m[k]
<1> DEFINE a == SubSeq(m, 1, i)
<1>1. \A k \in 1 .. i : m[k] \in S
  OBVIOUS
<1>2. /\ a \in Seq(S) /\ Len(a) = IF 1 <= i THEN i - 1 + 1 ELSE 0
      /\ \A k \in 1 .. (i - 1 + 1) : a[k] = m[1 + k - 1]
  BY <1>1, SubSeqProperties
<1> HIDE DEF a
<1>3. a \in Seq(S) /\ Len(a) = i /\ \A k \in 1 .. i : a[k] = m[k]
  BY <1>2
<1> QED BY <1>3 DEF a

LEMMA BackOf ==
  ASSUME NEW S, NEW m \in Seq(S), NEW j \in 0 .. Len(m)
  PROVE  LET b == SubSeq(m, j + 1, Len(m)) IN
         b \in Seq(S) /\ Len(b) = Len(m) - j /\ \A k \in 1 .. (Len(m) - j) : b[k] = m[j + k]
<1> DEFINE b == SubSeq(m, j + 1, Len(m))
<1>1. \A k \in (j + 1) .. Len(m) : m[k] \in S
  OBVIOUS
<1>2. /\ b \in Seq(S) /\ Len(b) = IF j + 1 <= Len(m) THEN Len(m) - (j + 1) + 1 ELSE 0
      /\ \A k \in 1 .. (Len(m) - (j + 1) + 1) : b[k] = m[(j + 1) + k - 1]
  BY <1>1, SubSeqProperties
<1> HIDE DEF b
<1>3. Len(b) = Len(m) - j
  BY <1>2
<1>4. ASSUME NEW k \in 1 .. (Len(m) - j) PROVE b[k] = m[j + k]
  <2>1. k \in 1 .. (Len(m) - (j + 1) + 1) /\ (j + 1) + k - 1 = j + k
    OBVIOUS
  <2>2. b[k] = m[(j + 1) + k - 1]
    BY <1>2, <2>1
  <2> QED BY <2>1, <2>2
<1> QED BY <1>2, <1>3, <1>4 DEF b

(* The front of a sequence, another sequence and the back of the first.     *)
Splice(m, c, i, j) == SubSeq(m, 1, i) \o c \o SubSeq(m, j + 1, Len(m))

LEMMA SpliceParts ==
  ASSUME NEW S, NEW m \in Seq(S), NEW c \in Seq(S), NEW i \in 0 .. Len(m),
         NEW j \in 0 .. Len(m)
  PROVE  /\ Splice(m, c, i, j) \in Seq(S)
         /\ Len(Splice(m, c, i, j)) = i + Len(c) + (Len(m) - j)
         /\ \A k \in 1 .. (i + Len(c) + (Len(m) - j)) :
              Splice(m, c, i, j)[k] = IF k <= i THEN m[k]
                                      ELSE IF k <= i + Len(c) THEN c[k - i]
                                      ELSE m[j + (k - (i + Len(c)))]
<1> DEFINE a == SubSeq(m, 1, i)
           b == SubSeq(m, j + 1, Len(m))
           y == a \o c
           z == Splice(m, c, i, j)
<1>1. a \in Seq(S) /\ Len(a) = i /\ \A k \in 1 .. i : a[k] = m[k]
  BY FrontOf
<1>2. b \in Seq(S) /\ Len(b) = Len(m) - j /\ \A k \in 1 .. (Len(m) - j) : b[k] = m[j + k]
  BY BackOf
<1>3. z = y \o b
  BY DEF Splice
<1> HIDE DEF a, b, z
<1>4. /\ y \in Seq(S) /\ Len(y) = i + Len(c)
      /\ \A k \in 1 .. (i + Len(c)) : y[k] = IF k <= i THEN a[k] ELSE c[k - i]
  BY <1>1, ConcatProperties
<1> HIDE DEF y
<1>5. /\ z \in Seq(S) /\ Len(z) = i + Len(c) + (Len(m) - j)
      /\ \A k \in 1 .. (i + Len(c) + (Len(m) - j)) :
           z[k] = IF k <= i + Len(c) THEN y[k] ELSE b[k - (i + Len(c))]
  <2>1. /\ z \in Seq(S) /\ Len(z) = Len(y) + Len(b)
        /\ \A k \in 1 .. (Len(y) + Len(b)) : z[k] = IF k <= Len(y) THEN y[k] ELSE b[k - Len(y)]
    BY <1>2, <1>3, <1>4, ConcatProperties
  <2> QED BY <1>2, <1>4, <2>1
<1>6. ASSUME NEW k \in 1 .. (i + Len(c) + (Len(m) - j))
      PROVE  z[k] = IF k <= i THEN m[k]
                    ELSE IF k <= i + Len(c) THEN c[k - i] ELSE m[j + (k - (i + Len(c)))]
  <2>1. Len(c) \in Nat /\ k \in Nat
    OBVIOUS
  <2>2. CASE k <= i
    <3>1. k \in 1 .. i /\ k \in 1 .. (i + Len(c)) /\ k <= i + Len(c)
      BY <2>1, <2>2
    <3> QED BY <1>1, <1>4, <1>5, <2>2, <3>1
  <2>3. CASE ~(k <= i) /\ k <= i + Len(c)
    <3>1. k \in 1 .. (i + Len(c))
      BY <2>1, <2>3
    <3> QED BY <1>4, <1>5, <2>3, <3>1
  <2>4. CASE ~(k <= i) /\ ~(k <= i + Len(c))
    <3>1. k - (i + Len(c)) \in 1 .. (Len(m) - j)
      BY <2>1, <2>4
    <3>2. z[k] = b[k - (i + Len(c))]
      BY <1>5, <2>4
    <3> QED BY <1>2, <2>4, <3>1, <3>2
  <2>5. k <= i => k <= i + Len(c)
    BY <2>1
  <2> QED BY <2>2, <2>3, <2>4, <2>5
<1>7. /\ z \in Seq(S) /\ Len(z) = i + Len(c) + (Len(m) - j)
      /\ \A k \in 1 .. (i + Len(c) + (Len(m) - j)) :
           z[k] = IF k <= i THEN m[k]
                  ELSE IF k <= i + Len(c) THEN c[k - i] ELSE m[j + (k - (i + Len(c)))]
  BY <1>5, <1>6
<1> QED BY <1>7 DEF z

LEMMA CopiesOf ==
  ASSUME NEW x \in Items, NEW n \in Nat
  PROVE  Copies(x, n) \in Seq(Items) /\ Len(Copies(x, n)) = n /\ \A k \in 1 .. n : Copies(x, n)[k] = x
<1> DEFINE c == [k \in 1 .. n |-> x]
<1>1. c \in Seq(Items) /\ Len(c) = n /\ \A k \in 1 .. n : c[k] = x
  OBVIOUS
<1> QED BY <1>1 DEF Copies

LEMMA InsertAtVInv ==
  ASSUME VInv, NEW x \in Items, NEW i \in 0 .. MaxCount, NEW n \in 1 .. 2, InsertAt(x, i, n)
  PROVE  VInv'
<1> DEFINE w == insertAt(vec, x, i, n)
           c == Copies(x, n)
<1>1. /\ vec.mCount \in Nat /\ Len(model) = vec.mCount /\ model \in Seq(Items)
      /\ i \in 0 .. vec.mCount /\ n \in Nat \ {0} /\ i \in 0 .. Len(model)
      /\ Stored(vec, Items)
  BY DEF VInv, Stored, InsertAt
<1> DEFINE z == Splice(model, c, i, i)
<1>2. vec' = w /\ model' = z /\ hit' = hit
  BY DEF InsertAt, Splice
<1>3. /\ Stored(w, Items) /\ w.mCount = vec.mCount + n
      /\ w = With(w, w.mCount, w.capacity, w.slots)
      /\ \A k \in 0 .. (w.mCount - 1) :
           /\ k < i => w.slots[k] = vec.slots[k]
           /\ i <= k /\ k < i + n => w.slots[k] = Built(x)
           /\ k >= i + n => w.slots[k] = vec.slots[k - n]
      /\ NoneBeyond(vec) => NoneBeyond(w)
  <2>1. PICK v : v = vec
    OBVIOUS
  <2>2. Stored(v, Items) /\ x \in Items /\ i \in 0 .. v.mCount /\ n \in Nat \ {0}
    BY <1>1, <2>1
  <2> DEFINE u == insertAt(v, x, i, n)
  <2>3. /\ Stored(u, Items) /\ u.mCount = v.mCount + n
        /\ u = With(u, u.mCount, u.capacity, u.slots)
        /\ \A k \in 0 .. (u.mCount - 1) :
             /\ k < i => u.slots[k] = v.slots[k]
             /\ i <= k /\ k < i + n => u.slots[k] = Built(x)
             /\ k >= i + n => u.slots[k] = v.slots[k - n]
        /\ NoneBeyond(v) => NoneBeyond(u)
    BY ONLY <2>2, Inserts
  <2>4. w = u
    BY <2>1
  <2> HIDE DEF u, w
  <2> QED BY <2>1, <2>3, <2>4
<1> HIDE DEF w
<1>4. c \in Seq(Items) /\ Len(c) = n /\ \A k \in 1 .. n : c[k] = x
  BY <1>1, CopiesOf
<1> HIDE DEF c
<1>5. /\ z \in Seq(Items) /\ Len(z) = i + n + (Len(model) - i)
      /\ \A k \in 1 .. (i + n + (Len(model) - i)) :
           z[k] = IF k <= i THEN model[k]
                  ELSE IF k <= i + n THEN c[k - i] ELSE model[i + (k - (i + n))]
  <2>1. /\ z \in Seq(Items) /\ Len(z) = i + Len(c) + (Len(model) - i)
        /\ \A k \in 1 .. (i + Len(c) + (Len(model) - i)) :
             z[k] = IF k <= i THEN model[k]
                    ELSE IF k <= i + Len(c) THEN c[k - i] ELSE model[i + (k - (i + Len(c)))]
    <3>1. PICK m : m = model
      OBVIOUS
    <3>2. m \in Seq(Items) /\ c \in Seq(Items) /\ i \in 0 .. Len(m)
      BY <1>1, <1>4, <3>1
    <3> DEFINE y == Splice(m, c, i, i)
    <3> HIDE DEF z
    <3>3. /\ y \in Seq(Items) /\ Len(y) = i + Len(c) + (Len(m) - i)
          /\ \A k \in 1 .. (i + Len(c) + (Len(m) - i)) :
               y[k] = IF k <= i THEN m[k]
                      ELSE IF k <= i + Len(c) THEN c[k - i] ELSE m[i + (k - (i + Len(c)))]
      BY ONLY <3>2, SpliceParts
    <3>4. z = y
      BY <3>1 DEF z
    <3> HIDE DEF y
    <3> QED BY <3>1, <3>3, <3>4
  <2> HIDE DEF z
  <2> QED BY <1>4, <2>1
<1> HIDE DEF z
<1>6. ASSUME Holds(vec, model) PROVE Holds(w, z)
  <2> SUFFICES ASSUME NEW k \in 0 .. (w.mCount - 1) PROVE w.slots[k] = Built(z[k + 1])
    BY DEF Holds
  <2>1. k + 1 \in 1 .. (i + n + (Len(model) - i)) /\ k \in Nat /\ k < vec.mCount + n
    BY <1>1, <1>3
  <2>2. \A j \in 0 .. (vec.mCount - 1) : vec.slots[j] = Built(model[j + 1])
    BY <1>6 DEF Holds
  <2>3. CASE k < i
    <3>1. k + 1 <= i /\ k \in 0 .. (vec.mCount - 1)
      BY <1>1, <2>1, <2>3
    <3> QED BY <1>3, <1>5, <2>1, <2>2, <2>3, <3>1
  <2>4. CASE i <= k /\ k < i + n
    <3>1. ~(k + 1 <= i) /\ k + 1 <= i + n /\ k + 1 - i \in 1 .. n
      BY <1>1, <2>1, <2>4
    <3> QED BY <1>3, <1>4, <1>5, <2>1, <2>4, <3>1
  <2>5. CASE k >= i + n
    <3>1. /\ ~(k + 1 <= i + n) /\ ~(k + 1 <= i) /\ i + ((k + 1) - (i + n)) = (k - n) + 1
          /\ k - n \in 0 .. (vec.mCount - 1)
      BY <1>1, <2>1, <2>5
    <3>2. z[k + 1] = model[i + ((k + 1) - (i + n))]
      BY <1>5, <2>1, <3>1
    <3> QED BY <1>3, <2>2, <2>5, <3>1, <3>2
  <2> QED BY <1>1, <2>1, <2>3, <2>4, <2>5
<1>7. Len(z) = w.mCount
  BY <1>1, <1>3, <1>5
<1> QED BY <1>2, <1>3, <1>5, <1>6, <1>7 DEF VInv

(* A removal is of elements the vector has, or nothing.                     *)
LEMMA RemovesSome ==
  ASSUME VInv, NEW i \in Nat, NEW n \in Nat \ {0}, i + n <= vec.mCount
  PROVE  /\ vec.capacity # 0 /\ Stored(vec, Items)
         /\ removeItemsAt(vec, i, n) = shrink(vec, i, n)
<1>1. vec.mCount \in Nat /\ vec.capacity \in Nat /\ vec.mCount <= vec.capacity
  BY DEF VInv, Stored
<1> QED BY <1>1 DEF VInv, removeItemsAt

LEMMA RemoveItemsAtVInv ==
  ASSUME VInv, NEW i \in 0 .. MaxCount, NEW n \in 1 .. MaxCount, RemoveItemsAt(i, n)
  PROVE  VInv'
<1>1. /\ vec.mCount \in Nat /\ Len(model) = vec.mCount /\ model \in Seq(Items)
      /\ i \in Nat /\ n \in Nat \ {0}
  BY SizesUnsigned DEF VInv, Stored
<1>2. CASE i + n > vec.mCount
  <2>1. vec' = vec /\ model' = model
    BY <1>1, <1>2 DEF RemoveItemsAt, removeItemsAt
  <2>2. ~Overlaps(vec, i, n)
    BY <1>1, <1>2 DEF Overlaps
  <2>3. hit' = hit
    BY <2>2 DEF RemoveItemsAt, VInv
  <2> QED BY <2>1, <2>3 DEF VInv
<1>3. CASE i + n <= vec.mCount
  <2> PICK w : w = shrink(vec, i, n)
    OBVIOUS
  <2> DEFINE a == SubSeq(model, 1, i)
             z == a \o SubSeq(model, i + n + 1, Len(model))
  <2>1. vec.capacity # 0 /\ Stored(vec, Items) /\ removeItemsAt(vec, i, n) = w
    BY <1>1, <1>3, RemovesSome
  <2>2. vec' = w /\ model' = z /\ hit' = (hit \/ Overlaps(vec, i, n))
    BY <1>1, <1>3, <2>1, SMTT(20) DEF RemoveItemsAt
  <2>3. /\ Stored(w, Items) /\ w.mCount = vec.mCount - n
        /\ w = With(w, w.mCount, w.capacity, w.slots)
        /\ n # 0 /\ ~Overlaps(vec, i, n) =>
             \A k \in 0 .. (w.mCount - 1) :
               /\ k < i => w.slots[k] = vec.slots[k]
               /\ k >= i => w.slots[k] = vec.slots[k + n]
        /\ NoneBeyond(vec) => NoneBeyond(w)
    BY <1>1, <1>3, <2>1, Shrinks, SMTT(20)
  <2>5. /\ z \in Seq(Items) /\ Len(z) = i + (Len(model) - (i + n))
        /\ \A k \in 1 .. (i + (Len(model) - (i + n))) :
             z[k] = IF k <= i THEN model[k] ELSE model[(i + n) + (k - i)]
    <3> DEFINE b == SubSeq(model, i + n + 1, Len(model))
    <3>1. a \in Seq(Items) /\ Len(a) = i /\ \A k \in 1 .. i : a[k] = model[k]
      BY <1>1, <1>3, FrontOf
    <3>2. /\ b \in Seq(Items) /\ Len(b) = Len(model) - (i + n)
          /\ \A k \in 1 .. (Len(model) - (i + n)) : b[k] = model[(i + n) + k]
      <4>1. i + n \in 0 .. Len(model)
        BY <1>1, <1>3
      <4> QED BY <1>1, <4>1, BackOf
    <3> HIDE DEF a, b
    <3>3. /\ z \in Seq(Items) /\ Len(z) = Len(a) + Len(b)
          /\ \A k \in 1 .. (Len(a) + Len(b)) :
               z[k] = IF k <= Len(a) THEN a[k] ELSE b[k - Len(a)]
      BY <3>1, <3>2, ConcatProperties, SMTT(20) DEF b
    <3> HIDE DEF z
    <3>4. ASSUME NEW k \in 1 .. (i + (Len(model) - (i + n)))
          PROVE  z[k] = IF k <= i THEN model[k] ELSE model[(i + n) + (k - i)]
      <4>1. CASE k <= i
        <5>1. k \in 1 .. i
          BY <1>1, <4>1
        <5> QED BY <3>1, <3>2, <3>3, <4>1, <5>1
      <4>2. CASE ~(k <= i)
        <5>1. k - i \in 1 .. (Len(model) - (i + n))
          BY <1>1, <1>3, <4>2
        <5> QED BY <3>1, <3>2, <3>3, <4>2, <5>1
      <4> QED BY <4>1, <4>2
    <3> QED BY <3>1, <3>2, <3>3, <3>4
  <2> HIDE DEF z
  <2>6. ASSUME ~Overlaps(vec, i, n), Holds(vec, model) PROVE Holds(w, z)
    <3> SUFFICES ASSUME NEW k \in 0 .. (w.mCount - 1) PROVE w.slots[k] = Built(z[k + 1])
      BY DEF Holds
    <3>1. k + 1 \in 1 .. (i + (Len(model) - (i + n))) /\ k \in Nat /\ k < vec.mCount - n
      BY <1>1, <2>3
    <3>2. \A j \in 0 .. (vec.mCount - 1) : vec.slots[j] = Built(model[j + 1])
      BY <2>6 DEF Holds
    <3>3. CASE k < i
      <4>1. k + 1 <= i /\ k \in 0 .. (vec.mCount - 1)
        BY <1>1, <3>1, <3>3
      <4> QED BY <1>1, <2>3, <2>5, <2>6, <3>1, <3>2, <3>3, <4>1
    <3>4. CASE k >= i
      <4>1. /\ ~(k + 1 <= i) /\ (i + n) + ((k + 1) - i) = (k + n) + 1
            /\ k + n \in 0 .. (vec.mCount - 1)
        BY <1>1, <3>1, <3>4
      <4>2. z[k + 1] = model[(i + n) + ((k + 1) - i)]
        BY <2>5, <3>1, <4>1
      <4>3. w.slots[k] = vec.slots[k + n]
        BY <1>1, <2>3, <2>6, <3>4
      <4> QED BY <3>2, <4>1, <4>2, <4>3
    <3> QED BY <1>1, <3>1, <3>3, <3>4
  <2>7. Len(z) = w.mCount
    BY <1>1, <2>3, <2>5
  <2>8. hit' \in BOOLEAN /\ (~hit' => ~hit /\ ~Overlaps(vec, i, n))
    BY <2>2
  <2> QED BY <2>2, <2>3, <2>5, <2>6, <2>7, <2>8 DEF VInv
<1> QED BY <1>1, <1>2, <1>3

LEMMA ClearVInv == ASSUME VInv, Clear PROVE VInv'
<1> DEFINE w == clear(vec)
<1>1. /\ vec.mCount \in Nat /\ vec.capacity \in Nat /\ vec.mCount <= vec.capacity
      /\ Stored(vec, Items) /\ NoneBeyond(vec)
      /\ vec = With(vec, vec.mCount, vec.capacity, vec.slots)
  BY DEF VInv, Stored
<1>2. vec' = w /\ model' = <<>> /\ hit' = FALSE
  BY DEF Clear
<1>3. Stored(w, Items) /\ w.mCount = 0 /\ w = With(w, w.mCount, w.capacity, w.slots) /\ NoneBeyond(w)
  <2>1. CASE vec.capacity = 0
    <3>1. w = vec /\ vec.mCount = 0
      BY <1>1, <2>1 DEF clear, shrink
    <3> HIDE DEF w
    <3> QED BY <1>1, <3>1
  <2>2. CASE vec.capacity # 0
    <3>1. 0 + vec.mCount <= vec.mCount /\ 0 \in Nat
      BY <1>1
    <3>2. PICK v : v = vec
      OBVIOUS
    <3>3. PICK u : u = shrink(v, 0, v.mCount)
      OBVIOUS
    <3>4. 0 + v.mCount <= v.mCount /\ v.mCount \in Nat /\ v.capacity # 0 /\ Stored(v, Items)
      BY <1>1, <2>2, <3>1, <3>2
    <3>5. /\ Stored(u, Items) /\ u.mCount = v.mCount - v.mCount
          /\ u = With(u, u.mCount, u.capacity, u.slots)
          /\ NoneBeyond(v) => NoneBeyond(u)
      BY ONLY <3>3, <3>4, 0 \in Nat, Shrinks
    <3>6. w = u
      BY <3>2, <3>3 DEF clear
    <3> HIDE DEF w
    <3> QED BY <1>1, <3>2, <3>5, <3>6
  <2> QED BY <2>1, <2>2
<1> HIDE DEF w
<1>4. Holds(w, <<>>)
  BY <1>3 DEF Holds
<1>5. <<>> \in Seq(Items) /\ Len(<<>>) = 0
  OBVIOUS
<1> QED BY <1>2, <1>3, <1>4, <1>5 DEF VInv

LEMMA SetCapacityVInv == ASSUME VInv, NEW c \in Capacities, SetCapacity(c) PROVE VInv'
<1>1. /\ vec.mCount \in Nat /\ vec.capacity \in Nat /\ vec.trivial \in BOOLEAN /\ c \in Nat
      /\ \A k \in 0 .. (vec.mCount - 1) : vec.slots[k] \in Cells(Items)
  BY SizesUnsigned DEF VInv, Stored
<1>2. model' = model /\ hit' = hit /\ vec' = setCapacity(vec, c)
  BY DEF SetCapacity
<1>3. CASE c <= vec.mCount
  <2>1. vec' = vec
    BY <1>2, <1>3 DEF setCapacity
  <2> QED BY <1>2, <2>1 DEF VInv
<1>4. CASE ~(c <= vec.mCount)
  <2> DEFINE f == Reallocated(vec, c, vec.mCount, 0, 0, vec.mCount)
  <2>1. /\ vec'.trivial = vec.trivial /\ vec'.mCount = vec.mCount /\ vec'.capacity = c
        /\ vec'.slots = f /\ vec' = With(vec', vec'.mCount, vec'.capacity, vec'.slots)
    BY <1>2, <1>4 DEF setCapacity, With
  <2>2. /\ DOMAIN f = 0 .. (c - 1)
        /\ \A k \in 0 .. (vec.mCount - 1) : f[k] = vec.slots[k]
        /\ \A j \in vec.mCount .. (c - 1) : f[j].live = FALSE
    <3>1. DOMAIN f = 0 .. (c - 1)
      BY DEF Reallocated
    <3>2. ASSUME NEW k \in 0 .. (vec.mCount - 1) PROVE f[k] = vec.slots[k]
      <4>1. k \in 0 .. (c - 1) /\ k < vec.mCount
        BY <1>1, <1>4
      <4> QED BY <4>1 DEF Reallocated
    <3>3. ASSUME NEW j \in vec.mCount .. (c - 1) PROVE f[j].live = FALSE
      <4>1. j \in 0 .. (c - 1) /\ ~(j < vec.mCount)
        BY <1>1
      <4> QED BY <4>1 DEF Reallocated, Unbuilt
    <3> QED BY <3>1, <3>2, <3>3
  <2> HIDE DEF f
  <2>3. Stored(vec', Items)
    BY <1>1, <1>4, <2>1, <2>2 DEF Stored
  <2>4. NoneBeyond(vec')
    BY <2>1, <2>2 DEF NoneBeyond
  <2>5. Holds(vec, model) => Holds(vec', model)
    BY <2>1, <2>2 DEF Holds
  <2> QED BY <1>2, <2>1, <2>3, <2>4, <2>5 DEF VInv
<1> QED BY <1>3, <1>4

LEMMA EditItemAtVInv ==
  ASSUME VInv, NEW x \in Items, NEW i \in 0 .. (MaxCount - 1), EditItemAt(i, x)
  PROVE  VInv'
<1>1. /\ vec.mCount \in Nat /\ vec.capacity \in Nat /\ vec.mCount <= vec.capacity
      /\ vec.trivial \in BOOLEAN /\ i \in Nat /\ i < vec.mCount
      /\ DOMAIN vec.slots = 0 .. (vec.capacity - 1)
      /\ \A k \in 0 .. (vec.mCount - 1) : vec.slots[k] \in Cells(Items)
      /\ vec = With(vec, vec.mCount, vec.capacity, vec.slots)
      /\ model \in Seq(Items) /\ Len(model) = vec.mCount
  BY SizesUnsigned DEF VInv, Stored, EditItemAt
<1> DEFINE f == [vec.slots EXCEPT ![0] = Built(x)]
<1>2. /\ vec' = [vec EXCEPT !.slots = f]
      /\ model' = [model EXCEPT ![i + 1] = x]
      /\ hit' = (hit \/ i # 0)
  BY DEF EditItemAt, editItemAt
<1>3. /\ DOMAIN f = 0 .. (vec.capacity - 1) /\ f[0] = Built(x)
      /\ \A j \in 0 .. (vec.capacity - 1) : j # 0 => f[j] = vec.slots[j]
  BY <1>1
<1> HIDE DEF f
<1>4. /\ vec'.trivial = vec.trivial /\ vec'.mCount = vec.mCount /\ vec'.capacity = vec.capacity
      /\ vec'.slots = f /\ vec' = With(vec', vec'.mCount, vec'.capacity, vec'.slots)
  <2>1. PICK t, n, c, s : vec = [trivial |-> t, mCount |-> n, capacity |-> c, slots |-> s]
    BY <1>1 DEF With
  <2>2. vec' = [trivial |-> t, mCount |-> n, capacity |-> c, slots |-> f]
    BY <1>2, <2>1
  <2> QED BY <2>1, <2>2 DEF With
<1>5. \A k \in 0 .. (vec.mCount - 1) : f[k] \in Cells(Items)
  <2>1. Built(x) \in Cells(Items)
    BY BuiltCell
  <2> SUFFICES ASSUME NEW k \in 0 .. (vec.mCount - 1) PROVE f[k] \in Cells(Items)
    OBVIOUS
  <2>2. k \in 0 .. (vec.capacity - 1)
    BY <1>1
  <2> QED BY <1>1, <1>3, <2>1, <2>2
<1>6. Stored(vec', Items)
  BY <1>1, <1>3, <1>4, <1>5 DEF Stored
<1>7. NoneBeyond(vec) => NoneBeyond(vec')
  <2>1. \A j \in vec.mCount .. (vec.capacity - 1) : f[j] = vec.slots[j]
    BY <1>1, <1>3
  <2> QED BY <1>1, <1>4, <2>1 DEF NoneBeyond
<1>8. model' \in Seq(Items) /\ Len(model') = vec.mCount
  BY <1>1, <1>2
<1>9. ASSUME i = 0, Holds(vec, model) PROVE Holds(vec', model')
  <2> SUFFICES ASSUME NEW k \in 0 .. (vec.mCount - 1) PROVE f[k] = Built(model'[k + 1])
    BY <1>4 DEF Holds
  <2>1. k + 1 \in 1 .. Len(model) /\ k \in 0 .. (vec.capacity - 1) /\ k \in Nat
    BY <1>1
  <2>2. vec.slots[k] = Built(model[k + 1])
    BY <1>9 DEF Holds
  <2>3. CASE k = 0
    <3>1. model'[1] = x
      BY <1>1, <1>2, <1>9, <2>1, <2>3
    <3> QED BY <1>3, <2>3, <3>1
  <2>4. CASE k # 0
    <3>1. model'[k + 1] = model[k + 1]
      BY <1>1, <1>2, <1>9, <2>1, <2>4
    <3> QED BY <1>3, <2>1, <2>2, <2>4, <3>1
  <2> QED BY <2>3, <2>4
<1>10. hit' \in BOOLEAN /\ (~hit' => ~hit /\ i = 0)
  BY <1>2
<1> QED BY <1>4, <1>6, <1>7, <1>8, <1>9, <1>10 DEF VInv

LEMMA NextVInv == VInv /\ [VecNext]_vecVars => VInv'
<1> SUFFICES ASSUME VInv, [VecNext]_vecVars PROVE VInv'
  OBVIOUS
<1>1. CASE UNCHANGED vecVars
  BY <1>1 DEF vecVars, VInv
<1> QED BY <1>1, InsertAtVInv, RemoveItemsAtVInv, ClearVInv, SetCapacityVInv, EditItemAtVInv DEF VecNext

(* A Vector holds the sequence its owner believes it holds, each element    *)
(* constructed and nothing constructed elsewhere, for any elements, sizes   *)
(* and capacities, until it is hit by one of the two operations of          *)
(* VectorImpl.cpp found defective: the growth policy of _grow and _shrink   *)
(* never leaves too little storage, and every move that does not overlap    *)
(* moves what it should.                                                    *)
THEOREM VectorHoldsSequence == VecSpec => []HoldsSequence
<1>1. VInv => HoldsSequence
  <2> SUFFICES ASSUME VInv PROVE HoldsSequence
    OBVIOUS
  <2>1. /\ vec.mCount \in Nat /\ vec.capacity \in Nat /\ vec.mCount <= vec.capacity
        /\ DOMAIN vec.slots = 0 .. (vec.capacity - 1) /\ vec.mCount = Len(model)
    BY DEF VInv, Stored
  <2>2. ASSUME ~hit PROVE Contents(vec) = [k \in 1 .. Len(model) |-> Built(model[k])]
    <3>1. ASSUME NEW k \in 1 .. vec.mCount PROVE vec.slots[k - 1] = Built(model[k])
      <4>1. k - 1 \in 0 .. (vec.mCount - 1) /\ (k - 1) + 1 = k
        BY <2>1
      <4>2. vec.slots[k - 1] = Built(model[(k - 1) + 1])
        BY <2>2, <4>1 DEF VInv, Holds
      <4> QED BY <4>1, <4>2
    <3> QED BY <2>1, <3>1 DEF Contents
  <2>3. vec.trivial \/ \A j \in DOMAIN vec.slots : j >= vec.mCount => ~vec.slots[j].live
    BY <2>1 DEF VInv, NoneBeyond
  <2> QED BY <2>1, <2>2, <2>3 DEF HoldsSequence
<1> QED BY InitVInv, NextVInv, <1>1, PTL DEF VecSpec

-----------------------------------------------------------------------------
(* The copy loop of move_forward_type.                                      *)

(* The least number of a set.                                               *)
LEMMA Least ==
  ASSUME NEW S, S \subseteq Nat, S # {}
  PROVE  \E n \in S : \A k \in S : n <= k
<1> DEFINE R == {ss \in Nat \X Nat : ss[1] < ss[2]}
<1>1. IsWellFoundedOn(R, Nat)
  BY NatLessThanWellFounded DEF OpToRel
<1>2. PICK n \in S : \A k \in S : ~(<<k, n>> \in R)
  <2> HIDE DEF R
  <2> QED BY <1>1, WFMin
<1>3. ASSUME NEW k \in S, k < n  PROVE FALSE
  <2>1. <<k, n>> \in Nat \X Nat /\ <<k, n>>[1] < <<k, n>>[2]
    BY <1>3
  <2>2. <<k, n>> \in R
    BY <2>1
  <2> QED  BY <1>2, <2>2
<1> QED BY <1>3

LEMMA DivUnique ==
  ASSUME NEW g \in Nat \ {0}, NEW q \in Int, NEW m \in 0 .. (g - 1), NEW y \in Int, y = g * q + m
  PROVE  y \div g = q
<1>1. PICK p \in Int, r \in 0 .. (g - 1) : y \div g = p /\ y = g * p + r
  <2>1. y \div g \in Int /\ y % g \in 0 .. (g - 1) /\ y = g * (y \div g) + (y % g)
    OBVIOUS
  <2> QED BY <2>1
<1>2. PICK e \in Int : e = p - q
  OBVIOUS
<1>3. g * e = m - r
  <2>1. g * p = g * q + g * e
    BY <1>2
  <2>2. g * p \in Int /\ g * q \in Int /\ g * e \in Int
    OBVIOUS
  <2> QED BY <1>1, <2>1, <2>2
<1>4. ~(e >= 1)
  <2> SUFFICES ASSUME e >= 1 PROVE FALSE
    OBVIOUS
  <2>1. PICK a \in Nat : e = a + 1
    OBVIOUS
  <2>2. g * e = g * a + g /\ g * a \in Nat
    BY <2>1
  <2> QED BY <1>3, <2>2
<1>5. ~(e <= -1)
  <2> SUFFICES ASSUME e <= -1 PROVE FALSE
    OBVIOUS
  <2>1. PICK a \in Nat : e = 0 - a - 1
    <3>1. 0 - e - 1 \in Nat /\ e = 0 - (0 - e - 1) - 1
      OBVIOUS
    <3> QED BY <3>1
  <2>2. g * e = 0 - (g * a) - g /\ g * a \in Nat
    BY <2>1
  <2> QED BY <1>3, <2>2
<1> QED BY <1>1, <1>2, <1>4, <1>5

(* Moving down by g, a slot receives what the slot g above it would.        *)
LEMMA TakenByAbove ==
  ASSUME NEW d \in Nat, NEW g \in Nat \ {0}, NEW n \in Nat, NEW k \in 0 .. (n - 1)
  PROVE  /\ k + g < n => LastTaken(d, d + g, n, k) = LastTaken(d, d + g, n, k + g)
         /\ k + g >= n => LastTaken(d, d + g, n, k) = k
<1>1. (d + g) - d = g /\ d < d + g
  OBVIOUS
<1>2. PICK y \in Nat : y = n - 1 - k
  OBVIOUS
<1>3. PICK q \in Nat, m \in 0 .. (g - 1) : y \div g = q /\ y = g * q + m
  <2>1. y \div g \in Nat /\ y % g \in 0 .. (g - 1) /\ y = g * (y \div g) + (y % g)
    OBVIOUS
  <2> QED BY <2>1
<1>4. LastTaken(d, d + g, n, k) = k + g * q
  BY <1>1, <1>2, <1>3 DEF LastTaken
<1>5. ASSUME k + g < n PROVE LastTaken(d, d + g, n, k + g) = k + g * q
  <2>1. PICK p \in Int : p = q - 1
    OBVIOUS
  <2>2. g * q = g * p + g /\ g * p \in Int /\ g * q \in Int
    BY <2>1
  <2>3. PICK x \in Int : x = y - g
    OBVIOUS
  <2>4. x = g * p + m
    BY <1>3, <2>2, <2>3
  <2>5. x \div g = p
    BY <2>4, DivUnique
  <2>6. n - 1 - (k + g) = x
    BY <1>2, <2>3
  <2>7. LastTaken(d, d + g, n, k + g) = k + g + g * p
    BY <1>1, <2>5, <2>6 DEF LastTaken
  <2> QED BY <2>2, <2>7
<1>6. ASSUME k + g >= n PROVE q = 0
  <2>1. y = g * 0 + y /\ y \in 0 .. (g - 1)
    BY <1>2, <1>6
  <2> QED BY <1>3, <2>1, DivUnique
<1>7. q = 0 => k + g * q = k
  OBVIOUS
<1> QED BY <1>4, <1>5, <1>6, <1>7

(* The slots after i rounds of the loop.                                    *)
Moved(slots, d, s, n, i) ==
  [j \in DOMAIN slots |->
     LET k == j - d IN
     IF n - i <= k /\ k < n
       THEN [slots[s + LastTaken(d, s, n, k)] EXCEPT !.live = @ /\ (d > s \/ j < s + n - i)]
     ELSE IF s + n - i <= j /\ j < s + n THEN [slots[j] EXCEPT !.live = FALSE]
     ELSE slots[j]]

(* A round of the loop.                                                     *)
Rounded(a, d, s, n, i) ==
  [[a EXCEPT ![d + n - i] = a[s + n - i]] EXCEPT ![s + n - i].live = FALSE]

LEMMA OneMoved ==
  ASSUME NEW T, NEW c \in Nat, NEW slots \in [0 .. (c - 1) -> Cells(T)],
         NEW d \in 0 .. (c - 1), NEW s \in 0 .. (c - 1), d # s,
         NEW n \in Nat, d + n <= c, s + n <= c, NEW i \in 1 .. n
  PROVE  Moved(slots, d, s, n, i) = Rounded(Moved(slots, d, s, n, i - 1), d, s, n, i)
<1> PICK r \in Nat : r = n - i
  OBVIOUS
<1>0. n - i = r /\ n - (i - 1) = r + 1 /\ r < n
      /\ d + n - i = d + r /\ s + n - i = s + r /\ s + n - (i - 1) = s + r + 1
  OBVIOUS
<1> DEFINE a == Moved(slots, d, s, n, i - 1)
           b == Moved(slots, d, s, n, i)
           L(k) == LastTaken(d, s, n, k)
           e == [[a EXCEPT ![d + r] = a[s + r]] EXCEPT ![s + r].live = FALSE]
<1>1. DOMAIN slots = 0 .. (c - 1) /\ DOMAIN a = 0 .. (c - 1) /\ DOMAIN b = 0 .. (c - 1)
      /\ d + r \in 0 .. (c - 1) /\ s + r \in 0 .. (c - 1)
  <2>1. DOMAIN a = DOMAIN slots /\ DOMAIN b = DOMAIN slots
    BY DEF Moved
  <2>2. d + r \in 0 .. (c - 1) /\ s + r \in 0 .. (c - 1)
    <3> HIDE DEF a, b
    <3> QED BY <1>0
  <2> QED BY <2>1, <2>2
<1>2. \A k \in 0 .. (n - 1) :
        /\ L(k) \in 0 .. (n - 1)
        /\ d > s => L(k) = k
        /\ d < s => /\ k + (s - d) < n => L(k) = L(k + (s - d))
                    /\ k + (s - d) >= n => L(k) = k
  <2> SUFFICES ASSUME NEW k \in 0 .. (n - 1)
               PROVE  /\ L(k) \in 0 .. (n - 1)
                      /\ d > s => L(k) = k
                      /\ d < s => /\ k + (s - d) < n => L(k) = L(k + (s - d))
                                  /\ k + (s - d) >= n => L(k) = k
    OBVIOUS
  <2>1. CASE d > s
    BY <2>1 DEF LastTaken
  <2>2. CASE d < s
    <3>1. PICK g \in Nat \ {0} : g = s - d
      BY <2>2
    <3>2. s = d + g /\ d \in Nat
      BY <3>1
    <3>3. L(k) \in k .. (n - 1)
      BY <3>2, TakenInRange
    <3>4. /\ k + g < n => L(k) = L(k + g)
          /\ k + g >= n => L(k) = k
      BY <3>2, TakenByAbove
    <3> QED BY <2>2, <3>1, <3>3, <3>4
  <2> QED BY <2>1, <2>2
<1> HIDE DEF L
<1>3. \A j \in 0 .. (c - 1) :
        a[j] = IF r + 1 <= j - d /\ j - d < n
                 THEN [slots[s + L(j - d)] EXCEPT !.live = @ /\ (d > s \/ j < s + r + 1)]
               ELSE IF s + r + 1 <= j /\ j < s + n THEN [slots[j] EXCEPT !.live = FALSE]
               ELSE slots[j]
  BY <1>0, <1>1 DEF Moved, L
<1>4. \A j \in 0 .. (c - 1) :
        b[j] = IF r <= j - d /\ j - d < n
                 THEN [slots[s + L(j - d)] EXCEPT !.live = @ /\ (d > s \/ j < s + r)]
               ELSE IF s + r <= j /\ j < s + n THEN [slots[j] EXCEPT !.live = FALSE]
               ELSE slots[j]
  BY <1>0, <1>1 DEF Moved, L
<1>5. \A k \in 0 .. (n - 1) : slots[s + L(k)] \in Cells(T)
  <2> SUFFICES ASSUME NEW k \in 0 .. (n - 1) PROVE slots[s + L(k)] \in Cells(T)
    OBVIOUS
  <2>1. s + L(k) \in 0 .. (c - 1)
    BY <1>2
  <2> QED BY <2>1
<1> HIDE DEF a, b
(* What the target receives is what its place in the closed form holds.     *)
<1>6. a[s + r] = slots[s + L(r)]
  <2>0. r \in 0 .. (n - 1)
    BY <1>0
  <2>1. CASE d > s
    <3>1. ~(r + 1 <= (s + r) - d) /\ ~(s + r + 1 <= s + r) /\ L(r) = r
      BY <1>2, <2>0, <2>1
    <3> QED BY <1>1, <1>3, <3>1
  <2>2. CASE d < s /\ r + (s - d) < n
    <3>1. PICK k \in 0 .. (n - 1) : k = r + (s - d)
      BY <2>0, <2>2
    <3>2. (s + r) - d = k /\ r + 1 <= k /\ k < n /\ s + r < s + r + 1 /\ L(r) = L(k)
      BY <1>2, <2>0, <2>2, <3>1
    <3>3. a[s + r] = [slots[s + L(k)] EXCEPT !.live = @ /\ TRUE]
      BY <1>1, <1>3, <3>2
    <3>4. slots[s + L(k)] \in Cells(T)
      BY <1>5
    <3> QED BY <3>2, <3>3, <3>4, CellsKept
  <2>3. CASE d < s /\ r + (s - d) >= n
    <3>1. ~((s + r) - d < n) /\ ~(s + r + 1 <= s + r) /\ L(r) = r
      BY <1>2, <2>0, <2>3
    <3> QED BY <1>1, <1>3, <3>1
  <2>4. (d > s \/ d < s) /\ (r + (s - d) < n \/ r + (s - d) >= n)
    <3>1. d \in Int /\ s \in Int /\ r \in Int /\ n \in Int
      OBVIOUS
    <3> QED BY <3>1
  <2> QED BY <2>1, <2>2, <2>3, <2>4
<1>7. DOMAIN e = 0 .. (c - 1)
  BY <1>1
<1>8. ASSUME NEW j \in 0 .. (c - 1), j # d + r, j # s + r PROVE e[j] = b[j]
  <2>1. e[j] = a[j]
    BY <1>1, <1>8
  <2>2. /\ r + 1 <= j - d <=> r <= j - d
        /\ s + r + 1 <= j <=> s + r <= j
        /\ j < s + r + 1 <=> j < s + r
    BY <1>8
  <2> QED BY <1>3, <1>4, <2>1, <2>2
<1>9. e[d + r] = b[d + r]
  <2>1. e[d + r] = a[s + r]
    BY <1>1
  <2>2. (d + r) - d = r /\ r <= r /\ r < n /\ (d > s \/ d + r < s + r)
    BY <1>0
  <2>3. b[d + r] = [slots[s + L(r)] EXCEPT !.live = @ /\ TRUE]
    BY <1>1, <1>4, <2>2
  <2>4. slots[s + L(r)] \in Cells(T)
    BY <1>0, <1>5
  <2> QED BY <1>6, <2>1, <2>3, <2>4, CellsKept
<1>10. e[s + r] = b[s + r]
  <2>1. e[s + r] = [a[s + r] EXCEPT !.live = FALSE]
    BY <1>1
  <2>2. CASE d > s \/ r + (s - d) >= n
    <3>1. ~(r <= (s + r) - d /\ (s + r) - d < n) /\ s + r <= s + r /\ s + r < s + n
      BY <1>0, <2>2
    <3>2. b[s + r] = [slots[s + r] EXCEPT !.live = FALSE]
      BY <1>1, <1>4, <3>1
    <3>3. r \in 0 .. (n - 1) /\ L(r) = r
      BY <1>0, <1>2, <2>2
    <3> QED BY <1>6, <2>1, <3>2, <3>3
  <2>3. CASE d < s /\ r + (s - d) < n
    <3>1. PICK k \in 0 .. (n - 1) : k = r + (s - d)
      BY <1>0, <2>3
    <3>2. r \in 0 .. (n - 1) /\ (s + r) - d = k /\ r <= k /\ k < n /\ L(r) = L(k)
          /\ ~(d > s) /\ ~(s + r < s + r)
      BY <1>0, <1>2, <2>3, <3>1
    <3>3. b[s + r] = [slots[s + L(k)] EXCEPT !.live = @ /\ FALSE]
      BY <1>1, <1>4, <3>2
    <3>4. slots[s + L(k)] \in Cells(T)
      BY <1>5
    <3>5. [slots[s + L(k)] EXCEPT !.live = @ /\ FALSE] = [slots[s + L(k)] EXCEPT !.live = FALSE]
      BY <3>4 DEF Cells
    <3> QED BY <1>6, <2>1, <3>2, <3>3, <3>5
  <2>4. (d > s \/ r + (s - d) >= n) \/ (d < s /\ r + (s - d) < n)
    <3>1. d \in Int /\ s \in Int /\ r \in Int /\ n \in Int
      OBVIOUS
    <3> QED BY <3>1
  <2> HIDE DEF e
  <2> QED BY <2>2, <2>3, <2>4
<1>11. e = b
  <2>1. \A j \in 0 .. (c - 1) : e[j] = b[j]
    BY <1>8, <1>9, <1>10
  <2>2. e = [j \in 0 .. (c - 1) |-> e[j]]
    BY <1>7
  <2>3. b = [j \in 0 .. (c - 1) |-> b[j]]
    BY <1>1 DEF b, Moved
  <2> QED BY <2>1, <2>2, <2>3
<1> QED BY <1>0, <1>11 DEF a, b, Rounded

(* MoveForward's closed form is what the loop computes. Its rounds are the  *)
(* only function there is with its recursion, by the least round that would *)
(* be another.                                                              *)
LEMMA LoopMoves ==
  ASSUME NEW T, NEW c \in Nat, NEW slots \in [0 .. (c - 1) -> Cells(T)],
         NEW d \in 0 .. (c - 1), NEW s \in 0 .. (c - 1), d # s,
         NEW n \in Nat, d + n <= c, s + n <= c
  PROVE  MoveForward(slots, FALSE, d, s, n) = MoveForwardLoop(slots, d, s, n)
<1> DEFINE Step(a, i) == Rounded(a, d, s, n, i)
           round[i \in 0 .. n] == IF i = 0 THEN slots ELSE Step(round[i - 1], i)
           closed == [i \in 0 .. n |-> Moved(slots, d, s, n, i)]
<1>1. Moved(slots, d, s, n, 0) = slots
  <2>1. \A j \in 0 .. (c - 1) : /\ ~(n - 0 <= j - d /\ j - d < n)
                                /\ ~(s + n - 0 <= j /\ j < s + n)
    OBVIOUS
  <2>2. DOMAIN slots = 0 .. (c - 1) /\ slots = [j \in 0 .. (c - 1) |-> slots[j]]
    OBVIOUS
  <2>3. Moved(slots, d, s, n, 0) = [j \in 0 .. (c - 1) |-> slots[j]]
    BY <2>1, <2>2 DEF Moved
  <2> QED BY <2>2, <2>3
<1>2. \A i \in 1 .. n : Moved(slots, d, s, n, i) = Step(Moved(slots, d, s, n, i - 1), i)
  <2> SUFFICES ASSUME NEW i \in 1 .. n
               PROVE  Moved(slots, d, s, n, i) = Step(Moved(slots, d, s, n, i - 1), i)
    OBVIOUS
  <2> HIDE DEF round, closed
  <2> QED BY OneMoved
<1>3. closed = [i \in 0 .. n |-> IF i = 0 THEN slots ELSE Step(closed[i - 1], i)]
  <2> SUFFICES ASSUME NEW i \in 0 .. n
               PROVE  closed[i] = IF i = 0 THEN slots ELSE Step(closed[i - 1], i)
    OBVIOUS
  <2>1. CASE i = 0
    BY <1>1, <2>1
  <2>2. CASE i # 0
    <3>1. i \in 1 .. n /\ i - 1 \in 0 .. n
      BY <2>2
    <3>2. closed[i] = Moved(slots, d, s, n, i) /\ closed[i - 1] = Moved(slots, d, s, n, i - 1)
      BY <3>1
    <3> HIDE DEF Step, closed
    <3> QED BY <1>2, <2>2, <3>1, <3>2
  <2> QED BY <2>1, <2>2
<1>4. round = [i \in 0 .. n |-> IF i = 0 THEN slots ELSE Step(round[i - 1], i)]
  <2> HIDE DEF Step, closed
  <2> QED BY <1>3
<1>5. MoveForwardLoop(slots, d, s, n) = round[n]
  BY DEF MoveForwardLoop, Rounded
<1> HIDE DEF round, closed, Step
<1>6. \A i \in 0 .. n : round[i] = Moved(slots, d, s, n, i)
  <2> DEFINE Bad == {i \in 0 .. n : round[i] # Moved(slots, d, s, n, i)}
  <2> SUFFICES ASSUME Bad # {} PROVE FALSE
    OBVIOUS
  <2>1. PICK i \in Bad : \A j \in Bad : i <= j
    <3>1. Bad \subseteq Nat
      OBVIOUS
    <3> QED BY <3>1, Least
  <2>2. i # 0
    BY <1>1, <1>4, <2>1
  <2>3. i \in 1 .. n /\ i - 1 \in 0 .. n /\ ~(i <= i - 1)
    BY <2>1, <2>2
  <2>4. round[i - 1] = Moved(slots, d, s, n, i - 1)
    BY <2>1, <2>3
  <2> QED BY <1>2, <1>4, <2>1, <2>2, <2>3, <2>4
<1>7. Moved(slots, d, s, n, n) = MoveForward(slots, FALSE, d, s, n)
  <2>1. n - n = 0 /\ s + n - n = s
    OBVIOUS
  <2> QED BY <2>1 DEF Moved, MoveForward
<1>8. n \in 0 .. n
  OBVIOUS
<1> QED BY <1>5, <1>6, <1>7, <1>8
=============================================================================

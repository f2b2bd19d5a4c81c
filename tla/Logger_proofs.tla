---------------------------- MODULE Logger_proofs ----------------------------
(***************************************************************************)
(* Proofs about Logger: for logs, entries, readers and writers of any size  *)
(* and number, the state is well typed, no wake-up is lost, and a reader    *)
(* that may trust its place reads what was written, in order. TypeOK and    *)
(* NoLostWakeup are inductive together; the reads rest on LogInv, what the  *)
(* buffer holds of the writes, and on Good, where a reader is in the log.   *)
(***************************************************************************)
EXTENDS Logger, TLAPS

IInv == TypeOK /\ NoLostWakeup

LEMMA OffsetInBuffer ==
  ASSUME NEW n \in Nat PROVE logger_offset(n) \in 0 .. (Size - 1)
BY LoggerSizes DEF logger_offset

LEMMA PayloadLength ==
  ASSUME NEW len \in Lens PROVE Payload(len) \in 0 .. MaxPayload
BY LoggerSizes DEF Payload

LEMMA HeaderLength ==
  ASSUME NEW h \in Headers PROVE h.len \in Nat /\ HdrLen + h.len \in Nat
<1> DEFINE E == {Euid[p] : p \in Writers \cup Readers}
           L == {Payload(l) : l \in Lens}
<1> HIDE DEF E, L
<1>0. h \in [euid : E, len : GarbageLens \cup L]  BY DEF Headers, E, L
<1>1. h.len \in GarbageLens \/ h.len \in L  BY <1>0
<1>2. CASE h.len \in GarbageLens
  <2>1. \A n \in GarbageLens : n \in Nat /\ HdrLen + n \in Nat  BY LoggerSizes
  <2> QED BY <1>2, <2>1
<1>3. CASE h.len \in L
  <2>1. PICK l \in Lens : h.len = Payload(l)  BY <1>3 DEF L
  <2> QED BY <2>1, PayloadLength, LoggerSizes
<1> QED BY <1>1, <1>2, <1>3

LEMMA OffsetMapped ==
  ASSUME NEW n \in Nat PROVE logger_offset(n) \in 0 .. (Mapped - 1)
<1>1. logger_offset(n) \in 0 .. (Size - 1)  BY OffsetInBuffer
<1> QED BY <1>1, LoggerSizes

Buffers == [0 .. (Mapped - 1) -> BufferUnits]

LEMMA memcpyTyped ==
  ASSUME NEW b \in Buffers, NEW to \in Nat, NEW i \in 1 .. MaxWrites, NEW k \in Nat, NEW n \in Int
  PROVE  memcpy(b, to, i, k, n) \in Buffers
<1> SUFFICES ASSUME NEW u \in 0 .. (Mapped - 1)
             PROVE  memcpy(b, to, i, k, n)[u] \in BufferUnits
  BY DEF memcpy, Buffers
<1>1. to <= u => k + (u - to) \in Nat  OBVIOUS
<1>2. to <= u => <<i, k + (u - to)>> \in BufferUnits  BY <1>1, LoggerBounds DEF BufferUnits
<1>3. b[u] \in BufferUnits  BY DEF Buffers
<1>4. memcpy(b, to, i, k, n)[u]
        = IF to <= u /\ u < to + n THEN <<i, k + (u - to)>> ELSE b[u]
  BY DEF memcpy, Buffers
<1> QED BY <1>2, <1>3, <1>4

LEMMA CopyStaysInBuffer ==
  ASSUME TypeOK, NEW i \in 1 .. MaxWrites, NEW n \in Nat, HdrLen <= n
  PROVE  Copied(w_off, i, n) \in Buffers
<1> DEFINE start == logger_offset(w_off + HdrLen)
           len   == Smaller(n - HdrLen, Size - start)
           hlen  == Smaller(HdrLen, Size - w_off)
<1>1. /\ w_off \in Nat /\ w_off <= Size - 1 /\ HdrLen \in Nat /\ Size \in Nat
      /\ buffer \in Buffers
  BY LoggerSizes DEF TypeOK, Buffers
<1>2. start \in 0 .. (Size - 1)  BY <1>1, OffsetInBuffer
<1>3. hlen \in Nat  BY <1>1 DEF Smaller
<1> HIDE DEF start
<1>4. len \in Nat  BY <1>1, <1>2 DEF Smaller
<1>5. memcpy(buffer, w_off, i, 0, hlen) \in Buffers  BY <1>1, <1>3, memcpyTyped
<1> HIDE DEF hlen, len
<1>6. HdrLen - hlen \in Int /\ HdrLen + len \in Nat /\ n - HdrLen - len \in Int /\ start \in Nat
  BY <1>1, <1>2, <1>3, <1>4
<1>7. HeaderCopied(w_off, i) \in Buffers
  <2>1. memcpy(memcpy(buffer, w_off, i, 0, hlen), 0, i, hlen, HdrLen - hlen) \in Buffers
    BY <1>3, <1>5, <1>6, memcpyTyped
  <2> QED BY <2>1 DEF HeaderCopied, hlen
<1>8. memcpy(HeaderCopied(w_off, i), start, i, HdrLen, len) \in Buffers
  BY <1>1, <1>4, <1>6, <1>7, memcpyTyped
<1>9. memcpy(memcpy(HeaderCopied(w_off, i), start, i, HdrLen, len),
             0, i, HdrLen + len, n - HdrLen - len) \in Buffers
  BY <1>6, <1>8, memcpyTyped
<1> QED BY <1>9 DEF Copied, start, len

LEMMA ReadGivesAWrite ==
  ASSUME TypeOK, NEW off \in Nat, NEW n \in Nat
  PROVE  EntryRead(off, n) \in 0 .. MaxWrites
<1>1. Unit(off, 0) \in BufferUnits
  <2>1. Place(off, 0) = logger_offset(off)  BY LoggerSizes DEF Place
  <2> QED BY <2>1, OffsetMapped DEF Unit, TypeOK
<1>2. Unit(off, 0)[1] \in 0 .. MaxWrites  BY <1>1 DEF BufferUnits
<1>3. Torn \in 0 .. MaxWrites  BY LoggerBounds DEF Torn
<1> QED BY <1>2, <1>3 DEF EntryRead

(* A read gives the reader one more entry, or nothing, and leaves it at an  *)
(* offset in the buffer.                                                    *)
LEMMA FetchKeepsTypes ==
  ASSUME TypeOK, NEW r \in Readers, NEW h \in Headers, Fetch(r, h) \/ FetchFaults
  PROVE  /\ r_off' \in [Readers -> 0 .. (Size - 1)]
         /\ rpos' \in [Readers -> Nat]
         /\ got' \in [Readers -> Seq(0 .. MaxWrites)]
<1> USE DEF TypeOK
<1>1. CASE UNCHANGED <<got, r_off, rpos>>  BY <1>1
<1>2. CASE /\ Give(r, EntryRead(r_off[r], HdrLen + h.len))
           /\ r_off' = [r_off EXCEPT ![r] = logger_offset(@ + (HdrLen + h.len))]
           /\ Advance(r, HdrLen + h.len)
  <2>1. HdrLen + h.len \in Nat  BY HeaderLength
  <2>2. r_off[r] \in Nat /\ r_off[r] + (HdrLen + h.len) \in Nat  BY <2>1, LoggerSizes
  <2>3. EntryRead(r_off[r], HdrLen + h.len) \in 0 .. MaxWrites  BY <2>1, <2>2, ReadGivesAWrite
  <2>4. logger_offset(r_off[r] + (HdrLen + h.len)) \in 0 .. (Size - 1)
    BY <2>2, OffsetInBuffer
  <2>5. r_off' \in [Readers -> 0 .. (Size - 1)]  BY <1>2, <2>4
  <2>6. rpos' \in [Readers -> Nat]  BY <1>2, <2>1 DEF Advance
  <2> DEFINE e == EntryRead(r_off[r], HdrLen + h.len)
  <2> HIDE DEF e
  <2>7. <<e>> \in Seq(0 .. MaxWrites) /\ Append(got[r], e) \in Seq(0 .. MaxWrites)
    BY <2>3 DEF e
  <2>8. got' \in [Readers -> Seq(0 .. MaxWrites)]
    BY <1>2, <2>7 DEF Give, e
  <2> QED BY <2>5, <2>6, <2>8
<1> QED BY <1>1, <1>2 DEF Fetch, FetchFaults

-----------------------------------------------------------------------------
LEMMA InitIInv == Init => IInv
<1> SUFFICES ASSUME Init PROVE IInv  OBVIOUS
<1>1. buffer \in [0 .. (Mapped - 1) -> BufferUnits]
  BY LoggerBounds DEF Init, BufferUnits
<1>2. TypeOK
  BY <1>1, LoggerSizes, LoggerBounds, SMTT(20) DEF Init, TypeOK
<1>3. NoLostWakeup  BY DEF Init, NoLostWakeup
<1> QED BY <1>2, <1>3 DEF IInv

LEMMA WriteKeeps ==
  ASSUME IInv, NEW w \in Writers, NEW len \in Lens,
         NEW n \in HdrLen .. (HdrLen + MaxPayload), Write(w, len, n)
  PROVE  IInv'
<1> USE DEF IInv
<1> DEFINE i == Len(writes) + 1
           all == HdrLen + Payload(len)
           rec == [euid |-> Euid[w], len |-> Payload(len), start |-> wpos, ok |-> (n = all),
                   ret |-> IF n = all THEN Returned(len) ELSE -1]
<1>1. i \in 1 .. MaxWrites /\ n \in Nat /\ all \in Nat /\ Payload(len) \in Nat
  BY PayloadLength, LoggerSizes, LoggerBounds DEF Write, TypeOK
<1>2. buffer' \in [0 .. (Mapped - 1) -> BufferUnits]
  <2>1. HdrLen <= n  BY LoggerSizes
  <2> QED BY <1>1, <2>1, CopyStaysInBuffer DEF Write, Buffers
<1>3. /\ w_off' \in 0 .. (Size - 1) /\ wpos' \in Nat
      /\ wpc' \in [Writers -> {"idle", "wake", "oops"}]
      /\ w_off' # w_off => wpc'[w] \in {"wake", "oops"}
      /\ \A v \in Writers : wpc[v] \in {"wake", "oops"} => wpc'[v] \in {"wake", "oops"}
  <2>1. CASE UNCHANGED <<w_off, wpos, wpc>>  BY <2>1 DEF TypeOK
  <2>2. CASE Commit(w, len)
    <3>1. w_off + HdrLen + Payload(len) \in Nat  BY <1>1, LoggerSizes DEF TypeOK
    <3>2. w_off' \in 0 .. (Size - 1)  BY <2>2, <3>1, OffsetInBuffer DEF Commit
    <3>3. wpos' \in Nat  BY <1>1, <2>2, LoggerSizes DEF Commit, TypeOK
    <3>4. PICK next \in {"wake", "oops"} : wpc' = [wpc EXCEPT ![w] = next]
      BY <2>2 DEF Commit
    <3> QED BY <3>2, <3>3, <3>4 DEF TypeOK
  <2> QED BY <2>1, <2>2 DEF Write
<1>4. dirty' \in Nat  BY <1>1 DEF Write, Larger, TypeOK
<1>5. lost' \in [Readers -> BOOLEAN]
  <2>1. lost' = [r \in Readers |->
                   lost[r] \/ (rpc[r] # "closed" /\ Overtaken(r, wpos', dirty'))]
    BY DEF Write
  <2>2. \A r \in Readers :
          (lost[r] \/ (rpc[r] # "closed" /\ Overtaken(r, wpos', dirty'))) \in BOOLEAN
    OBVIOUS
  <2> QED BY <2>1, <2>2
<1>6. Returned(len) \in Int
  <2>1. logger_offset(w_off + HdrLen) \in Int
    BY OffsetInBuffer, LoggerSizes DEF TypeOK
  <2> QED BY <1>1, <2>1, LoggerSizes DEF Returned, Smaller
<1>7. rec \in WriteRecords
  <2>1. (n = all) \in BOOLEAN  OBVIOUS
  <2>2. Euid[w] \in {Euid[v] : v \in Writers}  OBVIOUS
  <2>3. wpos \in Nat  BY DEF TypeOK
  <2>4. (IF n = all THEN Returned(len) ELSE -1) \in Int  BY <1>6
  <2> HIDE DEF all
  <2> QED BY <1>1, <2>1, <2>2, <2>3, <2>4 DEF WriteRecords
<1>8. writes' = Append(writes, rec)  BY DEF Write
<1> HIDE DEF rec
<1>9. writes' \in Seq(WriteRecords) /\ Len(writes') <= MaxWrites
  BY <1>1, <1>7, <1>8 DEF TypeOK
<1>10. UNCHANGED <<rpc, nonblock, r_all, r_off, queued, pending, rpos, got>>  BY DEF Write
<1>11. TypeOK'
  BY <1>2, <1>3, <1>4, <1>5, <1>9, <1>10 DEF TypeOK
<1>12. NoLostWakeup'  BY <1>3, <1>10 DEF NoLostWakeup, Killed
<1> QED BY <1>11, <1>12

LEMMA WakeUpKeeps ==
  ASSUME IInv, NEW w \in Writers, WakeUp(w) PROVE IInv'
<1>1. TypeOK'  BY DEF IInv, TypeOK, WakeUp
<1>2. NoLostWakeup'  BY DEF NoLostWakeup, WakeUp, IInv, TypeOK
<1> QED BY <1>1, <1>2 DEF IInv

(* A reader changes nothing of a writer's, and another reader's state stays *)
(* what it was; asleep it gets in PrepareToWait only, with an empty log.    *)
LEMMA OpenKeeps ==
  ASSUME IInv, NEW r \in Readers, NEW all \in BOOLEAN, NEW nb \in BOOLEAN, Open(r, all, nb)
  PROVE  IInv'
<1>1. (wpos >= Size \/ dirty > Size) \in BOOLEAN  OBVIOUS
<1>2. lost' \in [Readers -> BOOLEAN]  BY <1>1, Zenon DEF IInv, TypeOK, Open
<1>3. head \in 0 .. (Size - 1)  BY LoggerSizes DEF head
<1>4. TypeOK'  BY <1>2, <1>3 DEF IInv, TypeOK, Open, wvars
<1>5. NoLostWakeup'  BY DEF IInv, TypeOK, NoLostWakeup, Killed, Open, wvars
<1> QED BY <1>4, <1>5 DEF IInv

LEMMA ReleaseKeeps ==
  ASSUME IInv, NEW r \in Readers, Release(r) PROVE IInv'
<1>1. 0 \in 0 .. (Size - 1)  BY LoggerSizes
<1>2. TypeOK'  BY <1>1 DEF IInv, TypeOK, Release, wvars
<1>3. NoLostWakeup'  BY DEF IInv, TypeOK, NoLostWakeup, Killed, Release, wvars
<1> QED BY <1>2, <1>3 DEF IInv

LEMMA WaitingKeeps ==
  ASSUME IInv, NEW r \in Readers,
         StartRead(r) \/ Signal(r) \/ PrepareToWait(r) \/ Schedule(r)
  PROVE  IInv'
<1> USE DEF IInv, TypeOK, wvars
<1>1. CASE StartRead(r)  BY <1>1 DEF StartRead, NoLostWakeup, Killed
<1>2. CASE Signal(r)  BY <1>2 DEF Signal, NoLostWakeup, Killed
<1>3. CASE PrepareToWait(r)
  <2>1. TypeOK'  BY <1>3 DEF PrepareToWait
  <2>2. NoLostWakeup'  BY <1>3 DEF PrepareToWait, NoLostWakeup, Killed
  <2> QED BY <2>1, <2>2
<1>4. CASE Schedule(r)  BY <1>4 DEF Schedule, NoLostWakeup, Killed
<1> QED BY <1>1, <1>2, <1>3, <1>4

LEMMA TakeKeeps ==
  ASSUME IInv, NEW r \in Readers, Take(r) \/ TakeFaults(r) PROVE IInv'
<1>1. /\ r_off' \in [Readers -> 0 .. (Size - 1)]
      /\ rpos' \in [Readers -> Nat]
      /\ got' \in [Readers -> Seq(0 .. MaxWrites)]
      /\ \A q \in Readers \ {r} : r_off'[q] = r_off[q]
  <2>1. CASE UNCHANGED <<got, r_off, rpos>>  BY <2>1 DEF IInv, TypeOK
  <2>2. CASE \E h \in Headers : HeaderAt(r_off[r], h) /\ Fetch(r, h)
    <3>1. PICK h \in Headers : Fetch(r, h)  BY <2>2
    <3>2. \A q \in Readers \ {r} : r_off'[q] = r_off[q]
      BY <3>1 DEF Fetch, IInv, TypeOK
    <3> QED BY <3>1, <3>2, FetchKeepsTypes DEF IInv
  <2> QED BY <2>1, <2>2 DEF Take, TakeFaults, FetchFaults
<1>2. rpc'[r] # "sched" /\ \A q \in Readers \ {r} : rpc'[q] = rpc[q]
  BY DEF Take, TakeFaults, Finish, IInv, TypeOK
<1>3. /\ rpc' \in [Readers -> {"closed", "idle", "start", "sched", "take", "skip"}]
      /\ pending' \in [Readers -> BOOLEAN]
  BY DEF Take, TakeFaults, Finish, IInv, TypeOK
<1>4. UNCHANGED <<wvars, nonblock, r_all, queued, lost>>  BY DEF Take, TakeFaults
<1>5. TypeOK'  BY <1>1, <1>3, <1>4 DEF IInv, TypeOK, wvars
<1>6. NoLostWakeup'  BY <1>1, <1>2, <1>4 DEF IInv, NoLostWakeup, Killed, wvars
<1> QED BY <1>5, <1>6 DEF IInv

LEMMA SkipKeeps ==
  ASSUME IInv, NEW r \in Readers, Skip(r) \/ SkipFaults(r) PROVE IInv'
<1>1. CASE /\ UNCHANGED <<got, r_off, rpos, lost>>
           /\ \/ rpc' = [rpc EXCEPT ![r] = "start"] /\ UNCHANGED pending
              \/ Finish(r)
           /\ UNCHANGED <<wvars, nonblock, r_all, queued>>
  <2>1. TypeOK'  BY <1>1 DEF IInv, TypeOK, wvars, Finish
  <2>2. NoLostWakeup'  BY <1>1 DEF IInv, TypeOK, NoLostWakeup, Killed, wvars, Finish
  <2> QED BY <2>1, <2>2 DEF IInv
<1>2. CASE /\ \E h \in Headers : Fetch(r, h)
           /\ Finish(r) /\ UNCHANGED lost
           /\ UNCHANGED <<wvars, nonblock, r_all, queued>>
  <2>1. PICK h \in Headers : Fetch(r, h)  BY <1>2
  <2>2. \A q \in Readers \ {r} : r_off'[q] = r_off[q]
    BY <2>1 DEF Fetch, IInv, TypeOK
  <2>3. /\ r_off' \in [Readers -> 0 .. (Size - 1)]
        /\ rpos' \in [Readers -> Nat]
        /\ got' \in [Readers -> Seq(0 .. MaxWrites)]
    BY <2>1, FetchKeepsTypes DEF IInv
  <2>4. TypeOK'  BY <1>2, <2>3 DEF IInv, TypeOK, wvars, Finish
  <2>5. NoLostWakeup'  BY <1>2, <2>2 DEF IInv, TypeOK, NoLostWakeup, Killed, wvars, Finish
  <2> QED BY <2>4, <2>5 DEF IInv
<1>3. CASE \E h \in Headers :
             /\ r_off' = [r_off EXCEPT ![r] = NextEntryByUid(@, h)]
             /\ Advance(r, HdrLen + h.len)
             /\ lost' = [lost EXCEPT ![r] = @ \/ r_off[r] # 0]
             /\ UNCHANGED <<rpc, got, pending>>
             /\ UNCHANGED <<wvars, nonblock, r_all, queued>>
             /\ rpc[r] = "skip"
  <2>1. PICK h \in Headers :
             /\ r_off' = [r_off EXCEPT ![r] = NextEntryByUid(@, h)]
             /\ Advance(r, HdrLen + h.len)
             /\ lost' = [lost EXCEPT ![r] = @ \/ r_off[r] # 0]
             /\ UNCHANGED <<rpc, got, pending>>
             /\ UNCHANGED <<wvars, nonblock, r_all, queued>>
             /\ rpc[r] = "skip"
    BY <1>3
  <2>2. HdrLen + h.len \in Nat  BY HeaderLength
  <2>3. NextEntryByUid(r_off[r], h) \in 0 .. (Size - 1)
    BY <2>2, OffsetInBuffer DEF NextEntryByUid
  <2>4. r_off' \in [Readers -> 0 .. (Size - 1)] /\ rpos' \in [Readers -> Nat]
    BY <2>1, <2>2, <2>3 DEF IInv, TypeOK, Advance
  <2>5. (lost[r] \/ r_off[r] # 0) \in BOOLEAN  OBVIOUS
  <2>6. lost' \in [Readers -> BOOLEAN]  BY <2>1, <2>5, Zenon DEF IInv, TypeOK
  <2>7. TypeOK'  BY <2>1, <2>4, <2>6 DEF IInv, TypeOK, wvars
  <2>8. NoLostWakeup'  BY <2>1 DEF IInv, TypeOK, NoLostWakeup, Killed, wvars
  <2> QED BY <2>7, <2>8 DEF IInv
<1> QED BY <1>1, <1>2, <1>3 DEF Skip, SkipFaults, FetchFaults

-----------------------------------------------------------------------------
LEMMA StepKeepsIInv == IInv /\ [Next]_vars => IInv'
<1> SUFFICES ASSUME IInv, [Next]_vars PROVE IInv'  OBVIOUS
<1>1. CASE UNCHANGED vars
  BY <1>1 DEF vars, wvars, IInv, TypeOK, NoLostWakeup, Killed
<1>2. CASE \E w \in Writers : WakeUp(w)  BY <1>2, WakeUpKeeps
<1>3. CASE \E w \in Writers, len \in Lens, n \in HdrLen .. (HdrLen + MaxPayload) :
             Write(w, len, n)
  BY <1>3, WriteKeeps
<1>4. CASE \E r \in Readers, all, nb \in BOOLEAN : Open(r, all, nb)  BY <1>4, OpenKeeps
<1>5. CASE \E r \in Readers : Release(r)  BY <1>5, ReleaseKeeps
<1>6. CASE \E r \in Readers : StartRead(r) \/ Signal(r) \/ PrepareToWait(r) \/ Schedule(r)
  BY <1>6, WaitingKeeps
<1>7. CASE \E r \in Readers : Take(r) \/ TakeFaults(r)  BY <1>7, TakeKeeps
<1>8. CASE \E r \in Readers : Skip(r) \/ SkipFaults(r)  BY <1>8, SkipKeeps
<1> QED BY <1>1, <1>2, <1>3, <1>4, <1>5, <1>6, <1>7, <1>8 DEF Next, Reading

(* Every offset stays in the buffer and every variable keeps its type, also *)
(* for readers sent to what is not an entry (get_next_entry_by_uid).        *)
THEOREM LoggerTypes == Spec => []TypeOK
<1>1. IInv => TypeOK  BY DEF IInv
<1> QED BY <1>1, InitIInv, StepKeepsIInv, PTL DEF Spec

(* logger_read queues before it tests w_off and logger_write_iter wakes     *)
(* after it moved w_off: no reader sleeps on a log that is not empty for it *)
(* without a writer about to wake it, but for one that was killed between   *)
(* the two and has left the mutex locked.                                   *)
THEOREM ReadersWoken == Spec => []NoLostWakeup
<1>1. IInv => NoLostWakeup  BY DEF IInv
<1> QED BY <1>1, InitIInv, StepKeepsIInv, PTL DEF Spec

-----------------------------------------------------------------------------
(* The arithmetic of the ring: what logger_offset does to places in the log *)
(* that are less than a buffer apart.                                       *)
LEMMA Remainder ==
  ASSUME NEW n \in Nat \ {0}, NEW q \in Nat, NEW r \in 0 .. (n - 1)
  PROVE  (n * q + r) % n = r
<1>1. n * q \in Nat  OBVIOUS
<1>2. PICK y \in Nat : y = n * q + r  BY <1>1
<1>3. PICK e \in Nat, s \in 0 .. (n - 1) : y = n * e + s /\ y % n = s
  <2>1. /\ y \div n \in Nat /\ y % n \in 0 .. (n - 1)
        /\ y = n * (y \div n) + (y % n)
    OBVIOUS
  <2> QED  BY <2>1
<1>4. ASSUME NEW a \in Nat, NEW b \in Nat, a < b  PROVE n * a + n <= n * b
  <2>1. a + 1 <= b  BY <1>4
  <2>2. n * (a + 1) <= n * b  BY <2>1
  <2> QED  BY <2>2
<1>5. /\ n * e \in Nat /\ n * q + r = n * e + s
      /\ e < q => n * e + n <= n * q
      /\ q < e => n * q + n <= n * e
  BY <1>2, <1>3, <1>4
<1>6. e = q  BY <1>1, <1>5
<1> QED  BY <1>2, <1>3, <1>5, <1>6

LEMMA Turns ==
  ASSUME NEW p \in Nat
  PROVE  \E q \in Nat : p = Size * q + logger_offset(p)
<1>1. /\ p \div Size \in Nat /\ p = Size * (p \div Size) + (p % Size)
  BY LoggerSizes
<1> QED  BY <1>1 DEF logger_offset

(* From the offset of w to that of p, going round the buffer.               *)
Distance(off, u) == IF u >= off THEN u - off ELSE u + Size - off

LEMMA DistanceAhead ==
  ASSUME NEW w \in Nat, NEW p \in Nat, w <= p, p < w + Size
  PROVE  Distance(logger_offset(w), logger_offset(p)) = p - w
<1>0. Size \in Nat \ {0}  BY LoggerSizes
<1>1. PICK q \in Nat : w = Size * q + logger_offset(w)  BY Turns
<1>2. logger_offset(w) \in 0 .. (Size - 1)  BY OffsetInBuffer
<1>3. PICK o : o = logger_offset(w)  OBVIOUS
<1>4. PICK d \in 0 .. (Size - 1) : p = Size * q + o + d /\ d = p - w
  <2>1. Size * q \in Nat  BY <1>0
  <2>2. p - w \in 0 .. (Size - 1)  BY <1>0
  <2> QED  BY <1>1, <1>2, <1>3, <2>1, <2>2
<1>5. CASE o + d < Size
  <2>1. o + d \in 0 .. (Size - 1)  BY <1>0, <1>2, <1>3, <1>5
  <2>2. (Size * q + (o + d)) % Size = o + d  BY ONLY <1>0, <2>1, Remainder
  <2>3. Size * q + (o + d) = p  BY <1>0, <1>2, <1>3, <1>4
  <2>4. logger_offset(p) = o + d  BY <2>2, <2>3 DEF logger_offset
  <2> QED  BY <1>2, <1>3, <1>4, <2>4 DEF Distance
<1>6. CASE o + d >= Size
  <2>1. o + d - Size \in 0 .. (Size - 1) /\ q + 1 \in Nat  BY <1>0, <1>2, <1>3, <1>6
  <2>2. (Size * (q + 1) + (o + d - Size)) % Size = o + d - Size
    BY ONLY <1>0, <2>1, Remainder
  <2>3. Size * (q + 1) = Size * q + Size /\ Size * q \in Nat  BY <1>0
  <2>4. Size * (q + 1) + (o + d - Size) = p  BY <1>0, <1>2, <1>3, <1>4, <2>3
  <2>5. logger_offset(p) = o + d - Size  BY <2>2, <2>4 DEF logger_offset
  <2> QED  BY <1>0, <1>2, <1>3, <1>4, <2>5 DEF Distance
<1> QED  BY <1>0, <1>2, <1>3, <1>5, <1>6

LEMMA OneTurn ==
  ASSUME NEW p \in Nat  PROVE logger_offset(p + Size) = logger_offset(p)
<1>0. Size \in Nat \ {0}  BY LoggerSizes
<1>1. PICK q \in Nat : p = Size * q + logger_offset(p)  BY Turns
<1>2. logger_offset(p) \in 0 .. (Size - 1)  BY OffsetInBuffer
<1>3. PICK o : o = logger_offset(p)  OBVIOUS
<1>4. q + 1 \in Nat  OBVIOUS
<1>5. (Size * (q + 1) + o) % Size = o  BY <1>0, <1>2, <1>3, <1>4, Remainder
<1>6. Size * (q + 1) = Size * q + Size /\ Size * q \in Nat  BY <1>0
<1>7. Size * (q + 1) + o = p + Size  BY <1>0, <1>1, <1>2, <1>3, <1>6
<1> QED  BY <1>3, <1>5, <1>7 DEF logger_offset

LEMMA SmallOffset ==
  ASSUME NEW n \in 0 .. (Size - 1)  PROVE logger_offset(n) = n
<1>1. Size \in Nat \ {0} /\ 0 \in Nat  BY LoggerSizes
<1>2. (Size * 0 + n) % Size = n  BY ONLY <1>1, n \in 0 .. (Size - 1), Remainder
<1>3. Size * 0 + n = n  BY <1>1
<1> QED  BY <1>2, <1>3 DEF logger_offset

LEMMA DistanceBehind ==
  ASSUME NEW w \in Nat, NEW p \in Nat, p < w, w <= p + Size
  PROVE  Distance(logger_offset(w), logger_offset(p)) = p + Size - w
<1>1. Size \in Nat \ {0} /\ p + Size \in Nat /\ p + Size < w + Size  BY LoggerSizes
<1> QED  BY <1>1, OneTurn, DistanceAhead

LEMMA SameOffset ==
  ASSUME NEW a \in Nat, NEW b \in Nat, a <= b, b < a + Size,
         logger_offset(a) = logger_offset(b)
  PROVE  a = b
<1>1. logger_offset(a) \in 0 .. (Size - 1)  BY OffsetInBuffer
<1>2. Distance(logger_offset(a), logger_offset(a)) = 0  BY <1>1, LoggerSizes DEF Distance
<1>3. Distance(logger_offset(a), logger_offset(b)) = b - a  BY DistanceAhead
<1> QED  BY <1>2, <1>3

LEMMA OffsetSum ==
  ASSUME NEW a \in Nat, NEW b \in Nat
  PROVE  logger_offset(logger_offset(a) + b) = logger_offset(a + b)
<1>0. Size \in Nat \ {0}  BY LoggerSizes
<1>1. PICK q \in Nat : a = Size * q + logger_offset(a)  BY Turns
<1>2. logger_offset(a) \in 0 .. (Size - 1)  BY OffsetInBuffer
<1>3. PICK o : o = logger_offset(a)  OBVIOUS
<1>4. o + b \in Nat  BY <1>0, <1>2, <1>3
<1>5. PICK d \in Nat : o + b = Size * d + logger_offset(o + b)  BY <1>4, Turns
<1>6. logger_offset(o + b) \in 0 .. (Size - 1)  BY <1>4, OffsetInBuffer
<1>7. PICK s : s = logger_offset(o + b)  OBVIOUS
<1>8. Size * (q + d) = Size * q + Size * d /\ Size * q \in Nat /\ Size * d \in Nat
  BY <1>0
<1>9. a + b = Size * (q + d) + s  BY <1>0, <1>1, <1>2, <1>3, <1>5, <1>6, <1>7, <1>8
<1>10. (Size * (q + d) + s) % Size = s
  <2>1. q + d \in Nat  OBVIOUS
  <2> QED  BY <1>0, <1>6, <1>7, <2>1, Remainder
<1> QED  BY <1>3, <1>7, <1>9, <1>10 DEF logger_offset

-----------------------------------------------------------------------------
(* What the log holds. The entries that were written whole follow one       *)
(* another from the start of the log to wpos. Those that are no longer than *)
(* the log have the units that nothing was written over since in the buffer.*)
At(p) == buffer[logger_offset(p)]
EndOf(i) == writes[i].start + HdrLen + writes[i].len
Boundary(p) == p = wpos \/ \E i \in DOMAIN writes : writes[i].ok /\ writes[i].start = p

Placed == w_off = logger_offset(wpos) /\ wpos <= dirty

Chained ==
  /\ \A i \in DOMAIN writes : /\ writes[i].start <= wpos
                              /\ writes[i].ok => EndOf(i) <= wpos
  /\ \A i, j \in DOMAIN writes :
       i < j => /\ writes[i].start <= writes[j].start
                /\ writes[i].ok => EndOf(i) <= writes[j].start

Boundaries ==
  /\ Boundary(0)
  /\ \A i \in DOMAIN writes : writes[i].ok => Boundary(EndOf(i))

Kept ==
  \A i \in DOMAIN writes, k \in Nat :
    writes[i].ok /\ HdrLen + writes[i].len <= Size /\ k < HdrLen + writes[i].len
    /\ dirty <= writes[i].start + k + Size
      => At(writes[i].start + k) = <<i, k>>

LogInv == Placed /\ Chained /\ Boundaries /\ Kept

(* A reader that may trust its place is at the start of an entry or at the  *)
(* end of the log, less than a buffer behind, and has read what was before. *)
Trusted(r) == rpc[r] # "closed" /\ ~lost[r]

InPlace(r) ==
  /\ r_off[r] = logger_offset(rpos[r])
  /\ rpos[r] <= wpos /\ wpos < rpos[r] + Size /\ dirty <= rpos[r] + Size
  /\ Boundary(rpos[r])

Passed(r, i) == writes[i].start < rpos[r] /\ Visible(r, i)

InOrder(r) ==
  /\ {got[r][k] : k \in DOMAIN got[r]} = {i \in DOMAIN writes : Passed(r, i)}
  /\ \A k, l \in DOMAIN got[r] : k < l => got[r][k] < got[r][l]

Good(r) ==
  /\ rpc[r] = "skip" => ~r_all[r]
  /\ Trusted(r) => InPlace(r) /\ InOrder(r)

RInv == IInv /\ LogInv /\ \A r \in Readers : Good(r)

LEMMA WriteTyped ==
  ASSUME TypeOK
  PROVE  /\ wpos \in Nat /\ dirty \in Nat /\ w_off \in 0 .. (Size - 1)
         /\ Len(writes) \in Nat /\ DOMAIN writes = 1 .. Len(writes)
         /\ \A i \in DOMAIN writes : /\ writes[i].start \in Nat /\ writes[i].len \in Nat
                                     /\ writes[i].ok \in BOOLEAN
                                     /\ EndOf(i) \in Nat /\ writes[i].start < EndOf(i)
<1>1. \A i \in DOMAIN writes : writes[i] \in WriteRecords  BY DEF TypeOK
<1>2. \A i \in DOMAIN writes : /\ writes[i].start \in Nat /\ writes[i].len \in Nat
                               /\ writes[i].ok \in BOOLEAN
  BY <1>1 DEF WriteRecords
<1> QED  BY <1>2, LoggerSizes DEF TypeOK, EndOf

(* What a write adds, and what it leaves.                                   *)
LEMMA WriteAdds ==
  ASSUME TypeOK, NEW w \in Writers, NEW len \in Lens,
         NEW n \in HdrLen .. (HdrLen + MaxPayload), Write(w, len, n)
  PROVE  /\ Len(writes') = Len(writes) + 1 /\ DOMAIN writes' = 1 .. (Len(writes) + 1)
         /\ \A i \in DOMAIN writes : writes'[i] = writes[i]
         /\ writes'[Len(writes) + 1].start = wpos
         /\ n \in Nat /\ HdrLen <= n
         /\ n <= HdrLen + writes'[Len(writes) + 1].len
         /\ writes'[Len(writes) + 1].ok \in BOOLEAN
         /\ writes'[Len(writes) + 1].ok <=> n = HdrLen + writes'[Len(writes) + 1].len
         /\ writes'[Len(writes) + 1].len \in Nat
<1> DEFINE rec == [euid |-> Euid[w], len |-> Payload(len), start |-> wpos,
                   ok |-> (n = HdrLen + Payload(len)),
                   ret |-> IF n = HdrLen + Payload(len) THEN Returned(len) ELSE -1]
<1>1. writes' = Append(writes, rec)  BY DEF Write
<1>2. PICK N : N = rec  OBVIOUS
<1>3. /\ N.start = wpos /\ N.len = Payload(len) /\ N.ok \in BOOLEAN
      /\ N.ok <=> n = HdrLen + Payload(len)
  BY <1>2
<1> HIDE DEF rec
<1>4. writes \in Seq(WriteRecords)  BY DEF TypeOK
<1>5. /\ Len(writes') = Len(writes) + 1 /\ DOMAIN writes' = 1 .. (Len(writes) + 1)
      /\ \A i \in DOMAIN writes : writes'[i] = writes[i]
      /\ writes'[Len(writes) + 1] = N
  BY <1>1, <1>2, <1>4
<1>6. n \in Nat /\ HdrLen <= n /\ n <= HdrLen + Payload(len) /\ Payload(len) \in Nat
  <2>1. n \in HdrLen .. (HdrLen + Payload(len))  BY DEF Write
  <2> QED  BY <2>1, PayloadLength, LoggerSizes
<1> QED  BY <1>3, <1>5, <1>6

(* Where the entry and the log are as long at most, unit k of an entry is k *)
(* units on from its start, going round the buffer.                         *)
LEMMA PlaceInRing ==
  ASSUME NEW off \in 0 .. (Size - 1), NEW k \in 0 .. (Size - 1)
  PROVE  Place(off, k) = logger_offset(off + k)
<1>0. Size \in Nat \ {0} /\ HdrLen \in Nat /\ HdrLen <= Size /\ off \in Nat  BY LoggerSizes
<1>1. PICK start \in 0 .. (Size - 1) : start = logger_offset(off + HdrLen)
  BY <1>0, OffsetInBuffer
<1>2. CASE k < HdrLen  BY <1>2 DEF Place
<1>3. CASE k >= HdrLen
  <2>1. PICK j \in Nat : j = k - HdrLen  BY <1>0, <1>3
  <2>2. logger_offset(start + j) = logger_offset(off + k)
    <3>1. logger_offset(logger_offset(off + HdrLen) + j) = logger_offset(off + HdrLen + j)
      BY <1>0, <2>1, OffsetSum
    <3>2. off + HdrLen + j = off + k  BY <1>0, <2>1
    <3> QED BY <1>1, <3>1, <3>2
  <2>3. Place(off, k) = IF j < Size - start THEN start + j ELSE j - (Size - start)
    BY <1>0, <1>1, <1>3, <2>1 DEF Place
  <2>4. CASE j < Size - start
    <3>1. start + j \in 0 .. (Size - 1)  BY <1>0, <2>1, <2>4
    <3>2. logger_offset(start + j) = start + j  BY <1>0, <3>1, SmallOffset
    <3> QED BY <2>2, <2>3, <2>4, <3>2
  <2>5. CASE j >= Size - start
    <3>1. /\ start + j - Size \in 0 .. (Size - 1) /\ start + j - Size = j - (Size - start)
          /\ (start + j - Size) + Size = start + j
      BY <1>0, <2>1, <2>5
    <3>2. PICK m \in 0 .. (Size - 1) : m = start + j - Size  BY <3>1
    <3>3. logger_offset(m + Size) = logger_offset(m) /\ logger_offset(m) = m
      BY <1>0, <3>2, OneTurn, SmallOffset
    <3>4. m + Size = start + j /\ m = j - (Size - start)  BY <3>1, <3>2
    <3> QED BY <1>0, <2>1, <2>2, <2>3, <2>5, <3>3, <3>4
  <2> QED BY <1>0, <2>1, <2>4, <2>5
<1> QED BY <1>0, <1>2, <1>3

(* The four copies of an entry that is no longer than the log are one, that *)
(* goes round the buffer.                                                   *)
LEMMA CopiedRound ==
  ASSUME TypeOK, NEW i, NEW n \in Nat, HdrLen <= n, n <= Size, NEW u \in 0 .. (Size - 1)
  PROVE  Copied(w_off, i, n)[u] =
           IF Distance(w_off, u) < n THEN <<i, Distance(w_off, u)>> ELSE buffer[u]
<1>0. /\ Size \in Nat \ {0} /\ HdrLen \in Nat /\ HdrLen <= Size /\ w_off \in 0 .. (Size - 1)
      /\ DOMAIN buffer = 0 .. (Mapped - 1) /\ u \in DOMAIN buffer
  <2>1. /\ Size \in Nat \ {0} /\ HdrLen \in Nat /\ HdrLen <= Size
        /\ u \in 0 .. (Mapped - 1)
    BY LoggerSizes
  <2>2. w_off \in 0 .. (Size - 1) /\ DOMAIN buffer = 0 .. (Mapped - 1)  BY DEF TypeOK
  <2> QED BY <2>1, <2>2
<1>1. PICK off : off = w_off  OBVIOUS
<1>2. PICK start \in 0 .. (Size - 1) : start = logger_offset(off + HdrLen)
  <2>1. off + HdrLen \in Nat  BY <1>0, <1>1
  <2> QED BY <2>1, OffsetInBuffer
<1>3. start = IF off + HdrLen < Size THEN off + HdrLen ELSE off + HdrLen - Size
  <2>1. CASE off + HdrLen < Size
    <3>1. off + HdrLen \in 0 .. (Size - 1)  BY <1>0, <1>1, <2>1
    <3> QED BY <1>2, <2>1, <3>1, SmallOffset
  <2>2. CASE ~(off + HdrLen < Size)
    <3>1. PICK m \in 0 .. (Size - 1) : m = off + HdrLen - Size /\ m + Size = off + HdrLen
      BY <1>0, <1>1, <2>2
    <3>2. logger_offset(m + Size) = logger_offset(m) /\ logger_offset(m) = m
      BY <1>0, <3>1, OneTurn, SmallOffset
    <3> QED BY <1>2, <2>2, <3>1, <3>2
  <2> QED BY <2>1, <2>2
<1>4. PICK hlen : hlen = Smaller(HdrLen, Size - off)  OBVIOUS
<1>5. PICK len : len = Smaller(n - HdrLen, Size - start)  OBVIOUS
<1>6. PICK b1 : b1 = memcpy(buffer, off, i, 0, hlen)  OBVIOUS
<1>7. PICK b2 : b2 = memcpy(b1, 0, i, hlen, HdrLen - hlen)  OBVIOUS
<1>8. PICK b3 : b3 = memcpy(b2, start, i, HdrLen, len)  OBVIOUS
<1>9. PICK b4 : b4 = memcpy(b3, 0, i, HdrLen + len, n - HdrLen - len)  OBVIOUS
<1>10. b4 = Copied(w_off, i, n)
  <2>1. HeaderCopied(w_off, i) = b2  BY <1>1, <1>4, <1>6, <1>7 DEF HeaderCopied
  <2> QED BY <1>1, <1>2, <1>5, <1>8, <1>9, <2>1 DEF Copied
<1>11. /\ b1[u] = IF off <= u /\ u < off + hlen THEN <<i, 0 + (u - off)>> ELSE buffer[u]
       /\ u \in DOMAIN b1
  BY <1>0, <1>6 DEF memcpy
<1>12. /\ b2[u] = IF 0 <= u /\ u < 0 + (HdrLen - hlen) THEN <<i, hlen + (u - 0)>> ELSE b1[u]
       /\ u \in DOMAIN b2
  BY <1>7, <1>11 DEF memcpy
<1>13. /\ b3[u] = IF start <= u /\ u < start + len THEN <<i, HdrLen + (u - start)>> ELSE b2[u]
       /\ u \in DOMAIN b3
  BY <1>8, <1>12 DEF memcpy
<1>14. b4[u] = IF 0 <= u /\ u < 0 + (n - HdrLen - len) THEN <<i, HdrLen + len + (u - 0)>> ELSE b3[u]
  BY <1>9, <1>13 DEF memcpy
<1>15. PICK k \in 0 .. (Size - 1) : k = Distance(off, u)  BY <1>0, <1>1 DEF Distance
<1>16. b4[u] = IF k < n THEN <<i, k>> ELSE buffer[u]
  <2>1. u \in Int /\ off \in Int /\ hlen \in Int /\ len \in Int /\ start \in Int
    BY <1>0, <1>1, <1>2, <1>4, <1>5 DEF Smaller
  <2>2. k = IF u >= off THEN u - off ELSE u + Size - off  BY <1>15 DEF Distance
  <2>3. hlen = IF HdrLen < Size - off THEN HdrLen ELSE Size - off  BY <1>4 DEF Smaller
  <2>4. len = IF n - HdrLen < Size - start THEN n - HdrLen ELSE Size - start
    BY <1>5 DEF Smaller
  <2>5. CASE k < HdrLen
    <3>1. /\ ~(start <= u /\ u < start + len)
          /\ ~(0 <= u /\ u < 0 + (n - HdrLen - len))
      BY <1>0, <1>1, <1>3, <2>1, <2>2, <2>3, <2>4, <2>5, SMTT(30)
    <3>2. \/ /\ 0 <= u /\ u < 0 + (HdrLen - hlen) /\ hlen + (u - 0) = k
          \/ /\ ~(0 <= u /\ u < 0 + (HdrLen - hlen))
             /\ off <= u /\ u < off + hlen /\ 0 + (u - off) = k
      BY <1>0, <1>1, <2>1, <2>2, <2>3, <2>5, SMTT(30)
    <3>3. k < n  BY <1>0, <2>5
    <3> QED BY <1>11, <1>12, <1>13, <1>14, <3>1, <3>2, <3>3
  <2>6. CASE HdrLen <= k /\ k < n
    <3>1. \/ /\ 0 <= u /\ u < 0 + (n - HdrLen - len) /\ HdrLen + len + (u - 0) = k
          \/ /\ ~(0 <= u /\ u < 0 + (n - HdrLen - len))
             /\ start <= u /\ u < start + len /\ HdrLen + (u - start) = k
      BY <1>0, <1>1, <1>3, <2>1, <2>2, <2>4, <2>6, SMTT(30)
    <3> QED BY <1>13, <1>14, <2>6, <3>1
  <2>7. CASE ~(k < n)
    <3>1. /\ ~(start <= u /\ u < start + len)
          /\ ~(0 <= u /\ u < 0 + (n - HdrLen - len))
          /\ ~(0 <= u /\ u < 0 + (HdrLen - hlen))
          /\ ~(off <= u /\ u < off + hlen)
      BY <1>0, <1>1, <1>3, <2>1, <2>2, <2>3, <2>4, <2>7, SMTT(30)
    <3> QED BY <1>11, <1>12, <1>13, <1>14, <2>7, <3>1
  <2> QED BY <1>0, <2>5, <2>6, <2>7
<1> QED BY <1>1, <1>10, <1>15, <1>16

(* The copy of n units to the end of the log, seen at a place in the log.   *)
LEMMA CopiedUnit ==
  ASSUME TypeOK, Placed, NEW i, NEW n \in Nat, HdrLen <= n, n <= Size, NEW p \in Nat
  PROVE  /\ wpos <= p /\ p < wpos + n
              => Copied(w_off, i, n)[logger_offset(p)] = <<i, p - wpos>>
         /\ p < wpos /\ wpos + n <= p + Size
              => Copied(w_off, i, n)[logger_offset(p)] = At(p)
<1>0. Size \in Nat \ {0} /\ wpos \in Nat  BY LoggerSizes DEF TypeOK
<1>1. PICK u \in 0 .. (Size - 1) : u = logger_offset(p)  BY OffsetInBuffer
<1>2. PICK k : k = Distance(w_off, u)  OBVIOUS
<1>3. Copied(w_off, i, n)[u] = IF k < n THEN <<i, k>> ELSE buffer[u]
  BY <1>2, CopiedRound
<1>4. CASE wpos <= p /\ p < wpos + n
  <2>1. k = p - wpos  BY <1>0, <1>1, <1>2, <1>4, DistanceAhead DEF Placed
  <2>2. k < n  BY <1>0, <1>4, <2>1
  <2> QED  BY <1>0, <1>1, <1>3, <1>4, <2>1, <2>2
<1>5. CASE p < wpos /\ wpos + n <= p + Size
  <2>1. wpos <= p + Size  BY <1>0, <1>5
  <2>2. k = p + Size - wpos  BY <1>0, <1>1, <1>2, <1>5, <2>1, DistanceBehind DEF Placed
  <2>3. ~(k < n)  BY <1>0, <1>5, <2>2
  <2>4. Copied(w_off, i, n)[u] = buffer[u]  BY <1>3, <2>3
  <2> QED  BY <1>0, <1>1, <1>5, <2>4 DEF At
<1> QED  BY <1>4, <1>5

-----------------------------------------------------------------------------
(* A write keeps the log in order, whether or not all of it was copied.     *)
LEMMA WriteMoves ==
  ASSUME TypeOK, LogInv, NEW w \in Writers, NEW len \in Lens,
         NEW n \in HdrLen .. (HdrLen + MaxPayload), Write(w, len, n)
  PROVE  LET N == Len(writes) + 1 IN
         /\ writes'[N].ok => wpos' = wpos + HdrLen + writes'[N].len
         /\ ~writes'[N].ok => wpos' = wpos
         /\ w_off' = logger_offset(wpos')
         /\ dirty' = Larger(dirty, wpos + n)
<1>1. PICK N : N = Len(writes) + 1  OBVIOUS
<1>2. /\ writes'[N].len = Payload(len)
      /\ writes'[N].ok <=> n = HdrLen + Payload(len)
  <2>1. writes \in Seq(WriteRecords)  BY DEF TypeOK
  <2> DEFINE rec == [euid |-> Euid[w], len |-> Payload(len), start |-> wpos,
                     ok |-> (n = HdrLen + Payload(len)),
                     ret |-> IF n = HdrLen + Payload(len) THEN Returned(len) ELSE -1]
  <2>2. writes' = Append(writes, rec)  BY DEF Write
  <2>3. PICK R : R = rec  OBVIOUS
  <2>4. R.len = Payload(len) /\ (R.ok <=> n = HdrLen + Payload(len))  BY <2>3
  <2> HIDE DEF rec
  <2>5. writes'[N] = R  BY <1>1, <2>1, <2>2, <2>3
  <2> QED  BY <2>4, <2>5
<1>3. Payload(len) \in Nat /\ wpos \in Nat /\ HdrLen + Payload(len) \in Nat
  BY PayloadLength, LoggerSizes DEF TypeOK
<1>4. CASE n = HdrLen + Payload(len)
  <2>1. Commit(w, len)  BY <1>4 DEF Write
  <2>2. wpos' = wpos + HdrLen + Payload(len)  BY <2>1 DEF Commit
  <2>3. logger_offset(logger_offset(wpos) + (HdrLen + Payload(len)))
          = logger_offset(wpos + (HdrLen + Payload(len)))
    BY <1>3, OffsetSum
  <2>4. /\ logger_offset(wpos) + HdrLen + Payload(len)
             = logger_offset(wpos) + (HdrLen + Payload(len))
        /\ wpos + HdrLen + Payload(len) = wpos + (HdrLen + Payload(len))
    BY <1>3, OffsetInBuffer, LoggerSizes
  <2>5. w_off' = logger_offset(w_off + HdrLen + Payload(len))  BY <2>1 DEF Commit
  <2>6. w_off' = logger_offset(wpos')
    BY <2>2, <2>3, <2>4, <2>5 DEF LogInv, Placed
  <2>7. dirty' = Larger(dirty, wpos + n)  BY DEF Write
  <2> QED  BY <1>1, <1>2, <1>4, <2>2, <2>6, <2>7
<1>5. CASE n # HdrLen + Payload(len)
  <2>1. w_off' = w_off /\ wpos' = wpos  BY <1>5 DEF Write
  <2>2. dirty' = Larger(dirty, wpos + n)  BY DEF Write
  <2> QED  BY <1>1, <1>2, <1>5, <2>1, <2>2 DEF LogInv, Placed
<1> QED  BY <1>4, <1>5

LEMMA WriteKeepsLog ==
  ASSUME TypeOK, TypeOK', LogInv, NEW w \in Writers, NEW len \in Lens,
         NEW n \in HdrLen .. (HdrLen + MaxPayload), Write(w, len, n)
  PROVE  LogInv' /\ (\A p : Boundary(p) => Boundary(p)') /\ wpos <= wpos'
<1>1. PICK N : N = Len(writes) + 1  OBVIOUS
<1>2. /\ N \in Nat /\ DOMAIN writes = 1 .. (N - 1) /\ DOMAIN writes' = 1 .. N
      /\ \A i \in DOMAIN writes : writes'[i] = writes[i] /\ EndOf(i)' = EndOf(i)
      /\ writes'[N].start = wpos /\ EndOf(N)' = wpos + HdrLen + writes'[N].len
  BY <1>1, WriteAdds, WriteTyped DEF EndOf
<1>3. /\ n \in Nat /\ HdrLen <= n /\ n <= HdrLen + writes'[N].len
      /\ writes'[N].ok \in BOOLEAN /\ (writes'[N].ok <=> n = HdrLen + writes'[N].len)
      /\ writes'[N].len \in Nat
  BY <1>1, WriteAdds
<1>4. /\ writes'[N].ok => wpos' = wpos + HdrLen + writes'[N].len
      /\ ~writes'[N].ok => wpos' = wpos
      /\ w_off' = logger_offset(wpos')
      /\ dirty' = Larger(dirty, wpos + n)
  BY <1>1, WriteMoves
<1>5. Size \in Nat /\ HdrLen \in Nat \ {0}  BY LoggerSizes
<1>6. /\ wpos \in Nat /\ dirty \in Nat /\ wpos' \in Nat /\ dirty' \in Nat
      /\ wpos <= dirty
  BY DEF TypeOK, LogInv, Placed
<1>7. wpos <= wpos'  BY <1>3, <1>4, <1>5, <1>6
<1>8. Placed'
  <2>1. wpos' <= dirty'
    <3>1. wpos + n <= dirty' /\ dirty <= dirty'  BY <1>3, <1>4, <1>6 DEF Larger
    <3>2. wpos' = wpos \/ wpos' = wpos + n
      <4>1. CASE writes'[N].ok
        <5>1. n = HdrLen + writes'[N].len  BY <1>3, <4>1
        <5>2. wpos' = wpos + HdrLen + writes'[N].len  BY <1>4, <4>1
        <5> QED  BY <1>3, <1>5, <1>6, <5>1, <5>2
      <4> QED  BY <1>3, <1>4, <4>1
    <3> QED  BY <1>3, <1>6, <3>1, <3>2
  <2> QED  BY <1>4, <2>1 DEF Placed, logger_offset
<1>9. Chained'
  <2>1. \A i \in DOMAIN writes' :
          /\ writes'[i].start <= wpos' /\ (writes'[i].ok => EndOf(i)' <= wpos')
    <3> SUFFICES ASSUME NEW i \in DOMAIN writes'
                 PROVE  writes'[i].start <= wpos' /\ (writes'[i].ok => EndOf(i)' <= wpos')
      OBVIOUS
    <3>1. CASE i \in DOMAIN writes
      BY <1>2, <1>6, <1>7, <3>1, WriteTyped DEF LogInv, Chained
    <3>2. CASE i = N  BY <1>2, <1>3, <1>4, <1>5, <1>6, <1>7, <3>2
    <3> QED  BY <1>2, <3>1, <3>2
  <2>2. \A i, j \in DOMAIN writes' :
          i < j => /\ writes'[i].start <= writes'[j].start
                   /\ writes'[i].ok => EndOf(i)' <= writes'[j].start
    <3> SUFFICES ASSUME NEW i \in DOMAIN writes', NEW j \in DOMAIN writes', i < j
                 PROVE  /\ writes'[i].start <= writes'[j].start
                        /\ writes'[i].ok => EndOf(i)' <= writes'[j].start
      OBVIOUS
    <3>1. i \in DOMAIN writes  BY <1>2
    <3>2. CASE j \in DOMAIN writes  BY <1>2, <3>1, <3>2 DEF LogInv, Chained
    <3>3. CASE j = N  BY <1>2, <3>1, <3>3 DEF LogInv, Chained
    <3> QED  BY <1>2, <3>2, <3>3
  <2> QED  BY <2>1, <2>2 DEF Chained
<1>10. ASSUME NEW p, Boundary(p)  PROVE Boundary(p)'
  <2>1. CASE \E i \in DOMAIN writes : writes[i].ok /\ writes[i].start = p
    BY <1>2, <2>1 DEF Boundary
  <2>2. CASE p = wpos
    <3>1. N \in DOMAIN writes'  BY <1>1, <1>2, WriteTyped
    <3>2. writes'[N].ok => Boundary(p)'  BY <1>2, <2>2, <3>1 DEF Boundary
    <3>3. ~writes'[N].ok => Boundary(p)'  BY <1>4, <2>2 DEF Boundary
    <3> QED  BY <3>2, <3>3
  <2> QED  BY <1>10, <2>1, <2>2 DEF Boundary
<1>11. Boundaries'
  <2>1. Boundary(0)'  BY <1>10 DEF LogInv, Boundaries
  <2>2. ASSUME NEW i \in DOMAIN writes', writes'[i].ok
        PROVE  Boundary(EndOf(i))'
    <3>1. CASE i \in DOMAIN writes
      <4>1. Boundary(EndOf(i))  BY <1>2, <2>2, <3>1 DEF LogInv, Boundaries
      <4>2. PICK p : p = EndOf(i)  OBVIOUS
      <4>3. Boundary(p)'  BY <1>10, <4>1, <4>2
      <4>4. EndOf(i)' = p  BY <1>2, <3>1, <4>2
      <4> QED  BY <4>3, <4>4 DEF Boundary
    <3>2. CASE i = N
      <4>1. EndOf(i)' = wpos'  BY <1>2, <1>4, <2>2, <3>2
      <4> QED  BY <4>1 DEF Boundary
    <3> QED  BY <1>2, <3>1, <3>2
  <2> QED  BY <2>1, <2>2 DEF Boundaries
<1>12. Kept'
  <2> SUFFICES ASSUME NEW i \in DOMAIN writes', NEW k \in Nat, writes'[i].ok,
                      HdrLen + writes'[i].len <= Size, k < HdrLen + writes'[i].len,
                      dirty' <= writes'[i].start + k + Size
               PROVE  buffer'[logger_offset(writes'[i].start + k)] = <<i, k>>
    BY DEF Kept, At, logger_offset
  <2>0. buffer' = Copied(w_off, N, n)  BY <1>1 DEF Write
  <2>1. PICK p : p = writes'[i].start + k  OBVIOUS
  <2>2. CASE i = N
    <3>1. p \in Nat /\ wpos <= p /\ p < wpos + n /\ p - wpos = k
      <4>1. /\ n = HdrLen + writes'[i].len /\ writes'[i].start = wpos
        BY <1>2, <1>3, <2>2
      <4>2. k < n /\ p = wpos + k  BY <2>1, <4>1
      <4> QED  BY <1>3, <1>6, <4>2
    <3>2. Copied(w_off, N, n)[logger_offset(p)] = <<N, p - wpos>>
      <4>1. n <= Size  BY <1>3, <2>2
      <4> QED  BY <1>3, <3>1, <4>1, CopiedUnit DEF LogInv
    <3> QED  BY <2>0, <2>1, <2>2, <3>1, <3>2
  <2>3. CASE i \in DOMAIN writes
    <3>1. /\ writes[i].ok /\ k < HdrLen + writes[i].len /\ p = writes[i].start + k
          /\ writes[i].start \in Nat /\ writes[i].len \in Nat
          /\ EndOf(i) <= wpos
      BY <1>2, <2>1, <2>3, WriteTyped DEF LogInv, Chained
    <3>2. p \in Nat /\ p < wpos  BY <1>5, <1>6, <3>1 DEF EndOf
    <3>3. wpos + n <= p + Size /\ dirty <= p + Size
      <4>1. dirty' <= p + Size  BY <2>1
      <4> QED  BY <1>3, <1>4, <1>5, <1>6, <3>2, <4>1 DEF Larger
    <3>4. Copied(w_off, N, n)[logger_offset(p)] = At(p)
      <4>1. n <= Size  BY <1>3, <1>5, <1>6, <3>2, <3>3
      <4> QED  BY <1>3, <3>2, <3>3, <4>1, CopiedUnit DEF LogInv
    <3>5. At(p) = <<i, k>>  BY <1>2, <2>3, <3>1, <3>3 DEF LogInv, Kept
    <3> QED  BY <2>0, <2>1, <3>4, <3>5
  <2> QED  BY <1>2, <2>2, <2>3
<1> QED  BY <1>7, <1>8, <1>9, <1>10, <1>11, <1>12 DEF LogInv

-----------------------------------------------------------------------------
LEMMA LogStays ==
  ASSUME LogInv, UNCHANGED <<buffer, w_off, writes, wpos, dirty>>
  PROVE  LogInv' /\ \A p : Boundary(p)' <=> Boundary(p)
<1>1. /\ buffer' = buffer /\ w_off' = w_off /\ writes' = writes
      /\ wpos' = wpos /\ dirty' = dirty
  OBVIOUS
<1>2. Placed'  BY <1>1 DEF LogInv, Placed, logger_offset
<1>3. Chained'  BY <1>1 DEF LogInv, Chained, EndOf
<1>4. \A p : Boundary(p)' <=> Boundary(p)  BY <1>1 DEF Boundary
<1>5. Boundaries'  BY <1>1, <1>4 DEF LogInv, Boundaries, Boundary, EndOf
<1>6. Kept'  BY <1>1 DEF LogInv, Kept, At, logger_offset
<1> QED  BY <1>2, <1>3, <1>4, <1>5, <1>6 DEF LogInv

(* A reader whose place does not change stays at its place.                 *)
LEMMA ReaderStays ==
  ASSUME NEW r, Good(r), UNCHANGED <<writes, wpos, dirty>>,
         r_off'[r] = r_off[r], rpos'[r] = rpos[r], got'[r] = got[r], r_all'[r] = r_all[r],
         Trusted(r)' => Trusted(r),
         rpc'[r] = "skip" => rpc[r] = "skip" \/ ~r_all[r]
  PROVE  Good(r)'
<1>1. writes' = writes /\ wpos' = wpos /\ dirty' = dirty  OBVIOUS
<1>2. ASSUME InPlace(r)  PROVE InPlace(r)'
  BY <1>1, <1>2 DEF InPlace, Boundary, logger_offset
<1>3. \A i : Passed(r, i)' <=> Passed(r, i)  BY <1>1 DEF Passed, Visible
<1>4. ASSUME InOrder(r)  PROVE InOrder(r)'
  BY <1>1, <1>3, <1>4 DEF InOrder
<1> QED  BY <1>2, <1>4 DEF Good

LEMMA WriteKeepsReaders ==
  ASSUME RInv, TypeOK', NEW w \in Writers, NEW len \in Lens,
         NEW n \in HdrLen .. (HdrLen + MaxPayload), Write(w, len, n), NEW r \in Readers
  PROVE  Good(r)'
<1>0. TypeOK /\ LogInv /\ Good(r)  BY DEF RInv, IInv
<1>1. /\ rpc' = rpc /\ r_all' = r_all /\ r_off' = r_off /\ rpos' = rpos /\ got' = got
  BY DEF Write
<1>2. lost'[r] <=> lost[r] \/ (rpc[r] # "closed" /\ Overtaken(r, wpos', dirty'))
  <2>1. lost'[r] = (lost[r] \/ (rpc[r] # "closed" /\ Overtaken(r, wpos', dirty')))
    BY DEF Write
  <2> QED  BY <2>1
<1>3. rpc'[r] = "skip" => ~r_all'[r]  BY <1>0, <1>1 DEF Good
<1>4. ASSUME Trusted(r)'  PROVE InPlace(r)' /\ InOrder(r)'
  <2>1. Trusted(r)  BY <1>1, <1>2, <1>4 DEF Trusted
  <2>2. InPlace(r) /\ InOrder(r)  BY <1>0, <2>1 DEF Good
  <2>3. /\ wpos <= wpos' /\ Boundary(rpos[r])'
        /\ rpos[r] \in Nat /\ wpos \in Nat /\ wpos' \in Nat /\ dirty' \in Nat /\ Size \in Nat
    <3>1. PICK p : p = rpos[r]  OBVIOUS
    <3>2. Boundary(p)'  BY <1>0, <2>2, <3>1, WriteKeepsLog DEF InPlace
    <3>3. Boundary(rpos[r])'  BY <1>1, <3>1, <3>2 DEF Boundary
    <3> QED  BY <1>0, <3>3, WriteKeepsLog, LoggerSizes DEF TypeOK
  <2>4. ~Overtaken(r, wpos', dirty')  BY <1>1, <1>2, <1>4 DEF Trusted
  <2>5. InPlace(r)'
    <3>1. rpos[r] <= wpos' /\ wpos' < rpos[r] + Size /\ dirty' <= rpos[r] + Size
      BY <2>2, <2>3, <2>4 DEF InPlace, Overtaken
    <3>2. r_off[r] = logger_offset(rpos[r])  BY <2>2 DEF InPlace
    <3> QED  BY <1>1, <2>3, <3>1, <3>2 DEF InPlace, Boundary, logger_offset
  <2>6. InOrder(r)'
    <3>1. PICK N : N = Len(writes) + 1  OBVIOUS
    <3>2. /\ DOMAIN writes = 1 .. Len(writes) /\ DOMAIN writes' = 1 .. N /\ Len(writes) \in Nat
          /\ \A i \in DOMAIN writes : writes'[i] = writes[i]
          /\ writes'[N].start = wpos
      BY <1>0, <3>1, WriteAdds, WriteTyped
    <3>3. ~Passed(r, N)'
      BY <1>1, <2>2, <2>3, <3>2 DEF InPlace, Passed
    <3>4. \A i \in DOMAIN writes : Passed(r, i)' <=> Passed(r, i)
      BY <1>1, <3>2 DEF Passed, Visible
    <3>5. \A i : i \in DOMAIN writes' <=> i \in DOMAIN writes \/ i = N  BY <3>1, <3>2
    <3>6. {i \in DOMAIN writes' : Passed(r, i)'} = {i \in DOMAIN writes : Passed(r, i)}
      BY <3>3, <3>4, <3>5
    <3> QED  BY <1>1, <2>2, <3>6 DEF InOrder
  <2> QED  BY <2>5, <2>6
<1> QED  BY <1>3, <1>4 DEF Good

LEMMA OpenKeepsReader ==
  ASSUME RInv, NEW r \in Readers, NEW all \in BOOLEAN, NEW nb \in BOOLEAN, Open(r, all, nb)
  PROVE  Good(r)'
<1>0. TypeOK /\ LogInv  BY DEF RInv, IInv
<1>1. /\ writes' = writes /\ wpos' = wpos /\ dirty' = dirty
      /\ rpc'[r] = "idle" /\ r_off'[r] = 0 /\ rpos'[r] = 0 /\ got'[r] = <<>>
      /\ lost'[r] <=> wpos >= Size \/ dirty > Size
  <2>1. lost'[r] = (wpos >= Size \/ dirty > Size)  BY <1>0 DEF Open, TypeOK
  <2> QED  BY <1>0, <2>1 DEF Open, TypeOK, wvars, head
<1>2. ASSUME Trusted(r)'  PROVE InPlace(r)'
  <2>1. ~(wpos >= Size \/ dirty > Size)  BY <1>1, <1>2 DEF Trusted
  <2>2. wpos \in Nat /\ dirty \in Nat /\ Size \in Nat \ {0}  BY <1>0, LoggerSizes DEF TypeOK
  <2>3. logger_offset(0) = 0  BY <2>2 DEF logger_offset
  <2>4. Boundary(0)  BY <1>0 DEF LogInv, Boundaries
  <2>5. Boundary(rpos[r])'  BY <1>1, <2>4 DEF Boundary
  <2> QED  BY <1>1, <2>1, <2>2, <2>3, <2>5 DEF InPlace, logger_offset
<1>3. InOrder(r)'
  <2>1. \A i \in DOMAIN writes : ~Passed(r, i)'
    BY <1>0, <1>1, WriteTyped DEF Passed
  <2>2. DOMAIN got'[r] = {}  BY <1>1
  <2> QED  BY <1>1, <2>1, <2>2 DEF InOrder
<1> QED  BY <1>1, <1>2, <1>3 DEF Good

-----------------------------------------------------------------------------
(* What a reader in its place finds there: the header, and then the whole,  *)
(* of the one entry that starts at its place.                               *)
LEMMA UnitsKept ==
  ASSUME TypeOK, LogInv, NEW r \in Readers, InPlace(r),
         NEW i \in DOMAIN writes, writes[i].ok, writes[i].start = rpos[r],
         NEW n \in Nat, n <= HdrLen + writes[i].len
  PROVE  Units(r_off[r], n) = EntryUnits(i, n)
<1> SUFFICES ASSUME NEW k \in 0 .. (n - 1)  PROVE Unit(r_off[r], k) = <<i, k>>
  BY DEF Units, EntryUnits
<1>1. /\ k \in Nat /\ rpos[r] \in Nat /\ k < HdrLen + writes[i].len
      /\ Size \in Nat /\ dirty \in Nat /\ wpos \in Nat
      /\ HdrLen \in Nat /\ writes[i].len \in Nat
  <2>1. writes[i].len \in Nat /\ dirty \in Nat /\ wpos \in Nat  BY WriteTyped
  <2>2. Size \in Nat /\ HdrLen \in Nat  BY LoggerSizes
  <2>3. PICK m \in Nat : m = writes[i].len  BY <2>1
  <2>4. k \in Nat /\ k < HdrLen + m  BY <2>2, <2>3
  <2>5. rpos[r] \in Nat  BY DEF TypeOK
  <2> QED BY <2>1, <2>2, <2>3, <2>4, <2>5
<1>2. dirty <= writes[i].start + k + Size
  <2>1. dirty <= rpos[r] + Size  BY DEF InPlace
  <2>2. dirty <= rpos[r] + k + Size  BY <1>1, <2>1
  <2> QED BY <2>2
<1>3. HdrLen + writes[i].len <= Size
  <2>1. EndOf(i) <= wpos /\ wpos < rpos[r] + Size  BY DEF LogInv, Chained, InPlace
  <2>2. EndOf(i) = rpos[r] + (HdrLen + writes[i].len)  BY <1>1 DEF EndOf
  <2> QED  BY <1>1, <2>1, <2>2
<1>4. At(writes[i].start + k) = <<i, k>>  BY <1>1, <1>2, <1>3 DEF LogInv, Kept
<1>5. logger_offset(r_off[r] + k) = logger_offset(rpos[r] + k)
  <2>1. logger_offset(logger_offset(rpos[r]) + k) = logger_offset(rpos[r] + k)
    BY <1>1, OffsetSum
  <2>2. r_off[r] = logger_offset(rpos[r])  BY DEF InPlace
  <2> QED BY <2>1, <2>2
<1>6. Place(r_off[r], k) = logger_offset(r_off[r] + k)
  <2>1. k \in 0 .. (Size - 1)  BY <1>1, <1>3
  <2>2. r_off[r] \in 0 .. (Size - 1)  BY DEF TypeOK
  <2> QED  BY <2>1, <2>2, PlaceInRing
<1>7. Unit(r_off[r], k) = At(writes[i].start + k)  BY <1>5, <1>6 DEF Unit, At
<1> QED  BY <1>4, <1>7

LEMMA NextEntry ==
  ASSUME TypeOK, LogInv, NEW r \in Readers, InPlace(r)
  PROVE  /\ w_off = r_off[r] <=> wpos = rpos[r]
         /\ wpos # rpos[r] => \E i \in DOMAIN writes :
              /\ writes[i].ok /\ writes[i].start = rpos[r]
              /\ Units(r_off[r], HdrLen) = EntryUnits(i, HdrLen)
<1>1. wpos \in Nat /\ rpos[r] \in Nat  BY DEF TypeOK
<1>2. w_off = r_off[r] => wpos = rpos[r]
  BY <1>1, SameOffset DEF InPlace, LogInv, Placed
<1>3. wpos = rpos[r] => w_off = r_off[r]  BY DEF InPlace, LogInv, Placed
<1>4. ASSUME wpos # rpos[r]
      PROVE  \E i \in DOMAIN writes : /\ writes[i].ok /\ writes[i].start = rpos[r]
                                      /\ Units(r_off[r], HdrLen) = EntryUnits(i, HdrLen)
  <2>1. PICK i \in DOMAIN writes : writes[i].ok /\ writes[i].start = rpos[r]
    BY <1>4 DEF InPlace, Boundary
  <2>2. HdrLen \in Nat /\ HdrLen <= HdrLen + writes[i].len  BY WriteTyped, LoggerSizes
  <2>3. Units(r_off[r], HdrLen) = EntryUnits(i, HdrLen)  BY <2>1, <2>2, UnitsKept
  <2> QED  BY <2>1, <2>3
<1> QED  BY <1>2, <1>3, <1>4

LEMMA HeaderRead ==
  ASSUME TypeOK, LogInv, NEW r \in Readers, InPlace(r), w_off # r_off[r],
         NEW h \in Headers, HeaderAt(r_off[r], h)
  PROVE  \E i \in DOMAIN writes :
           /\ writes[i].ok /\ writes[i].start = rpos[r]
           /\ h.euid = writes[i].euid /\ rpos[r] + (HdrLen + h.len) = EndOf(i)
           /\ EntryRead(r_off[r], HdrLen + h.len) = i
<1>1. PICK i \in DOMAIN writes :
        /\ writes[i].ok /\ writes[i].start = rpos[r]
        /\ Units(r_off[r], HdrLen) = EntryUnits(i, HdrLen)
  BY NextEntry
<1>2. HdrLen \in Nat \ {0}  BY LoggerSizes
<1>3. ASSUME NEW j, EntryUnits(j, HdrLen) = EntryUnits(i, HdrLen)  PROVE j = i
  <2>1. 0 \in 0 .. (HdrLen - 1)  BY <1>2
  <2>2. EntryUnits(j, HdrLen)[0] = <<j, 0>> /\ EntryUnits(i, HdrLen)[0] = <<i, 0>>
    BY <2>1 DEF EntryUnits
  <2>3. <<j, 0>> = <<i, 0>>  BY <1>3, <2>2
  <2> QED  BY <2>3
<1>4. h = [euid |-> writes[i].euid, len |-> writes[i].len]
  BY <1>1, <1>3 DEF HeaderAt
<1>5. h.euid = writes[i].euid /\ h.len = writes[i].len  BY <1>4
<1>6. PICK n : n = HdrLen + writes[i].len  OBVIOUS
<1>7. n \in Nat /\ n > 0 /\ rpos[r] \in Nat  BY <1>2, <1>6, WriteTyped, SMTT(20) DEF TypeOK
<1>8. Units(r_off[r], n) = EntryUnits(i, n)  BY <1>1, <1>6, <1>7, UnitsKept
<1>9. Unit(r_off[r], 0)[1] = i
  <2>1. 0 \in 0 .. (n - 1)  BY <1>7
  <2>2. Units(r_off[r], n)[0] = Unit(r_off[r], 0)  BY <2>1 DEF Units
  <2>3. EntryUnits(i, n)[0] = <<i, 0>>  BY <2>1 DEF EntryUnits
  <2> QED  BY <1>8, <2>2, <2>3
<1>10. EntryRead(r_off[r], n) = i  BY <1>8, <1>9 DEF EntryRead
<1>11. rpos[r] + n = EndOf(i)
  <2>1. /\ writes[i].start \in Nat /\ writes[i].len \in Nat  BY WriteTyped
  <2> QED  BY <1>1, <1>2, <1>6, <2>1 DEF EndOf
<1> QED  BY <1>1, <1>5, <1>6, <1>10, <1>11

(* Past the entry at its place a reader has passed one entry more, the last *)
(* of those it has passed.                                                  *)
LEMMA PassesOne ==
  ASSUME TypeOK, LogInv, NEW i \in DOMAIN writes, writes[i].ok, NEW j \in DOMAIN writes
  PROVE  /\ writes[j].ok => (writes[j].start < EndOf(i) <=>
                               writes[j].start < writes[i].start \/ j = i)
         /\ writes[j].ok /\ writes[j].start < writes[i].start => j < i
<1>1. /\ i \in Nat /\ j \in Nat
      /\ writes[i].start < EndOf(i) /\ writes[i].start \in Nat /\ EndOf(i) \in Nat
      /\ writes[j].start < EndOf(j) /\ writes[j].start \in Nat /\ EndOf(j) \in Nat
  BY WriteTyped
<1>2. i < j => EndOf(i) <= writes[j].start  BY DEF LogInv, Chained
<1>3. j < i /\ writes[j].ok => EndOf(j) <= writes[i].start  BY DEF LogInv, Chained
<1> QED  BY <1>1, <1>2, <1>3

LEMMA MovesOn ==
  ASSUME TypeOK, LogInv, NEW r \in Readers, InPlace(r), w_off # r_off[r],
         NEW h \in Headers, HeaderAt(r_off[r], h),
         UNCHANGED <<writes, wpos, dirty>>,
         r_off'[r] = logger_offset(r_off[r] + (HdrLen + h.len)),
         rpos'[r] = rpos[r] + (HdrLen + h.len)
  PROVE  InPlace(r)'
<1>1. writes' = writes /\ wpos' = wpos /\ dirty' = dirty  OBVIOUS
<1>2. PICK n \in Nat : n = HdrLen + h.len  BY HeaderLength
<1>3. PICK i \in DOMAIN writes : writes[i].ok /\ rpos[r] + n = EndOf(i)
  BY <1>2, HeaderRead
<1>4. /\ rpos[r] \in Nat /\ wpos \in Nat /\ dirty \in Nat /\ Size \in Nat
      /\ rpos[r] + n \in Nat
  BY LoggerSizes DEF TypeOK
<1>5. r_off'[r] = logger_offset(rpos'[r])
  <2>1. logger_offset(logger_offset(rpos[r]) + n) = logger_offset(rpos[r] + n)
    BY <1>4, OffsetSum
  <2>2. r_off[r] = logger_offset(rpos[r])  BY DEF InPlace
  <2> QED  BY <1>2, <2>1, <2>2
<1>6. Boundary(rpos[r] + n) /\ rpos[r] + n <= wpos
  BY <1>3 DEF LogInv, Boundaries, Chained
<1>7. rpos'[r] = rpos[r] + n  BY <1>2
<1>8. wpos < rpos[r] + n + Size /\ dirty <= rpos[r] + n + Size  BY <1>4 DEF InPlace
<1> QED  BY <1>1, <1>5, <1>6, <1>7, <1>8 DEF InPlace, Boundary, logger_offset

LEMMA SeesOneMore ==
  ASSUME TypeOK, LogInv, NEW r \in Readers, InOrder(r),
         NEW i \in DOMAIN writes, writes[i].ok, writes[i].start = rpos[r],
         writes' = writes, r_all'[r] = r_all[r], rpos'[r] = EndOf(i),
         \/ Visible(r, i) /\ got'[r] = Append(got[r], i)
         \/ ~Visible(r, i) /\ got'[r] = got[r]
  PROVE  InOrder(r)'
<1>1. \A j \in DOMAIN writes : Visible(r, j)' <=> Visible(r, j)  BY DEF Visible
<1>2. \A j \in DOMAIN writes : Passed(r, j)' <=> Passed(r, j) \/ (j = i /\ Visible(r, i))
  <2> SUFFICES ASSUME NEW j \in DOMAIN writes
               PROVE  Passed(r, j)' <=> Passed(r, j) \/ (j = i /\ Visible(r, i))
    OBVIOUS
  <2>1. Passed(r, j)' <=> writes[j].start < EndOf(i) /\ Visible(r, j)
    BY <1>1 DEF Passed
  <2>2. Visible(r, j) => writes[j].ok  BY DEF Visible
  <2> QED  BY <2>1, <2>2, PassesOne DEF Passed
<1>3. \A j \in DOMAIN writes : Passed(r, j) => j < i
  BY PassesOne DEF Passed, Visible
<1>4. PICK g : g = got[r]  OBVIOUS
<1>5. g \in Seq(0 .. MaxWrites)  BY <1>4 DEF TypeOK
<1>6. /\ {g[k] : k \in DOMAIN g} = {j \in DOMAIN writes : Passed(r, j)}
      /\ \A k, l \in DOMAIN g : k < l => g[k] < g[l]
  BY <1>4 DEF InOrder
<1>7. PICK P : P = {j \in DOMAIN writes : Passed(r, j)}  OBVIOUS
<1>8. PICK g2 : g2 = got'[r]  OBVIOUS
<1>9. CASE ~Visible(r, i) /\ g2 = g
  <2>1. {j \in DOMAIN writes : Passed(r, j)'} = P  BY <1>2, <1>7, <1>9
  <2> QED  BY <1>6, <1>7, <1>8, <1>9, <2>1 DEF InOrder
<1>10. CASE Visible(r, i) /\ g2 = Append(g, i)
  <2>1. {j \in DOMAIN writes : Passed(r, j)'} = P \cup {i}  BY <1>2, <1>7, <1>10
  <2>2. PICK m \in Nat : m = Len(g) /\ DOMAIN g = 1 .. m  BY <1>5
  <2>3. /\ DOMAIN g2 = 1 .. (m + 1) /\ g2[m + 1] = i
        /\ \A k \in 1 .. m : g2[k] = g[k]
    BY <1>5, <1>10, <2>2
  <2>4. \A k \in 1 .. (m + 1) : k \in 1 .. m \/ k = m + 1  BY <2>2
  <2>5. {g2[k] : k \in DOMAIN g2} = P \cup {i}
    <3>1. \A k \in 1 .. m : g2[k] \in P  BY <1>6, <1>7, <2>2, <2>3
    <3>2. \A p \in P : \E k \in 1 .. m : g2[k] = p
      <4>1. \A p \in P : \E k \in DOMAIN g : g[k] = p  BY <1>6, <1>7
      <4> QED  BY <2>2, <2>3, <4>1
    <3>3. \A k \in 1 .. m : k \in 1 .. (m + 1)  BY <2>2
    <3>4. m + 1 \in 1 .. (m + 1)  BY <2>2
    <3> QED  BY <2>3, <2>4, <3>1, <3>2, <3>3, <3>4
  <2>6. \A k, l \in DOMAIN g2 : k < l => g2[k] < g2[l]
    <3> SUFFICES ASSUME NEW k \in 1 .. (m + 1), NEW l \in 1 .. (m + 1), k < l
                 PROVE  g2[k] < g2[l]
      BY <2>3
    <3>1. k \in 1 .. m  BY <2>2
    <3>2. CASE l \in 1 .. m  BY <1>6, <2>2, <2>3, <3>1, <3>2
    <3>3. CASE l = m + 1
      <4>1. g[k] \in P  BY <1>6, <1>7, <2>2, <3>1
      <4>2. g[k] < i  BY <1>3, <1>7, <4>1
      <4> QED  BY <2>3, <3>1, <3>3, <4>2
    <3> QED  BY <2>4, <3>2, <3>3
  <2> QED  BY <1>8, <2>1, <2>5, <2>6 DEF InOrder
<1> QED  BY <1>4, <1>8, <1>9, <1>10

(* A step of one reader leaves the others where they are.                   *)
OnlyReader(r) ==
  /\ UNCHANGED <<buffer, w_off, writes, wpos, dirty>>
  /\ \A q \in Readers : q # r =>
       /\ rpc'[q] = rpc[q] /\ lost'[q] = lost[q] /\ r_all'[q] = r_all[q]
       /\ r_off'[q] = r_off[q] /\ rpos'[q] = rpos[q] /\ got'[q] = got[q]

LEMMA OthersStay ==
  ASSUME RInv, NEW r \in Readers, OnlyReader(r), Good(r)'
  PROVE  LogInv' /\ \A q \in Readers : Good(q)'
<1>1. LogInv'  BY LogStays DEF RInv, OnlyReader
<1>2. ASSUME NEW q \in Readers, q # r  PROVE Good(q)'
  <2>1. Good(q) /\ (Trusted(q)' => Trusted(q)) /\ (rpc'[q] = "skip" => rpc[q] = "skip")
    BY <1>2 DEF RInv, OnlyReader, Trusted
  <2> QED  BY <1>2, <2>1, ReaderStays DEF OnlyReader
<1> QED  BY <1>1, <1>2

(* A read of the entry at a reader's place, which the reader may see.       *)
LEMMA FetchKeepsReader ==
  ASSUME RInv, NEW r \in Readers, rpc[r] # "closed", w_off # r_off[r],
         NEW h \in Headers, HeaderAt(r_off[r], h), Fetch(r, h), Finish(r),
         UNCHANGED <<wvars, r_all, lost>>, r_all[r] \/ h.euid = Euid[r]
  PROVE  Good(r)' /\ OnlyReader(r)
<1>0. TypeOK /\ LogInv /\ Good(r)  BY DEF RInv, IInv
<1>1. OnlyReader(r)
  BY <1>0 DEF OnlyReader, TypeOK, wvars, Fetch, Finish, Give, Advance
<1>2. /\ writes' = writes /\ wpos' = wpos /\ dirty' = dirty
      /\ r_all' = r_all /\ lost' = lost
  BY DEF wvars
<1>3. rpc'[r] = "idle"  BY <1>0 DEF Finish, TypeOK
<1>4. CASE UNCHANGED <<got, r_off, rpos>>
  <2>1. got'[r] = got[r] /\ r_off'[r] = r_off[r] /\ rpos'[r] = rpos[r] /\ r_all'[r] = r_all[r]
    BY <1>2, <1>4
  <2>2. Trusted(r)' => Trusted(r)  BY <1>2 DEF Trusted
  <2> QED  BY <1>0, <1>1, <1>2, <1>3, <2>1, <2>2, ReaderStays
<1>5. CASE /\ Give(r, EntryRead(r_off[r], HdrLen + h.len))
           /\ r_off' = [r_off EXCEPT ![r] = logger_offset(@ + (HdrLen + h.len))]
           /\ Advance(r, HdrLen + h.len)
  <2> SUFFICES ASSUME Trusted(r)'  PROVE InPlace(r)' /\ InOrder(r)'
    BY <1>1, <1>3 DEF Good
  <2>1. Trusted(r) /\ ~lost[r]  BY <1>2 DEF Trusted
  <2>2. InPlace(r) /\ InOrder(r)  BY <1>0, <2>1 DEF Good
  <2>3. PICK i \in DOMAIN writes :
           /\ writes[i].ok /\ writes[i].start = rpos[r]
           /\ h.euid = writes[i].euid /\ rpos[r] + (HdrLen + h.len) = EndOf(i)
           /\ EntryRead(r_off[r], HdrLen + h.len) = i
    BY <1>0, <2>2, HeaderRead
  <2>4. /\ r_off'[r] = logger_offset(r_off[r] + (HdrLen + h.len))
        /\ rpos'[r] = rpos[r] + (HdrLen + h.len)
        /\ got'[r] = Append(got[r], i)
    BY <1>0, <1>5, <2>1, <2>3 DEF TypeOK, Give, Advance
  <2>5. Visible(r, i)  BY <2>3 DEF Visible
  <2>6. InPlace(r)'  BY <1>0, <1>2, <2>2, <2>4, MovesOn
  <2>7. InOrder(r)'  BY <1>0, <1>2, <2>2, <2>3, <2>4, <2>5, SeesOneMore
  <2> QED  BY <2>6, <2>7
<1> QED  BY <1>4, <1>5 DEF Fetch

(* An entry that is not the reader's is passed over; from the start of the  *)
(* buffer get_next_entry_by_uid comes to the next one.                      *)
LEMMA SkipKeepsReader ==
  ASSUME RInv, NEW r \in Readers, rpc[r] = "skip", w_off # r_off[r],
         NEW h \in Headers, HeaderAt(r_off[r], h), h.euid # Euid[r],
         r_off' = [r_off EXCEPT ![r] = NextEntryByUid(@, h)],
         Advance(r, HdrLen + h.len),
         lost' = [lost EXCEPT ![r] = @ \/ r_off[r] # 0],
         UNCHANGED <<rpc, got>>, UNCHANGED <<wvars, r_all>>
  PROVE  Good(r)' /\ OnlyReader(r)
<1>0. TypeOK /\ LogInv /\ Good(r)  BY DEF RInv, IInv
<1>1. OnlyReader(r)
  BY <1>0 DEF OnlyReader, TypeOK, wvars, Advance
<1>2. /\ writes' = writes /\ wpos' = wpos /\ dirty' = dirty
      /\ r_all' = r_all /\ rpc' = rpc /\ got' = got
  BY DEF wvars
<1>3. lost'[r] <=> lost[r] \/ r_off[r] # 0
  <2>1. lost'[r] = (lost[r] \/ r_off[r] # 0)  BY <1>0 DEF TypeOK
  <2> QED  BY <2>1
<1>4. ~r_all[r]  BY <1>0 DEF Good
<1> SUFFICES ASSUME Trusted(r)'  PROVE InPlace(r)' /\ InOrder(r)'
  BY <1>1, <1>2, <1>4 DEF Good
<1>5. Trusted(r) /\ ~lost[r] /\ r_off[r] = 0  BY <1>2, <1>3 DEF Trusted
<1>6. InPlace(r) /\ InOrder(r)  BY <1>0, <1>5 DEF Good
<1>7. PICK i \in DOMAIN writes :
         /\ writes[i].ok /\ writes[i].start = rpos[r]
         /\ h.euid = writes[i].euid /\ rpos[r] + (HdrLen + h.len) = EndOf(i)
  BY <1>0, <1>6, HeaderRead
<1>8. PICK n \in Nat : n = HdrLen + h.len  BY HeaderLength
<1>9. r_off'[r] = logger_offset(r_off[r] + (HdrLen + h.len))
  <2>1. r_off'[r] = logger_offset(n)  BY <1>0, <1>8 DEF TypeOK, NextEntryByUid
  <2>2. r_off[r] + n = n  BY <1>5
  <2> QED  BY <1>8, <2>1, <2>2
<1>10. rpos'[r] = rpos[r] + (HdrLen + h.len)  BY <1>0, <1>5 DEF TypeOK, Advance
<1>11. ~Visible(r, i)  BY <1>4, <1>7 DEF Visible
<1>12. InPlace(r)'  BY <1>0, <1>2, <1>6, <1>9, <1>10, MovesOn
<1>13. InOrder(r)'  BY <1>0, <1>2, <1>6, <1>7, <1>10, <1>11, SeesOneMore
<1> QED  BY <1>12, <1>13

-----------------------------------------------------------------------------
LEMMA InitRInv == Init => RInv
<1> SUFFICES ASSUME Init  PROVE RInv  OBVIOUS
<1>1. /\ writes = <<>> /\ wpos = 0 /\ dirty = 0 /\ w_off = 0 /\ DOMAIN writes = {}
      /\ Size \in Nat \ {0}
  BY LoggerSizes DEF Init
<1>2. LogInv
  BY <1>1 DEF LogInv, Placed, Chained, Boundaries, Boundary, Kept, logger_offset
<1>3. \A r \in Readers : Good(r)  BY DEF Init, Good, Trusted
<1> QED  BY <1>2, <1>3, InitIInv DEF RInv

LEMMA WaitingKeepsReader ==
  ASSUME RInv, NEW r \in Readers,
         \/ StartRead(r) \/ Signal(r) \/ PrepareToWait(r) \/ Schedule(r)
         \/ TakeFaults(r) \/ SkipFaults(r)
  PROVE  LogInv' /\ \A q \in Readers : Good(q)'
<1>0. TypeOK /\ Good(r)  BY DEF RInv, IInv
<1>1. /\ UNCHANGED <<buffer, w_off, writes, wpos, dirty>>
      /\ lost' = lost /\ r_all' = r_all /\ r_off' = r_off /\ rpos' = rpos /\ got' = got
  BY DEF wvars, StartRead, Signal, PrepareToWait, Schedule, TakeFaults, SkipFaults, FetchFaults
<1>2. /\ rpc[r] # "closed" /\ (rpc'[r] = "skip" => rpc[r] = "skip")
      /\ \A q \in Readers : q # r => rpc'[q] = rpc[q]
  BY <1>0 DEF TypeOK, StartRead, Signal, PrepareToWait, Schedule, TakeFaults, SkipFaults, Finish
<1>3. OnlyReader(r)  BY <1>1, <1>2 DEF OnlyReader
<1>4. Good(r)'
  <2>1. Trusted(r)' => Trusted(r)  BY <1>1, <1>2 DEF Trusted
  <2> QED  BY <1>0, <1>1, <1>2, <2>1, ReaderStays
<1> QED  BY <1>3, <1>4, OthersStay

LEMMA TakeKeepsReaders ==
  ASSUME RInv, NEW r \in Readers, Take(r)
  PROVE  LogInv' /\ \A q \in Readers : Good(q)'
<1>0. TypeOK /\ Good(r) /\ rpc[r] = "take"  BY DEF RInv, IInv, Take
<1>1. UNCHANGED <<wvars, r_all, lost>>  BY DEF Take
<1>2. CASE /\ r_all[r] /\ w_off # r_off[r]
           /\ \E h \in Headers : HeaderAt(r_off[r], h) /\ Fetch(r, h)
           /\ Finish(r)
  <2>1. PICK h \in Headers : HeaderAt(r_off[r], h) /\ Fetch(r, h)  BY <1>2
  <2>2. Good(r)' /\ OnlyReader(r)  BY <1>0, <1>1, <1>2, <2>1, FetchKeepsReader
  <2> QED  BY <2>2, OthersStay
<1>3. CASE /\ \/ rpc' = [rpc EXCEPT ![r] = "start"]
              \/ ~r_all[r] /\ rpc' = [rpc EXCEPT ![r] = "skip"]
           /\ UNCHANGED <<got, r_off, rpos>>
  <2>1. /\ UNCHANGED <<buffer, w_off, writes, wpos, dirty>>
        /\ lost' = lost /\ r_all' = r_all /\ r_off' = r_off /\ rpos' = rpos /\ got' = got
    BY <1>1, <1>3 DEF wvars
  <2>2. /\ rpc'[r] = "skip" => ~r_all[r]
        /\ \A q \in Readers : q # r => rpc'[q] = rpc[q]
    BY <1>0, <1>3 DEF TypeOK
  <2>3. OnlyReader(r)  BY <2>1, <2>2 DEF OnlyReader
  <2>4. Good(r)'
    <3>1. Trusted(r)' => Trusted(r)  BY <1>0, <2>1 DEF Trusted
    <3> QED  BY <1>0, <2>1, <2>2, <3>1, ReaderStays
  <2> QED  BY <2>3, <2>4, OthersStay
<1> QED  BY <1>2, <1>3 DEF Take

LEMMA SkipKeepsReaders ==
  ASSUME RInv, NEW r \in Readers, Skip(r)
  PROVE  LogInv' /\ \A q \in Readers : Good(q)'
<1>0. TypeOK /\ Good(r) /\ rpc[r] = "skip"  BY DEF RInv, IInv, Skip
<1>1. UNCHANGED <<wvars, r_all>>  BY DEF Skip
<1>2. CASE /\ rpc' = [rpc EXCEPT ![r] = "start"]
           /\ UNCHANGED <<got, r_off, rpos, lost>>
  <2>1. /\ UNCHANGED <<buffer, w_off, writes, wpos, dirty>>
        /\ lost' = lost /\ r_all' = r_all /\ r_off' = r_off /\ rpos' = rpos /\ got' = got
    BY <1>1, <1>2 DEF wvars
  <2>2. rpc'[r] = "start" /\ \A q \in Readers : q # r => rpc'[q] = rpc[q]
    BY <1>0, <1>2 DEF TypeOK
  <2>3. OnlyReader(r)  BY <2>1, <2>2 DEF OnlyReader
  <2>4. Good(r)'
    <3>1. Trusted(r)' => Trusted(r)  BY <1>0, <2>1 DEF Trusted
    <3> QED  BY <1>0, <2>1, <2>2, <3>1, ReaderStays
  <2> QED  BY <2>3, <2>4, OthersStay
<1>3. CASE /\ w_off # r_off[r]
           /\ \E h \in Headers :
                /\ HeaderAt(r_off[r], h) /\ h.euid = Euid[r]
                /\ Fetch(r, h) /\ Finish(r) /\ UNCHANGED lost
  <2>1. PICK h \in Headers :
                /\ HeaderAt(r_off[r], h) /\ h.euid = Euid[r]
                /\ Fetch(r, h) /\ Finish(r) /\ UNCHANGED lost
    BY <1>3
  <2>2. Good(r)' /\ OnlyReader(r)  BY <1>0, <1>1, <1>3, <2>1, FetchKeepsReader
  <2> QED  BY <2>2, OthersStay
<1>4. CASE /\ w_off # r_off[r]
           /\ \E h \in Headers :
                /\ HeaderAt(r_off[r], h) /\ h.euid # Euid[r]
                /\ r_off' = [r_off EXCEPT ![r] = NextEntryByUid(@, h)]
                /\ Advance(r, HdrLen + h.len)
                /\ lost' = [lost EXCEPT ![r] = @ \/ r_off[r] # 0]
                /\ UNCHANGED <<rpc, got>>
  <2>1. PICK h \in Headers :
                /\ HeaderAt(r_off[r], h) /\ h.euid # Euid[r]
                /\ r_off' = [r_off EXCEPT ![r] = NextEntryByUid(@, h)]
                /\ Advance(r, HdrLen + h.len)
                /\ lost' = [lost EXCEPT ![r] = @ \/ r_off[r] # 0]
                /\ UNCHANGED <<rpc, got>>
    BY <1>4
  <2>2. Good(r)' /\ OnlyReader(r)  BY <1>0, <1>1, <1>4, <2>1, SkipKeepsReader
  <2> QED  BY <2>2, OthersStay
<1> QED  BY <1>2, <1>3, <1>4 DEF Skip

LEMMA OpenedOrClosed ==
  ASSUME RInv, NEW r \in Readers,
         Release(r) \/ \E all, nb \in BOOLEAN : Open(r, all, nb)
  PROVE  LogInv' /\ \A q \in Readers : Good(q)'
<1>0. TypeOK /\ Good(r)  BY DEF RInv, IInv
<1>1. OnlyReader(r)  BY <1>0 DEF OnlyReader, TypeOK, Open, Release, wvars
<1>2. Good(r)'
  <2>1. CASE Release(r)
    <3>1. rpc'[r] = "closed"  BY <1>0, <2>1 DEF Release, TypeOK
    <3> QED  BY <3>1 DEF Good, Trusted
  <2>2. CASE \E all, nb \in BOOLEAN : Open(r, all, nb)  BY <2>2, OpenKeepsReader
  <2> QED  BY <2>1, <2>2
<1> QED  BY <1>1, <1>2, OthersStay

LEMMA StepKeepsRInv == RInv /\ [Next]_vars => RInv'
<1> SUFFICES ASSUME RInv, [Next]_vars  PROVE RInv'  OBVIOUS
<1>1. IInv' /\ TypeOK' /\ TypeOK  BY StepKeepsIInv DEF RInv, IInv
<1>2. CASE \/ UNCHANGED vars
           \/ \E w \in Writers : WakeUp(w)
  <2>1. /\ UNCHANGED <<buffer, w_off, writes, wpos, dirty>>
        /\ rpc' = rpc /\ lost' = lost /\ r_all' = r_all
        /\ r_off' = r_off /\ rpos' = rpos /\ got' = got
    BY <1>2 DEF vars, wvars, WakeUp
  <2>2. LogInv'  BY <2>1, LogStays DEF RInv
  <2>3. ASSUME NEW r \in Readers  PROVE Good(r)'
    <3>1. Good(r) /\ (Trusted(r)' => Trusted(r))  BY <2>1 DEF RInv, Trusted
    <3> QED  BY <2>1, <3>1, ReaderStays
  <2> QED  BY <1>1, <2>2, <2>3 DEF RInv
<1>3. CASE \E w \in Writers, len \in Lens, n \in HdrLen .. (HdrLen + MaxPayload) :
             Write(w, len, n)
  <2>1. PICK w \in Writers, len \in Lens, n \in HdrLen .. (HdrLen + MaxPayload) :
             Write(w, len, n)
    BY <1>3
  <2>2. LogInv'  BY <1>1, <2>1, WriteKeepsLog DEF RInv
  <2>3. \A r \in Readers : Good(r)'  BY <1>1, <2>1, WriteKeepsReaders
  <2> QED  BY <1>1, <2>2, <2>3 DEF RInv
<1>4. CASE \E r \in Readers : \/ Release(r) \/ \E all, nb \in BOOLEAN : Open(r, all, nb)
                              \/ StartRead(r) \/ Signal(r) \/ PrepareToWait(r) \/ Schedule(r)
                              \/ TakeFaults(r) \/ SkipFaults(r) \/ Take(r) \/ Skip(r)
  <2>1. LogInv' /\ \A q \in Readers : Good(q)'
    BY <1>4, OpenedOrClosed, WaitingKeepsReader, TakeKeepsReaders, SkipKeepsReaders
  <2> QED  BY <1>1, <2>1 DEF RInv
<1> QED  BY <1>2, <1>3, <1>4 DEF Next, Reading

(* A reader that has not been overtaken nor sent astray is at the start of  *)
(* an entry whose header is whole, or at the end of the log, which is the   *)
(* only case where w_off equals r_off: for any sizes of the buffer, the     *)
(* header and the entries, with entries that wrap around the end of the     *)
(* buffer, copies that fail halfway and users that see only their own.      *)
THEOREM ReadersAtEntries == Spec => []AtEntry
<1>1. RInv => AtEntry
  <2> SUFFICES ASSUME RInv, NEW r \in Readers, Trusted(r)
               PROVE  /\ r_off[r] = logger_offset(rpos[r])
                      /\ (w_off = r_off[r]) <=> (wpos = rpos[r])
                      /\ wpos # rpos[r] => \E i \in DOMAIN writes :
                           /\ writes[i].ok /\ writes[i].start = rpos[r]
                           /\ Units(r_off[r], HdrLen) = EntryUnits(i, HdrLen)
    BY DEF AtEntry, Trusted
  <2>1. TypeOK /\ LogInv /\ InPlace(r)  BY DEF RInv, IInv, Good
  <2> QED  BY <2>1, NextEntry DEF InPlace
<1> QED  BY <1>1, InitRInv, StepKeepsRInv, PTL DEF Spec

(* Such a reader has been given, whole, each entry before its place that it *)
(* may see, once and in the order they were written, and no other.          *)
THEOREM ReadersReadInOrder == Spec => []ReadInOrder
<1>1. RInv => ReadInOrder
  BY DEF RInv, Good, Trusted, InOrder, Passed, ReadInOrder
<1> QED  BY <1>1, InitRInv, StepKeepsRInv, PTL DEF Spec
=============================================================================

------------------------------- MODULE Logger -------------------------------
(***************************************************************************)
(* One log of the logger driver (common/drivers/staging/log/logger.c): a    *)
(* ring buffer, writers that append entries to it, and readers that sleep   *)
(* on the log's wait queue until there is something to read.                *)
(*                                                                         *)
(* The buffer is counted in units: an entry is a header of HdrLen units and *)
(* a payload. A unit in the buffer is <<i, k>>, unit k of the i-th write.   *)
(* The pages vmalloc maps behind the buffer may reach past log->size, and   *)
(* log_system, log_events and log_radio take entries longer than the log.   *)
(* A step ends where the code lets go of log->mutex or sleeps; a reader in  *)
(* get_next_entry_by_uid holds the mutex from one step to the next.         *)
(***************************************************************************)
EXTENDS Integers, Sequences, FiniteSets

CONSTANTS
  Writers, Readers,
  Euid,              \* the effective user of each writer and reader
  Size,              \* log->size
  Mapped,            \* what vmalloc maps behind log->buffer: whole pages
  HdrLen,            \* sizeof(struct logger_entry)
  Lens,              \* the payload lengths writers ask for
  MaxPayload,        \* LOGGER_ENTRY_MAX_PAYLOAD
  GarbageLens,       \* the lengths read from what is not a header
  UserLen,           \* the length of the buffer passed to read
  MaxWrites,         \* bound on the writes
  MaxSignals         \* bound on the signals sent to readers

ASSUME LoggerSizes ==
  /\ Size \in Nat \ {0} /\ HdrLen \in Nat \ {0} /\ Lens \subseteq Nat
  /\ MaxPayload \in Nat \ {0} /\ GarbageLens \subseteq Nat /\ UserLen \in Nat
  /\ Mapped \in Nat /\ HdrLen <= Size /\ Size <= Mapped
  /\ MaxPayload <= Mapped /\ UserLen <= Mapped     \* 4096 both, a page at most
ASSUME LoggerBounds == MaxWrites \in Nat /\ MaxSignals \in Nat

VARIABLES
  buffer, w_off,
  wpc,               \* writers: "idle", about to "wake" the readers, or killed by an "oops"
  rpc,               \* where a reader is in open, read and release
  nonblock, r_all, r_off,
  queued,            \* the reader is on log->wq
  pending,           \* signal_pending
  writes,            \* every write: its user, length, place and result (history)
  wpos, dirty,       \* units ever appended, and the end of what was ever written (history)
  rpos, got,         \* each reader's place in the log, and the writes it was given (history)
  lost               \* the reader no longer is at an entry it may trust (history)

wvars == <<buffer, w_off, wpc, writes, wpos, dirty>>
vars == <<wvars, rpc, nonblock, r_all, r_off, queued, pending, rpos, got, lost>>

head == 0            \* log->head is set once, in create_log

Torn == 0            \* what read returned is not one whole entry

logger_offset(n) == n % Size

(* Where unit k of the entry at off is: the header goes round the end of    *)
(* log->size wherever it starts, the payload is in one part up to there and *)
(* in another from the start of the buffer, however long that is.           *)
Place(off, k) ==
  LET start == logger_offset(off + HdrLen)
      j     == k - HdrLen
  IN  IF k < HdrLen THEN logger_offset(off + k)
      ELSE IF j < Size - start THEN start + j ELSE j - (Size - start)

Unit(off, k) == buffer[Place(off, k)]
Units(off, n) == [k \in 0 .. (n - 1) |-> Unit(off, k)]
EntryUnits(i, n) == [k \in 0 .. (n - 1) |-> <<i, k>>]

(* A writer that was killed in logger_write_iter never unlocks the mutex.   *)
Killed(w) == wpc[w] = "oops"
LockFree == (\A r \in Readers : rpc[r] # "skip") /\ ~\E w \in Writers : Killed(w)

Signals == Cardinality({r \in Readers : pending[r]})

Init ==
  /\ buffer = [u \in 0 .. (Mapped - 1) |-> <<0, 0>>]
  /\ w_off = 0
  /\ wpc = [w \in Writers |-> "idle"]
  /\ rpc = [r \in Readers |-> "closed"]
  /\ nonblock = [r \in Readers |-> FALSE]
  /\ r_all = [r \in Readers |-> FALSE]
  /\ r_off = [r \in Readers |-> 0]
  /\ queued = [r \in Readers |-> FALSE]
  /\ pending = [r \in Readers |-> FALSE]
  /\ writes = <<>>
  /\ wpos = 0 /\ dirty = 0
  /\ rpos = [r \in Readers |-> 0]
  /\ got = [r \in Readers |-> <<>>]
  /\ lost = [r \in Readers |-> FALSE]

-----------------------------------------------------------------------------
(* logger_write_iter.                                                       *)

Smaller(a, b) == IF a < b THEN a ELSE b
Larger(a, b) == IF a > b THEN a ELSE b

(* The units of write i from unit k on copied to b, n of them.              *)
memcpy(b, to, i, k, n) ==
  [u \in DOMAIN b |-> IF to <= u /\ u < to + n THEN <<i, k + (u - to)>> ELSE b[u]]

(* Bug: the rest of a header at the end of the buffer is not copied.        *)
HeaderCopiedNoWrap(off, i) == memcpy(buffer, off, i, 0, Smaller(HdrLen, Size - off))

HeaderCopied(off, i) ==
  LET len == Smaller(HdrLen, Size - off)
  IN  memcpy(memcpy(buffer, off, i, 0, len), 0, i, len, HdrLen - len)

(* Bug: what does not fit before the end of the buffer is not copied to its *)
(* start.                                                                   *)
CopiedNoWrap(off, i, n) ==
  LET start == logger_offset(off + HdrLen)
  IN  memcpy(HeaderCopied(off, i), start, i, HdrLen, Smaller(n - HdrLen, Size - start))

(* The buffer with the first n units of write i copied to off. The second   *)
(* part of a long payload covers what was copied before and goes on past    *)
(* log->size, where the pages of vmalloc are still mapped.                  *)
Copied(off, i, n) ==
  LET start == logger_offset(off + HdrLen)
      len   == Smaller(n - HdrLen, Size - start)
  IN  memcpy(memcpy(HeaderCopied(off, i), start, i, HdrLen, len),
             0, i, HdrLen + len, n - HdrLen - len)

Payload(len) == IF len < MaxPayload THEN len ELSE MaxPayload

(* What the call returns, if it does: the length of the copy up to the end  *)
(* of the buffer, whether or not there was a second one.                    *)
Returned(len) == Smaller(Payload(len), Size - logger_offset(w_off + HdrLen))

(* Readers left behind: some of what they have not read is overwritten, or  *)
(* they are a whole buffer behind, which looks like an empty log.           *)
Overtaken(r, written, end) == written >= rpos[r] + Size \/ end > rpos[r] + Size

(* Bug: readers are not woken.                                              *)
CommitNoWake(w, len) ==
  /\ w_off' = logger_offset(w_off + HdrLen + Payload(len))
  /\ wpos' = wpos + HdrLen + Payload(len)
  /\ UNCHANGED wpc

(* With w_off moved and the mutex held, the payload is copied once more, to *)
(* str, for a message to the kernel's log. str is null when vzalloc failed, *)
(* and the copy does not go round the end of the buffer.                    *)
StrCopied(len, vzalloc) ==
  vzalloc /\ logger_offset(w_off + HdrLen) + Payload(len) <= Mapped

(* The writer goes on to wake the readers, unless that copy kills it.       *)
Commit(w, len) ==
  /\ w_off' = logger_offset(w_off + HdrLen + Payload(len))
  /\ wpos' = wpos + HdrLen + Payload(len)
  /\ \E vzalloc \in BOOLEAN :
       wpc' = [wpc EXCEPT ![w] = IF StrCopied(len, vzalloc) THEN "wake" ELSE "oops"]

(* A write copies all of its entry, or fails after n units (-EFAULT), which *)
(* leaves w_off where it was. An empty write returns before all this.       *)
Write(w, len, n) ==
  LET i   == Len(writes) + 1
      all == HdrLen + Payload(len)
      ok  == n = all
  IN  /\ wpc[w] = "idle"
      /\ len # 0 /\ i <= MaxWrites
      /\ LockFree
      /\ n \in HdrLen .. all
      /\ buffer' = Copied(w_off, i, n)
      /\ \/ ok /\ Commit(w, len)
         \/ ~ok /\ UNCHANGED <<w_off, wpos, wpc>>
      /\ dirty' = Larger(dirty, wpos + n)
      /\ lost' = [r \in Readers |-> lost[r] \/ (rpc[r] # "closed" /\ Overtaken(r, wpos', dirty'))]
      /\ writes' = Append(writes, [euid |-> Euid[w], len |-> Payload(len), start |-> wpos,
                                   ok |-> ok, ret |-> IF ok THEN Returned(len) ELSE -1])
      /\ UNCHANGED <<rpc, nonblock, r_all, r_off, queued, pending, rpos, got>>

(* Bug: only one of the sleeping readers is woken.                          *)
WakeUpOne(w) ==
  /\ wpc[w] = "wake"
  /\ wpc' = [wpc EXCEPT ![w] = "idle"]
  /\ IF \E r \in Readers : queued[r]
     THEN \E r \in Readers : queued[r] /\ queued' = [queued EXCEPT ![r] = FALSE]
     ELSE UNCHANGED queued
  /\ UNCHANGED <<buffer, w_off, rpc, nonblock, r_all, r_off, pending, writes, wpos, dirty,
                 rpos, got, lost>>

(* wake_up_interruptible, after the mutex is released. Waking a reader takes *)
(* it off the queue (autoremove_wake_function).                             *)
WakeUp(w) ==
  /\ wpc[w] = "wake"
  /\ wpc' = [wpc EXCEPT ![w] = "idle"]
  /\ queued' = [r \in Readers |-> FALSE]
  /\ UNCHANGED <<buffer, w_off, rpc, nonblock, r_all, r_off, pending, writes, wpos, dirty,
                 rpos, got, lost>>

-----------------------------------------------------------------------------
(* logger_open and logger_release.                                          *)
Open(r, all, nb) ==
  /\ rpc[r] = "closed"
  /\ LockFree
  /\ rpc' = [rpc EXCEPT ![r] = "idle"]
  /\ nonblock' = [nonblock EXCEPT ![r] = nb]
  /\ r_all' = [r_all EXCEPT ![r] = all]
  /\ r_off' = [r_off EXCEPT ![r] = head]
  /\ rpos' = [rpos EXCEPT ![r] = 0]
  /\ got' = [got EXCEPT ![r] = <<>>]
  /\ lost' = [lost EXCEPT ![r] = wpos >= Size \/ dirty > Size]
  /\ UNCHANGED <<wvars, queued, pending>>

Release(r) ==
  /\ rpc[r] = "idle"
  /\ LockFree
  /\ rpc' = [rpc EXCEPT ![r] = "closed"]
  /\ r_off' = [r_off EXCEPT ![r] = 0]
  /\ rpos' = [rpos EXCEPT ![r] = 0]
  /\ got' = [got EXCEPT ![r] = <<>>]
  /\ lost' = [lost EXCEPT ![r] = FALSE]
  /\ nonblock' = [nonblock EXCEPT ![r] = FALSE]
  /\ r_all' = [r_all EXCEPT ![r] = FALSE]
  /\ UNCHANGED <<wvars, queued, pending>>

-----------------------------------------------------------------------------
(* logger_read.                                                             *)
StartRead(r) ==
  /\ rpc[r] = "idle"
  /\ rpc' = [rpc EXCEPT ![r] = "start"]
  /\ UNCHANGED <<wvars, nonblock, r_all, r_off, queued, pending, rpos, got, lost>>

(* A signal makes a sleeping reader runnable but leaves it on the queue.    *)
Signal(r) ==
  /\ rpc[r] \notin {"closed", "idle"}
  /\ ~pending[r] /\ Signals < MaxSignals
  /\ pending' = [pending EXCEPT ![r] = TRUE]
  /\ UNCHANGED <<wvars, rpc, nonblock, r_all, r_off, queued, rpos, got, lost>>

(* One round of the waiting loop: queue, test for something to read, and    *)
(* leave the queue again unless the reader goes to sleep. The signal is     *)
(* taken once read has returned.                                            *)
PrepareToWait(r) ==
  /\ rpc[r] = "start"
  /\ LockFree
  /\ \/ /\ w_off # r_off[r]
        /\ rpc' = [rpc EXCEPT ![r] = "take"]
        /\ queued' = [queued EXCEPT ![r] = FALSE]
        /\ UNCHANGED pending
     \/ /\ w_off = r_off[r]
        /\ nonblock[r] \/ pending[r]
        /\ rpc' = [rpc EXCEPT ![r] = "idle"]
        /\ queued' = [queued EXCEPT ![r] = FALSE]
        /\ pending' = [pending EXCEPT ![r] = FALSE]
     \/ /\ w_off = r_off[r]
        /\ ~nonblock[r] /\ ~pending[r]
        /\ rpc' = [rpc EXCEPT ![r] = "sched"]
        /\ queued' = [queued EXCEPT ![r] = TRUE]
        /\ UNCHANGED pending
  /\ UNCHANGED <<wvars, nonblock, r_all, r_off, rpos, got, lost>>

Schedule(r) ==       \* schedule() returns
  /\ rpc[r] = "sched"
  /\ ~queued[r] \/ pending[r]
  /\ rpc' = [rpc EXCEPT ![r] = "start"]
  /\ UNCHANGED <<wvars, nonblock, r_all, r_off, queued, pending, rpos, got, lost>>

(* h is what get_entry_header finds at off: a header, of whatever age, or   *)
(* parts of entries that say anything.                                      *)
HeaderAt(off, h) ==
  \/ \E i \in DOMAIN writes :
       /\ Units(off, HdrLen) = EntryUnits(i, HdrLen)
       /\ h = [euid |-> writes[i].euid, len |-> writes[i].len]
  \/ /\ \A i \in DOMAIN writes : Units(off, HdrLen) # EntryUnits(i, HdrLen)
     /\ h.len \in GarbageLens

Headers == [euid : {Euid[p] : p \in Writers \cup Readers},
            len : GarbageLens \cup {Payload(l) : l \in Lens}]

(* What the copies of do_read_log_to_user give the user.                    *)
EntryRead(off, n) ==
  LET i == Unit(off, 0)[1] IN IF Units(off, n) = EntryUnits(i, n) THEN i ELSE Torn

(* The histories of a reader: its place, as long as it means something, and *)
(* what it has read (the last only, once it is lost).                       *)
Advance(r, n) == rpos' = IF lost[r] THEN rpos ELSE [rpos EXCEPT ![r] = @ + n]
Give(r, e) == got' = [got EXCEPT ![r] = IF lost[r] THEN <<e>> ELSE Append(@, e)]

(* The entry at r_off is read: not at all if the user's buffer is too small *)
(* (-EINVAL) or one of the copies fails (-EFAULT).                          *)
Fetch(r, h) ==
  LET n == HdrLen + h.len IN
  \/ /\ n <= UserLen
     /\ Give(r, EntryRead(r_off[r], n))
     /\ r_off' = [r_off EXCEPT ![r] = logger_offset(@ + n)]
     /\ Advance(r, n)
  \/ /\ n > UserLen
     /\ UNCHANGED <<got, r_off, rpos>>

FetchFaults == UNCHANGED <<got, r_off, rpos>>

Finish(r) ==
  /\ rpc' = [rpc EXCEPT ![r] = "idle"]
  /\ pending' = [pending EXCEPT ![r] = FALSE]

(* The mutex is taken again. A reader that may read everything reads now,   *)
(* unless the log has become empty; another looks for an entry of its own.  *)
Take(r) ==
  /\ rpc[r] = "take"
  /\ LockFree
  /\ \/ /\ r_all[r] /\ w_off # r_off[r]
        /\ \E h \in Headers : HeaderAt(r_off[r], h) /\ Fetch(r, h)
        /\ Finish(r)
     \/ /\ r_all[r] /\ w_off = r_off[r]
        /\ rpc' = [rpc EXCEPT ![r] = "start"]
        /\ UNCHANGED <<got, r_off, rpos, pending>>
     \/ /\ ~r_all[r]
        /\ rpc' = [rpc EXCEPT ![r] = "skip"]
        /\ UNCHANGED <<got, r_off, rpos, pending>>
  /\ UNCHANGED <<wvars, nonblock, r_all, queued, lost>>

TakeFaults(r) ==
  /\ rpc[r] = "take"
  /\ LockFree
  /\ r_all[r] /\ w_off # r_off[r]
  /\ FetchFaults
  /\ Finish(r)
  /\ UNCHANGED <<wvars, nonblock, r_all, queued, lost>>

(* Where get_next_entry_by_uid goes after an entry that is not the user's:  *)
(* the length of that entry, counted from the start of the buffer, not from *)
(* the entry.                                                               *)
NextEntryByUid(off, h) == logger_offset(HdrLen + h.len)

(* One round of get_next_entry_by_uid, with the mutex held; r_off stands    *)
(* for its off, which is assigned to r_off when the loop ends.              *)
Skip(r) ==
  /\ rpc[r] = "skip"
  /\ \/ /\ w_off = r_off[r]
        /\ rpc' = [rpc EXCEPT ![r] = "start"]
        /\ UNCHANGED <<got, r_off, rpos, pending, lost>>
     \/ /\ w_off # r_off[r]
        /\ \E h \in Headers :
             /\ HeaderAt(r_off[r], h)
             /\ \/ /\ h.euid = Euid[r]
                   /\ Fetch(r, h)
                   /\ Finish(r)
                   /\ UNCHANGED lost
                \/ /\ h.euid # Euid[r]
                   /\ r_off' = [r_off EXCEPT ![r] = NextEntryByUid(@, h)]
                   /\ Advance(r, HdrLen + h.len)
                   /\ lost' = [lost EXCEPT ![r] = @ \/ r_off[r] # 0]
                   /\ UNCHANGED <<rpc, got, pending>>
  /\ UNCHANGED <<wvars, nonblock, r_all, queued>>

SkipFaults(r) ==
  /\ rpc[r] = "skip" /\ w_off # r_off[r]
  /\ \E h \in Headers : HeaderAt(r_off[r], h) /\ h.euid = Euid[r]
  /\ FetchFaults
  /\ Finish(r)
  /\ UNCHANGED <<wvars, nonblock, r_all, queued, lost>>

-----------------------------------------------------------------------------
Reading(r) == StartRead(r) \/ PrepareToWait(r) \/ Schedule(r) \/ Take(r) \/ Skip(r)

Next ==
  \/ \E w \in Writers :
       WakeUp(w) \/ \E len \in Lens, n \in HdrLen .. (HdrLen + MaxPayload) : Write(w, len, n)
  \/ \E r \in Readers :
       \/ \E all, nb \in BOOLEAN : Open(r, all, nb)
       \/ Release(r) \/ Signal(r) \/ Reading(r) \/ TakeFaults(r) \/ SkipFaults(r)

Spec == Init /\ [][Next]_vars

(* Readers read again and again, as LogPrinter does. The mutex is handed to *)
(* those who wait for it, so it cannot be missed for ever, and a read that  *)
(* is repeated does not fail with -EFAULT every time.                       *)
FairSpec ==
  /\ Spec
  /\ \A w \in Writers : WF_vars(WakeUp(w))
  /\ \A r \in Readers : /\ WF_vars(StartRead(r)) /\ WF_vars(Schedule(r))
                         /\ SF_vars(PrepareToWait(r)) /\ SF_vars(Take(r)) /\ SF_vars(Skip(r))

-----------------------------------------------------------------------------
BufferUnits == (0 .. MaxWrites) \X Nat
WriteRecords == [euid : {Euid[w] : w \in Writers}, len : Nat, start : Nat, ok : BOOLEAN, ret : Int]

(* Every variable is of its type: the offsets in particular stay inside of  *)
(* the buffer, also those of readers that have lost their place.            *)
TypeOK ==
  /\ buffer \in [0 .. (Mapped - 1) -> BufferUnits]
  /\ w_off \in 0 .. (Size - 1)
  /\ wpc \in [Writers -> {"idle", "wake", "oops"}]
  /\ rpc \in [Readers -> {"closed", "idle", "start", "sched", "take", "skip"}]
  /\ r_off \in [Readers -> 0 .. (Size - 1)]
  /\ nonblock \in [Readers -> BOOLEAN] /\ r_all \in [Readers -> BOOLEAN]
  /\ queued \in [Readers -> BOOLEAN] /\ pending \in [Readers -> BOOLEAN]
  /\ lost \in [Readers -> BOOLEAN]
  /\ writes \in Seq(WriteRecords) /\ Len(writes) <= MaxWrites
  /\ wpos \in Nat /\ dirty \in Nat
  /\ rpos \in [Readers -> Nat]
  /\ got \in [Readers -> Seq(0 .. MaxWrites)]

(* A reader asleep on the wait queue while the log is not empty for it is   *)
(* about to be woken: some writer has appended its entry and not yet called *)
(* wake_up_interruptible. Only where a writer was killed between moving     *)
(* w_off and waking the readers do they sleep on, and then the mutex is     *)
(* held for ever.                                                           *)
NoLostWakeup ==
  \A r \in Readers :
    rpc[r] = "sched" /\ queued[r] /\ w_off # r_off[r] =>
      \E w \in Writers : wpc[w] = "wake" \/ Killed(w)

Visible(r, i) == writes[i].ok /\ (r_all[r] \/ writes[i].euid = Euid[r])

(* A reader that has not been overtaken, and was not sent to a wrong offset *)
(* by get_next_entry_by_uid, has read whole entries, every entry it may see *)
(* up to its place in the log, each once and in the order they were written.*)
ReadInOrder ==
  \A r \in Readers : rpc[r] # "closed" /\ ~lost[r] =>
    /\ {got[r][k] : k \in DOMAIN got[r]} =
         {i \in DOMAIN writes : writes[i].start < rpos[r] /\ Visible(r, i)}
    /\ \A k, l \in DOMAIN got[r] : k < l => got[r][k] < got[r][l]

(* The offset of a reader that is not lost is that of the next entry, whose *)
(* header is whole, or the end of the log: w_off equals r_off exactly when  *)
(* there is nothing left to read.                                           *)
AtEntry ==
  \A r \in Readers : rpc[r] # "closed" /\ ~lost[r] =>
    /\ r_off[r] = logger_offset(rpos[r])
    /\ (w_off = r_off[r]) = (wpos = rpos[r])
    /\ wpos # rpos[r] => \E i \in DOMAIN writes : /\ writes[i].ok /\ writes[i].start = rpos[r]
                                                 /\ Units(r_off[r], HdrLen) = EntryUnits(i, HdrLen)

TooLarge(i) == i <= Len(writes) /\ writes[i].ok /\ HdrLen + writes[i].len > UserLen

(* Every entry a reader may see is read by it in the end, unless it closes  *)
(* the log, is overtaken, is stuck at an entry its buffer cannot hold, or   *)
(* the mutex is never released again: some reader went astray with it in    *)
(* get_next_entry_by_uid, or some writer was killed with it.                *)
EveryEntryRead ==
  \A r \in Readers, i \in 1 .. MaxWrites :
    (rpc[r] # "closed" /\ i <= Len(writes) /\ Visible(r, i)) ~>
      \/ \E k \in DOMAIN got[r] : got[r][k] = i
      \/ rpc[r] = "closed" \/ lost[r]
      \/ \E j \in 1 .. i : TooLarge(j)
      \/ \E q \in Readers : lost[q] /\ ~r_all[q]
      \/ \E w \in Writers : Killed(w)

=============================================================================

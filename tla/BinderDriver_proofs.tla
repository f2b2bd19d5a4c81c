------------------------- MODULE BinderDriver_proofs -------------------------
(***************************************************************************)
(* Proofs about BinderDriver: for any processes, tasks and command buffers, *)
(* whoever became the context manager stays it, for which one needs to know *)
(* who the user on record is; the counts of its node are exact, which       *)
(* follows from who is where in a transaction; and the transaction log      *)
(* holds the last transactions, for which one needs to know how far each    *)
(* task has written its entry, and that it is the last to have claimed it.  *)
(***************************************************************************)
EXTENDS BinderDriver, FiniteSetTheorems, TLAPS

ManagerOnRecord ==
  /\ context \in [mgr : Procs \cup {"none"}, uid : {Euid[p] : p \in Procs} \cup {"none"}]
  /\ context.mgr # "none" => context.uid = Euid[context.mgr]

Kept ==
  /\ context.mgr # "none" => context' = context
  /\ context.uid # "none" => context'.uid = context.uid
  /\ context'.mgr # "none" => context'.uid = Euid[context'.mgr]

LEMMA OnlyIoctlSetsManager ==
  ASSUME [Next]_vars, ~ UNCHANGED context
  PROVE  \E t \in Tasks : SetContextMgr(t)
<1>1. ASSUME NEW p \in Procs PROVE Open(p) \/ Munmap(p) \/ Exit(p) => UNCHANGED context
  BY DEF Open, Munmap, Exit, nvars
<1>2. ASSUME NEW p \in Procs, NEW size \in MapSizes PROVE Mmap(p, size) => UNCHANGED context
  BY DEF Mmap, nvars
<1>3. ASSUME NEW t \in Tasks
      PROVE  (\E buf \in Buffers : IoctlWriteRead(t, buf)) \/ ThreadWrite(t) => UNCHANGED context
  BY DEF IoctlWriteRead, ThreadWrite, nvars
<1>4. ASSUME NEW t \in Tasks PROVE Transaction(t) => UNCHANGED context
  <2>1. NewId(t) \/ ClaimEntry(t) \/ PutNode(t) => UNCHANGED context
    BY DEF NewId, ClaimEntry, PutNode, nvars
  <2>2. ResetEntry(t) \/ LogId(t) \/ LogFrom(t) \/ LogTo(t) \/ LogDone(t) => UNCHANGED context
    BY DEF ResetEntry, LogId, LogFrom, LogTo, LogDone, nvars
  <2>3. GetTarget(t) => UNCHANGED context  BY DEF GetTarget, nvars
  <2> QED BY <2>1, <2>2, <2>3 DEF Transaction
<1>5. UNCHANGED vars => UNCHANGED context  BY DEF vars, nvars
<1>6. PICK t \in Tasks : IoctlSetContextMgr(t)
  BY <1>1, <1>2, <1>3, <1>4, <1>5 DEF Next
<1> QED BY <1>6 DEF IoctlSetContextMgr

LEMMA SettingKeeps ==
  ASSUME ManagerOnRecord, NEW t \in Tasks, SetContextMgr(t)
  PROVE  ManagerOnRecord' /\ Kept
<1> DEFINE p == Process[t]
<1>1. p \in Procs  BY BinderConstants
<1>2. context.mgr = "none" /\ context.uid \in {"none", Euid[p]}  BY DEF SetContextMgr
<1>3. CASE context' = [context EXCEPT !.uid = Euid[p]]
  <2>1. context' = [mgr |-> "none", uid |-> Euid[p]]
    BY <1>2, <1>3 DEF ManagerOnRecord
  <2> QED BY <1>1, <1>2, <2>1 DEF ManagerOnRecord, Kept
<1>4. CASE context' = [mgr |-> p, uid |-> Euid[p]]
  BY <1>1, <1>2, <1>4 DEF ManagerOnRecord, Kept
<1> QED BY <1>3, <1>4 DEF SetContextMgr

LEMMA StepKeepsManager ==
  ManagerOnRecord /\ [Next]_vars => ManagerOnRecord' /\ Kept
<1> SUFFICES ASSUME ManagerOnRecord, [Next]_vars PROVE ManagerOnRecord' /\ Kept
  OBVIOUS
<1>1. CASE UNCHANGED context  BY <1>1 DEF ManagerOnRecord, Kept
<1>2. CASE ~ UNCHANGED context  BY <1>2, OnlyIoctlSetsManager, SettingKeeps
<1> QED BY <1>1, <1>2

(* binder_ioctl_set_ctx_mgr never replaces a manager, also when its process *)
(* has gone, and never accepts another user than the first that tried.      *)
THEOREM ManagerStays == Spec => ManagerKept
<1>1. Init => ManagerOnRecord  BY DEF Init, ManagerOnRecord, NoContext
<1>2. ManagerOnRecord /\ [Next]_vars => ManagerOnRecord' /\ [Kept]_context
  BY StepKeepsManager
<1>3. Spec => [][Kept]_context
  BY <1>1, <1>2, PTL DEF Spec
<1> QED BY <1>3 DEF ManagerKept, Kept

-----------------------------------------------------------------------------
(* The counts.                                                              *)
Counting == {t \in Tasks : pc[t] \in {"to", "oopsHolding"}}
Holding == {t \in Tasks : pc[t] \in {"to", "put", "oopsHolding"}}
Found == transactions + Cardinality(Counting)

(* The manager's node while found transactions have found it, of which      *)
(* holding have not put it.                                                 *)
Nodes == [local_strong : Int, local_weak : Int, tmp : Int, has : BOOLEAN, queued : BOOLEAN]
NodeIs(n, found, holding) ==
  /\ n \in Nodes /\ n.local_strong = 1 + found /\ n.local_weak = 1 /\ n.tmp = holding
  /\ n.has = TRUE /\ n.queued = FALSE

Refs ==
  \/ context.mgr = "none" /\ node = NoRefs /\ Found = 0 /\ \A p \in Procs : tmp_ref[p] = 0
  \/ /\ context.mgr # "none"
     /\ NodeIs(node, Found, Cardinality(Holding))
     /\ \A p \in Procs : tmp_ref[p] = IF p = context.mgr THEN Found ELSE 0

RInv ==
  /\ DOMAIN pc = Tasks /\ transactions \in Nat
  /\ DOMAIN tmp_ref = Procs
  /\ context.mgr \in Procs \cup {"none"}
  /\ DOMAIN context = {"mgr", "uid"}
  /\ context.mgr = "none" => Holding = {}
  /\ Refs

LEMMA FoundNode ==
  ASSUME NEW f \in Nat, NEW h \in Nat, NEW n, NodeIs(n, f, h)
  PROVE  NodeIs(GetRefs(n), f + 1, h + 1)
<1> USE DEF NodeIs
<1>1. PICK m : m = IncStrong(n)  OBVIOUS
<1>2. NodeIs(m, f+1, h)  BY <1>1 DEF IncStrong, Nodes
<1>3. GetRefs(n) = [m EXCEPT !.tmp = @ + 1]  BY <1>1, Zenon DEF GetRefs
<1> QED  BY <1>2, <1>3 DEF Nodes

(* With a weak reference that stays, putting the node queues nothing.       *)
LEMMA NodePut ==
  ASSUME NEW f \in Nat, NEW h \in Nat, NEW n, NodeIs(n, f, h)
  PROVE  NodeIs(DecTmpRef(n), f, h - 1)
<1> USE DEF NodeIs
<1>1. PICK m : m = [n EXCEPT !.tmp = @ - 1]  OBVIOUS
<1>2. NodeIs(m, f, h - 1)  BY <1>1 DEF Nodes
<1>3. PICK q : q = (n.queued \/ (n.local_weak = 0 /\ n.tmp = 1 /\ n.has))  OBVIOUS
<1>4. q = FALSE
  <2>1. n.queued = FALSE /\ ~(n.local_weak = 0)  OBVIOUS
  <2> QED  BY <1>3, <2>1, Zenon
<1>5. DecTmpRef(n) = [m EXCEPT !.queued = q]  BY <1>1, <1>3, Zenon DEF DecTmpRef
<1> QED  BY <1>2, <1>4, <1>5 DEF Nodes

LEMMA NewNode == NodeIs(NewManagerNode, 0, 0)
<1>1. PICK n : n = [local_strong |-> 1, local_weak |-> 1, tmp |-> 1, has |-> TRUE, queued |-> FALSE]  OBVIOUS
<1>2. NodeIs(n, 0, 1)  BY <1>1 DEF NodeIs, Nodes
<1>3. NewManagerNode = DecTmpRef(n)  BY <1>1, Zenon DEF NewManagerNode
<1> QED  BY <1>2, <1>3, NodePut

LEMMA Finite ==
  /\ IsFiniteSet(Counting) /\ IsFiniteSet(Holding)
  /\ Cardinality(Counting) \in Nat /\ Cardinality(Holding) \in Nat
<1>1. IsFiniteSet(Counting) /\ IsFiniteSet(Holding)
  BY FS_Subset, BinderConstants DEF Counting, Holding
<1> QED  BY <1>1, FS_CardinalityType

LEMMA RefsInit == Init => RInv
<1> SUFFICES ASSUME Init  PROVE RInv  OBVIOUS
<1>1. Counting = {} /\ Holding = {}  BY DEF Init, Counting, Holding
<1>2. Found = 0  BY <1>1, FS_EmptySet DEF Init, Found
<1> QED  BY <1>1, <1>2 DEF Init, RInv, Refs, NoContext

(* Steps away from the node.                                                *)
LEMMA AwayKeeps ==
  ASSUME RInv, UNCHANGED <<nvars, transactions>>, DOMAIN pc' = Tasks,
         Counting' = Counting, Holding' = Holding
  PROVE  RInv'
BY DEF RInv, Refs, nvars, Found

LEMMA MoveAway ==
  ASSUME RInv, NEW t \in Tasks, NEW to,
         pc' = [pc EXCEPT ![t] = to],
         pc[t] \notin {"to", "put", "oopsHolding"}, to \notin {"to", "put", "oopsHolding"}
  PROVE  DOMAIN pc' = Tasks /\ Counting' = Counting /\ Holding' = Holding
BY DEF RInv, Counting, Holding

LEMMA CallsKeepRefs ==
  ASSUME RInv, NEW t \in Tasks,
         \/ \E buf \in Buffers : IoctlWriteRead(t, buf)
         \/ ThreadWrite(t) \/ NewId(t) \/ ClaimEntry(t) \/ ResetEntry(t)
         \/ LogId(t) \/ LogFrom(t) \/ LogDone(t)
  PROVE  RInv'
<1>1. UNCHANGED <<nvars, transactions>>
  BY DEF IoctlWriteRead, ThreadWrite, NewId, ClaimEntry, ResetEntry, LogId, LogFrom, LogDone
<1>2. \/ UNCHANGED pc
      \/ \E to : /\ pc' = [pc EXCEPT ![t] = to]
                 /\ pc[t] \notin {"to", "put", "oopsHolding"}
                 /\ to \notin {"to", "put", "oopsHolding"}
  <2>1. CASE \E buf \in Buffers : IoctlWriteRead(t, buf)
    BY <2>1 DEF IoctlWriteRead, InDriver
  <2>2. CASE ThreadWrite(t)
    BY <2>2 DEF ThreadWrite, NextCommand
  <2>3. CASE NewId(t) \/ ClaimEntry(t)
    BY <2>3 DEF NewId, ClaimEntry, At
  <2>4. CASE ResetEntry(t) \/ LogId(t)
    BY <2>4 DEF ResetEntry, LogId, At
  <2>5. CASE LogFrom(t) \/ LogDone(t)
    BY <2>5 DEF LogFrom, LogDone, At
  <2> QED  BY <2>1, <2>2, <2>3, <2>4, <2>5
<1>3. DOMAIN pc' = Tasks /\ Counting' = Counting /\ Holding' = Holding
  BY <1>2, MoveAway DEF RInv, Counting, Holding
<1> QED  BY <1>1, <1>3, AwayKeeps

LEMMA ManagerKeepsRefs ==
  ASSUME RInv, NEW t \in Tasks, IoctlSetContextMgr(t)
  PROVE  RInv'
<1>1. /\ DOMAIN pc' = Tasks /\ Counting' = Counting /\ Holding' = Holding
      /\ tmp_ref' = tmp_ref /\ Found' = Found /\ transactions' = transactions
  BY DEF IoctlSetContextMgr, RInv, Counting, Holding, Found
<1>2. CASE context'.mgr = context.mgr /\ DOMAIN context' = DOMAIN context /\ node' = node
  BY <1>1, <1>2 DEF RInv, Refs
<1>3. CASE /\ context.mgr = "none" /\ context' = [mgr |-> Process[t], uid |-> Euid[Process[t]]]
           /\ node' = NewManagerNode
  <2>1. Process[t] \in Procs /\ Process[t] # "none"  BY BinderConstants, NoneIsNoOne
  <2>2. Found = 0 /\ \A p \in Procs : tmp_ref[p] = 0  BY <1>3 DEF RInv, Refs
  <2>3. Cardinality(Holding) = 0  BY <1>3, FS_EmptySet DEF RInv
  <2>4. NodeIs(node', 0, 0)  BY <1>3, NewNode
  <2> QED  BY <1>1, <1>3, <2>1, <2>2, <2>3, <2>4 DEF RInv, Refs
<1> QED  BY <1>2, <1>3 DEF IoctlSetContextMgr, SetContextMgr, RInv

LEMMA TargetKeepsRefs ==
  ASSUME RInv, NEW t \in Tasks, GetTarget(t)
  PROVE  RInv'
<1>1. CASE HasTarget(t)
  <2>1. /\ pc' = [pc EXCEPT ![t] = "to"] /\ pc[t] = "target"
        /\ node' = GetRefs(node) /\ UNCHANGED <<context, transactions>>
        /\ tmp_ref' = [tmp_ref EXCEPT ![context.mgr] = @ + 1]
        /\ context.mgr \in Procs /\ context.mgr # "none"
    BY <1>1 DEF GetTarget, At, HasTarget, RInv
  <2>2. /\ Counting' = Counting \cup {t} /\ t \notin Counting
        /\ Holding' = Holding \cup {t} /\ t \notin Holding
    BY <2>1 DEF RInv, Counting, Holding
  <2>3. /\ Cardinality(Counting') = Cardinality(Counting) + 1
        /\ Cardinality(Holding') = Cardinality(Holding) + 1
    BY <2>2, Finite, FS_AddElement
  <2>4. Found \in Nat /\ Found' = Found + 1
    BY <2>1, <2>3, Finite DEF Found, RInv
  <2>5. NodeIs(node, Found, Cardinality(Holding))
    BY <2>1 DEF RInv, Refs
  <2>6. NodeIs(node', Found', Cardinality(Holding'))
    BY <2>1, <2>3, <2>4, <2>5, Finite, FoundNode
  <2>7. \A p \in Procs : tmp_ref[p] = IF p = context.mgr THEN Found ELSE 0
    BY <2>1 DEF RInv, Refs
  <2>8. \A p \in Procs : tmp_ref'[p] = IF p = context.mgr THEN Found' ELSE 0
    BY <2>1, <2>4, <2>7 DEF RInv
  <2> QED  BY <2>1, <2>6, <2>8 DEF RInv, Refs
<1>2. CASE ~HasTarget(t)
  <2>1. /\ pc' = [pc EXCEPT ![t] = "oops"] /\ pc[t] = "target"
        /\ UNCHANGED <<nvars, transactions>>
    BY <1>2 DEF GetTarget, At
  <2> QED  BY <2>1, MoveAway, AwayKeeps
<1> QED  BY <1>1, <1>2

LEMMA LogToKeepsRefs ==
  ASSUME RInv, NEW t \in Tasks, LogTo(t)
  PROVE  RInv'
<1>1. CASE At(t, "to", "put") /\ transactions' = transactions + 1
  <2>1. pc' = [pc EXCEPT ![t] = "put"] /\ pc[t] = "to" /\ UNCHANGED nvars
    BY <1>1 DEF LogTo, At
  <2>2. Counting' = Counting \ {t} /\ t \in Counting /\ Holding' = Holding
    BY <2>1 DEF RInv, Counting, Holding
  <2>3. Cardinality(Counting') = Cardinality(Counting) - 1
    BY <2>2, Finite, FS_RemoveElement
  <2>4. Found' = Found  BY <1>1, <2>3, Finite DEF Found, RInv
  <2> QED  BY <1>1, <2>1, <2>2, <2>4 DEF RInv, Refs, nvars
(* Killed, the task stays among those that hold the node.                   *)
<1>2. CASE At(t, "to", "oopsHolding") /\ UNCHANGED transactions
  <2>1. /\ pc' = [pc EXCEPT ![t] = "oopsHolding"] /\ pc[t] = "to"
        /\ UNCHANGED <<nvars, transactions>>
    BY <1>2 DEF LogTo, At
  <2>2. DOMAIN pc' = Tasks /\ Counting' = Counting /\ Holding' = Holding
    BY <2>1 DEF RInv, Counting, Holding
  <2> QED  BY <2>1, <2>2, AwayKeeps
<1> QED  BY <1>1, <1>2 DEF LogTo

LEMMA PutKeepsRefs ==
  ASSUME RInv, NEW t \in Tasks, PutNode(t)
  PROVE  RInv'
<1>1. /\ pc' = [pc EXCEPT ![t] = "done"] /\ pc[t] = "put"
      /\ node' = DecTmpRef(node) /\ UNCHANGED <<context, tmp_ref, transactions>>
  BY DEF PutNode, At
<1>2. Counting' = Counting /\ Holding' = Holding \ {t} /\ t \in Holding
  BY <1>1 DEF RInv, Counting, Holding
<1>3. Cardinality(Holding') = Cardinality(Holding) - 1 /\ Cardinality(Holding) > 0
  BY <1>2, Finite, FS_RemoveElement, FS_EmptySet
<1>4. context.mgr # "none"  BY <1>2 DEF RInv
<1>5. Found \in Nat /\ Found' = Found  BY <1>1, <1>2, Finite DEF Found, RInv
<1>6. NodeIs(node', Found', Cardinality(Holding'))
  BY <1>1, <1>3, <1>4, <1>5, Finite, NodePut DEF RInv, Refs
<1> QED  BY <1>1, <1>4, <1>5, <1>6 DEF RInv, Refs

LEMMA StepKeepsRefs == RInv /\ [Next]_vars => RInv'
<1> SUFFICES ASSUME RInv, [Next]_vars  PROVE RInv'  OBVIOUS
<1>1. ASSUME NEW p \in Procs, \/ Open(p) \/ Munmap(p) \/ Exit(p)
                             \/ \E size \in MapSizes : Mmap(p, size)
      PROVE  RInv'
  <2>1. UNCHANGED <<nvars, transactions, pc>>  BY <1>1 DEF Open, Munmap, Exit, Mmap
  <2> QED  BY <2>1, AwayKeeps DEF RInv, Counting, Holding
<1>2. ASSUME NEW t \in Tasks, \/ IoctlSetContextMgr(t) \/ ThreadWrite(t) \/ Transaction(t)
                             \/ \E buf \in Buffers : IoctlWriteRead(t, buf)
      PROVE  RInv'
  BY <1>2, CallsKeepRefs, ManagerKeepsRefs, TargetKeepsRefs, LogToKeepsRefs, PutKeepsRefs
  DEF Transaction
<1>3. CASE UNCHANGED vars
  BY <1>3, AwayKeeps DEF vars, RInv, Counting, Holding
<1> QED  BY <1>1, <1>2, <1>3 DEF Next

(* The counts of the manager's node and of its process are those of the     *)
(* transactions under way, plus what each one has leaked (binder.c:596),    *)
(* and those killed for want of memory (binder.c:688) among both:           *)
(* for any tasks, in any processes, that send any number of them.           *)
THEOREM RefsAreExact == Spec => []RefsExact
<1>1. RInv => RefsExact
  BY DEF RInv, Refs, RefsExact, Counting, Holding, Found, NodeIs, Nodes
<1> QED  BY <1>1, RefsInit, StepKeepsRefs, PTL DEF Spec
-----------------------------------------------------------------------------
(* The transaction log.                                                     *)
Slots == 0 .. (LogSize - 1)
Entries == [debug_id : Nat, from : Nat, to : Nat, done : Nat]
Txns == [id : Nat, slot : Slots, cmd : Commands]
SlotOfClaim(i) == (i - 1) % LogSize
InLog(i) == i \in 1 .. Len(claims) /\ i > Len(claims) - LogSize

LogTypes ==
  /\ DOMAIN pc = Tasks
  /\ txn \in [Tasks -> Txns]
  /\ binder_last_id \in Nat
  /\ claims \in Seq(Nat)
  /\ log_entry \in [Slots -> Entries]
  /\ log_cur = Len(claims) - 1

Whole(e) == e.done = e.debug_id /\ e.done # 0 => e.from = e.done /\ e.to = e.done

(* What an entry looks like when its transaction id is at step l.           *)
WrittenTo(l, e, id) ==
  /\ l # "reset" => e.done = 0
  /\ l \notin {"reset", "debug_id"} => e.debug_id = id
  /\ l \in {"target", "to", "put", "done"} => e.from = id
  /\ l \in {"put", "done"} => e.to = id

Apart ==
  \A t, u \in Tasks : t # u /\ Writing(t) /\ Writing(u) => txn[t].slot # txn[u].slot
AllWhole == \A s \in Slots : Whole(log_entry[s])
Progress == \A t \in Tasks : Writing(t) => WrittenTo(pc[t], Entry(t), txn[t].id)

(* A task writes to the entry of the last transaction that claimed it.      *)
Newest ==
  \A t \in Tasks : Writing(t) =>
    \A i \in 1 .. Len(claims) : InLog(i) /\ SlotOfClaim(i) = txn[t].slot => claims[i] = txn[t].id
Recorded ==
  \A i \in 1 .. Len(claims) : InLog(i) =>
    \/ log_entry[SlotOfClaim(i)].debug_id = claims[i]
    \/ \E t \in Tasks : /\ pc[t] \in {"reset", "debug_id"}
                        /\ txn[t].id = claims[i] /\ txn[t].slot = SlotOfClaim(i)

LogOrdered == Apart /\ AllWhole /\ Progress /\ Newest /\ Recorded

FullExact == log_full \in BOOLEAN /\ (log_full <=> Len(claims) > LogSize)

LInv == LogTypes /\ FullExact /\ (overrun \/ LogOrdered)

(* The numbers of a window of n have different remainders.                  *)
LEMMA WindowApart ==
  ASSUME NEW n \in Nat \ {0}, NEW x \in Nat, NEW y \in Nat, x < y, y < x + n
  PROVE  x % n # y % n
<1> SUFFICES ASSUME x % n = y % n  PROVE FALSE  OBVIOUS
<1>1. PICK a \in Nat, r \in 0 .. (n - 1) : x = n * a + r /\ x % n = r
  <2>1. /\ x \div n \in Nat /\ x % n \in 0 .. (n - 1)
        /\ x = n * (x \div n) + (x % n)
    OBVIOUS
  <2> QED  BY <2>1
<1>2. PICK b \in Nat : y = n * b + r
  <2>1. /\ y \div n \in Nat /\ y = n * (y \div n) + (y % n)
    OBVIOUS
  <2> QED  BY <2>1, <1>1
<1>3. n * a < n * b  BY <1>1, <1>2
<1>4. a < b
  <2> SUFFICES ASSUME b <= a  PROVE FALSE  OBVIOUS
  <2>1. n * b <= n * a  OBVIOUS
  <2> QED  BY <2>1, <1>3
<1>5. n * (a + 1) <= n * b
  <2>1. a + 1 <= b  BY <1>4
  <2> QED  BY <2>1
<1>6. n * (a + 1) = n * a + n  OBVIOUS
<1> QED  BY <1>1, <1>2, <1>5, <1>6

(* Two claims in the log have different entries.                            *)
LEMMA SlotsApart ==
  ASSUME NEW c \in Nat, NEW i \in 1 .. c, NEW k \in 1 .. c,
         i > c - LogSize, k > c - LogSize, SlotOfClaim(i) = SlotOfClaim(k)
  PROVE  i = k
<1>0. LogSize \in Nat \ {0}  BY BinderConstants
<1>1. CASE i < k
  <2>1. i - 1 \in Nat /\ k - 1 \in Nat /\ i - 1 < k - 1 /\ k - 1 < (i - 1) + LogSize
    BY <1>0, <1>1
  <2>2. (i - 1) % LogSize # (k - 1) % LogSize  BY ONLY <1>0, <2>1, WindowApart
  <2> QED  BY <2>2 DEF SlotOfClaim
<1>2. CASE k < i
  <2>1. i - 1 \in Nat /\ k - 1 \in Nat /\ k - 1 < i - 1 /\ i - 1 < (k - 1) + LogSize
    BY <1>0, <1>2
  <2>2. (k - 1) % LogSize # (i - 1) % LogSize  BY ONLY <1>0, <2>1, WindowApart
  <2> QED  BY <2>2 DEF SlotOfClaim
<1> QED  BY <1>1, <1>2

LEMMA SlotTyped == \A n \in Nat : n % LogSize \in Slots
BY BinderConstants DEF Slots

LEMMA LogInit == Init => LInv
<1> SUFFICES ASSUME Init  PROVE LInv  OBVIOUS
<1>1. LogSize \in Nat \ {0}  BY BinderConstants
<1>2. LogTypes
  BY <1>1 DEF Init, LogTypes, Txns, NoTxn, Slots, Entries, Blank, Commands
<1>3. FullExact
  <2>1. log_full = FALSE /\ ~(Len(claims) > LogSize)  BY <1>1 DEF Init
  <2> QED  BY <2>1 DEF FullExact
<1>4. LogOrdered
  BY DEF Init, LogOrdered, Apart, AllWhole, Progress, Newest, Recorded, Writing, Whole, Slots, Blank
<1> QED  BY <1>2, <1>3, <1>4 DEF LInv

(* What a task does outside of its entry.                                   *)
LEMMA AwayFromLog ==
  ASSUME LInv, NEW t \in Tasks, NEW to,
         UNCHANGED lvars, pc' = [pc EXCEPT ![t] = to],
         txn' \in [Tasks -> Txns], binder_last_id' \in Nat,
         \A u \in Tasks \ {t} : txn'[u] = txn[u],
         pc[t] \notin {"reset", "debug_id"},
         \/ to \in {"user", "cmd", "id", "claim", "oops"}
         \/ /\ Writing(t) /\ txn'[t] = txn[t]
            /\ <<pc[t], to>> \in {<<"target", "to">>, <<"put", "done">>}
  PROVE  LInv'
<1>1. LogTypes'  BY DEF LInv, LogTypes, lvars
<1>2. FullExact'  BY DEF LInv, FullExact, lvars
<1>3. ASSUME LogOrdered  PROVE LogOrdered'
  <2>1. DOMAIN pc = Tasks  BY DEF LInv, LogTypes
  <2>2. \A u \in Tasks : u # t => pc'[u] = pc[u] /\ (Writing(u)' <=> Writing(u))
    BY <2>1 DEF Writing
  <2>3. /\ pc'[t] = to
        /\ Writing(t)' => /\ Writing(t) /\ txn'[t] = txn[t]
                          /\ <<pc[t], to>> \in {<<"target", "to">>, <<"put", "done">>}
    BY <2>1 DEF Writing
  <2>4. \A u \in Tasks : Writing(u)' => Writing(u) /\ txn'[u] = txn[u]
    BY <2>2, <2>3
  <2>5. Apart'  BY <1>3, <2>4 DEF LogOrdered, Apart
  <2>6. AllWhole'  BY <1>3 DEF LogOrdered, AllWhole, lvars
  <2>7. ASSUME NEW u \in Tasks, Writing(u)'  PROVE WrittenTo(pc[u], Entry(u), txn[u].id)'
    <3>1. WrittenTo(pc[u], Entry(u), txn[u].id)
      BY <1>3, <2>4, <2>7 DEF LogOrdered, Progress
    <3>2. Entry(u)' = Entry(u) /\ txn'[u] = txn[u]
      BY <2>4, <2>7 DEF Entry, lvars
    <3>3. \/ pc'[u] = pc[u] \/ <<pc[u], pc'[u]>> \in {<<"target", "to">>, <<"put", "done">>}
      BY <2>2, <2>3, <2>7
    <3> QED  BY <3>1, <3>2, <3>3 DEF WrittenTo
  <2>8. Newest'  BY <1>3, <2>4 DEF LogOrdered, Newest, lvars, InLog, SlotOfClaim
  <2>9. ASSUME NEW i \in 1 .. Len(claims), InLog(i)
        PROVE  \/ log_entry[SlotOfClaim(i)].debug_id = claims[i]
               \/ \E u \in Tasks : /\ pc'[u] \in {"reset", "debug_id"}
                                   /\ txn'[u].id = claims[i] /\ txn'[u].slot = SlotOfClaim(i)
    <3>1. \A u \in Tasks : pc[u] \in {"reset", "debug_id"} => u # t
      OBVIOUS
    <3> QED  BY <1>3, <2>2, <2>9, <3>1 DEF LogOrdered, Recorded
  <2>10. Recorded'  BY <2>9 DEF Recorded, lvars, InLog, SlotOfClaim
  <2> QED  BY <2>5, <2>6, <2>7, <2>8, <2>10 DEF LogOrdered, Progress
<1> QED  BY <1>1, <1>2, <1>3 DEF LInv, lvars

LEMMA AllTheSame ==
  ASSUME LInv, UNCHANGED <<lvars, pc, txn>>, binder_last_id' \in Nat
  PROVE  LInv'
<1>1. LogTypes' /\ FullExact'  BY DEF LInv, LogTypes, FullExact, lvars
<1>2. ASSUME LogOrdered  PROVE LogOrdered'
  BY <1>2 DEF LogOrdered, Apart, AllWhole, Progress, Newest, Recorded, Writing, Entry, lvars,
              InLog, SlotOfClaim
<1> QED  BY <1>1, <1>2 DEF LInv, lvars

(* A write to the entry of a task, all but the last one.                    *)
LEMMA WriteKeeps ==
  ASSUME LInv, NEW t \in Tasks, Writing(t), NEW e \in Entries, NEW to,
         log_entry' = [log_entry EXCEPT ![txn[t].slot] = e],
         pc' = [pc EXCEPT ![t] = to],
         UNCHANGED <<log_cur, log_full, claims, overrun, binder_last_id, txn>>,
         to \in {"debug_id", "from", "target", "put", "oopsHolding"}, pc[t] # "debug_id" \/ to # "debug_id",
         LogOrdered =>
           /\ Whole(e) /\ WrittenTo(to, e, txn[t].id)
           /\ e.debug_id = txn[t].id \/ to = "debug_id"
  PROVE  LInv'
<1>1. LogTypes'  BY DEF LInv, LogTypes
<1>2. FullExact'  BY DEF LInv, FullExact
<1>3. ASSUME LogOrdered  PROVE LogOrdered'
  <2> DEFINE s == txn[t].slot
  <2>1. /\ DOMAIN pc = Tasks /\ txn \in [Tasks -> Txns] /\ s \in Slots
        /\ log_entry \in [Slots -> Entries]
    BY DEF LInv, LogTypes, Txns
  <2>2. /\ \A u \in Tasks : u # t => pc'[u] = pc[u]
        /\ pc'[t] = to
        /\ \A u \in Tasks : Writing(u)' => Writing(u)
    BY <2>1 DEF Writing
  <2>3. log_entry'[s] = e /\ \A r \in Slots : r # s => log_entry'[r] = log_entry[r]
    BY <2>1
  <2>4. Apart'  BY <1>3, <2>2 DEF LogOrdered, Apart
  <2>5. AllWhole'  BY <1>3, <2>3 DEF LogOrdered, AllWhole
  <2>6. ASSUME NEW u \in Tasks, Writing(u)'  PROVE WrittenTo(pc[u], Entry(u), txn[u].id)'
    <3>1. CASE u = t  BY <1>3, <2>2, <2>3, <3>1 DEF Entry, WrittenTo
    <3>2. CASE u # t
      <4>1. txn[u].slot \in Slots /\ txn[u].slot # s
        BY <1>3, <2>1, <2>2, <2>6, <3>2 DEF LogOrdered, Apart, Txns
      <4>2. Entry(u)' = Entry(u)  BY <2>3, <4>1 DEF Entry
      <4>3. WrittenTo(pc[u], Entry(u), txn[u].id)
        BY <1>3, <2>2, <2>6 DEF LogOrdered, Progress
      <4> QED  BY <2>2, <3>2, <4>2, <4>3 DEF WrittenTo
    <3> QED  BY <3>1, <3>2
  <2>7. Newest'  BY <1>3, <2>2 DEF LogOrdered, Newest, InLog, SlotOfClaim
  <2>8. ASSUME NEW i \in 1 .. Len(claims), InLog(i)
        PROVE  \/ log_entry'[SlotOfClaim(i)].debug_id = claims[i]
               \/ \E u \in Tasks : /\ pc'[u] \in {"reset", "debug_id"}
                                   /\ txn[u].id = claims[i] /\ txn[u].slot = SlotOfClaim(i)
    <3>1. SlotOfClaim(i) \in Slots
      BY SlotTyped DEF SlotOfClaim, LInv, LogTypes
    <3>2. CASE SlotOfClaim(i) = s
      <4>1. claims[i] = txn[t].id
        BY <1>3, <2>8, <3>2 DEF LogOrdered, Newest
      <4> QED  BY <1>3, <2>2, <2>3, <3>2, <4>1
    <3>3. CASE SlotOfClaim(i) # s
      BY <1>3, <2>2, <2>3, <2>8, <3>1, <3>3 DEF LogOrdered, Recorded
    <3> QED  BY <3>2, <3>3
  <2>9. Recorded'  BY <2>8 DEF Recorded, InLog, SlotOfClaim
  <2> QED  BY <2>4, <2>5, <2>6, <2>7, <2>9 DEF LogOrdered, Progress
<1> QED  BY <1>1, <1>2, <1>3 DEF LInv

LEMMA EntryTyped ==
  ASSUME LInv, NEW t \in Tasks
  PROVE  Entry(t) \in Entries /\ txn[t].id \in Nat /\ txn[t].slot \in Slots
BY DEF LInv, LogTypes, Txns, Entry

LEMMA WritesKeepLog ==
  ASSUME LInv, NEW t \in Tasks, ResetEntry(t) \/ LogId(t) \/ LogFrom(t) \/ LogTo(t)
  PROVE  LInv'
<1>1. PICK en \in Entries, id \in Nat : en = Entry(t) /\ id = txn[t].id
  BY EntryTyped
<1>2. LogOrdered /\ Writing(t) => Whole(en) /\ WrittenTo(pc[t], en, id)
  BY <1>1, EntryTyped DEF LogOrdered, AllWhole, Progress, Entry
<1>3. CASE ResetEntry(t)
  <2>1. Blank \in Entries  BY DEF Blank, Entries
  <2>2. Writing(t)  BY <1>3 DEF ResetEntry, At, Writing
  <2>3. Whole(Blank) /\ WrittenTo("debug_id", Blank, id)  BY DEF Blank, Whole, WrittenTo
  <2> QED  BY <1>1, <1>3, <2>1, <2>2, <2>3, WriteKeeps DEF ResetEntry, At, WriteEntry
<1>4. CASE LogId(t)
  <2>1. PICK e \in Entries : e = [en EXCEPT !.debug_id = id]  BY <1>1 DEF Entries
  <2>2. Writing(t) /\ pc[t] = "debug_id"  BY <1>4 DEF LogId, At, Writing
  <2>3. LogOrdered => Whole(e) /\ WrittenTo("from", e, id) /\ e.debug_id = id
    BY <1>2, <2>1, <2>2 DEF Whole, WrittenTo, Entries
  <2> QED  BY <1>1, <1>4, <2>1, <2>2, <2>3, WriteKeeps DEF LogId, At, WriteEntry
<1>5. CASE LogFrom(t)
  <2>1. PICK e \in Entries : e = [en EXCEPT !.from = id]  BY <1>1 DEF Entries
  <2>2. Writing(t) /\ pc[t] = "from"  BY <1>5 DEF LogFrom, At, Writing
  <2>3. LogOrdered => Whole(e) /\ WrittenTo("target", e, id) /\ e.debug_id = id
    BY <1>2, <2>1, <2>2 DEF Whole, WrittenTo, Entries
  <2> QED  BY <1>1, <1>5, <2>1, <2>2, <2>3, WriteKeeps DEF LogFrom, At, WriteEntry
<1>6. CASE LogTo(t)
  <2>1. PICK e \in Entries : e = [en EXCEPT !.to = id]  BY <1>1 DEF Entries
  <2>2. Writing(t) /\ pc[t] = "to"  BY <1>6 DEF LogTo, At, Writing
  <2>3. PICK to \in {"put", "oopsHolding"} : At(t, "to", to)  BY <1>6 DEF LogTo
  <2>4. LogOrdered => Whole(e) /\ WrittenTo(to, e, id) /\ e.debug_id = id
    BY <1>2, <2>1, <2>2, <2>3 DEF Whole, WrittenTo, Entries
  <2> QED  BY <1>1, <1>6, <2>1, <2>2, <2>3, <2>4, WriteKeeps DEF LogTo, At, WriteEntry
<1> QED  BY <1>3, <1>4, <1>5, <1>6

(* The mark that the entry is complete.                                     *)
LEMMA DoneKeepsLog ==
  ASSUME LInv, NEW t \in Tasks, LogDone(t)
  PROVE  LInv'
<1> DEFINE s == txn[t].slot
<1>1. PICK en \in Entries, id \in Nat : en = Entry(t) /\ id = txn[t].id
  BY EntryTyped
<1>2. PICK e \in Entries : e = [en EXCEPT !.done = id]  BY <1>1 DEF Entries
<1>3. /\ pc' = [pc EXCEPT ![t] = "cmd"] /\ pc[t] = "done" /\ Writing(t)
      /\ log_entry' = [log_entry EXCEPT ![s] = e]
      /\ txn' = [txn EXCEPT ![t] = NoTxn]
      /\ UNCHANGED <<log_cur, log_full, claims, overrun, binder_last_id>>
  BY <1>1, <1>2 DEF LogDone, At, WriteEntry, Writing
<1>4. /\ DOMAIN pc = Tasks /\ txn \in [Tasks -> Txns] /\ s \in Slots
      /\ log_entry \in [Slots -> Entries]
  BY DEF LInv, LogTypes, Txns
<1>5. LogTypes'
  <2>1. NoTxn \in Txns  BY BinderConstants DEF NoTxn, Txns, Commands, Slots
  <2> QED  BY <1>3, <1>4, <2>1 DEF LInv, LogTypes
<1>6. FullExact'  BY <1>3 DEF LInv, FullExact
<1>7. ASSUME LogOrdered  PROVE LogOrdered'
  <2>1. \A u \in Tasks : /\ u # t => pc'[u] = pc[u] /\ txn'[u] = txn[u]
                         /\ Writing(u)' <=> Writing(u) /\ u # t
    BY <1>3, <1>4 DEF Writing
  <2>2. log_entry'[s] = e /\ \A r \in Slots : r # s => log_entry'[r] = log_entry[r]
    BY <1>3, <1>4
  <2>3. WrittenTo("done", en, id)
    BY <1>1, <1>3, <1>7 DEF LogOrdered, Progress
  <2>4. Whole(e) /\ e.debug_id = id
    BY <1>2, <2>3 DEF Whole, WrittenTo, Entries
  <2>5. Apart'  BY <1>7, <2>1 DEF LogOrdered, Apart
  <2>6. AllWhole'  BY <1>7, <2>2, <2>4 DEF LogOrdered, AllWhole
  <2>7. ASSUME NEW u \in Tasks, Writing(u)'  PROVE WrittenTo(pc[u], Entry(u), txn[u].id)'
    <3>1. u # t /\ Writing(u) /\ pc'[u] = pc[u] /\ txn'[u] = txn[u]  BY <2>1, <2>7
    <3>2. txn[u].slot \in Slots /\ txn[u].slot # s
      BY <1>3, <1>4, <1>7, <3>1 DEF LogOrdered, Apart, Txns
    <3>3. Entry(u)' = Entry(u)  BY <2>2, <3>1, <3>2 DEF Entry
    <3>4. WrittenTo(pc[u], Entry(u), txn[u].id)
      BY <1>7, <3>1 DEF LogOrdered, Progress
    <3> QED  BY <3>1, <3>3, <3>4 DEF WrittenTo
  <2>8. Newest'  BY <1>3, <1>7, <2>1 DEF LogOrdered, Newest, InLog, SlotOfClaim
  <2>9. ASSUME NEW i \in 1 .. Len(claims), InLog(i)
        PROVE  \/ log_entry'[SlotOfClaim(i)].debug_id = claims[i]
               \/ \E u \in Tasks : /\ pc'[u] \in {"reset", "debug_id"}
                                   /\ txn'[u].id = claims[i] /\ txn'[u].slot = SlotOfClaim(i)
    <3>1. SlotOfClaim(i) \in Slots
      BY SlotTyped DEF SlotOfClaim, LInv, LogTypes
    <3>2. CASE SlotOfClaim(i) = s
      <4>1. claims[i] = id
        BY <1>1, <1>3, <1>7, <2>9, <3>2 DEF LogOrdered, Newest
      <4> QED  BY <2>2, <2>4, <3>2, <4>1
    <3>3. CASE SlotOfClaim(i) # s
      BY <1>3, <1>7, <2>1, <2>2, <2>9, <3>1, <3>3 DEF LogOrdered, Recorded
    <3> QED  BY <3>2, <3>3
  <2>10. Recorded'  BY <1>3, <2>9 DEF Recorded, InLog, SlotOfClaim
  <2> QED  BY <2>5, <2>6, <2>7, <2>8, <2>10 DEF LogOrdered, Progress
<1> QED  BY <1>3, <1>5, <1>6, <1>7 DEF LInv

(* The atomic increment: the new claim is the last in the log, and another  *)
(* one drops out of it.                                                     *)
LEMMA ClaimKeepsLog ==
  ASSUME LInv, NEW t \in Tasks, ClaimEntry(t)
  PROVE  LInv'
<1> DEFINE n == Len(claims)
           s == n % LogSize
           id == txn[t].id
<1>1. /\ DOMAIN pc = Tasks /\ txn \in [Tasks -> Txns] /\ claims \in Seq(Nat)
      /\ log_entry \in [Slots -> Entries] /\ n \in Nat /\ id \in Nat /\ s \in Slots
      /\ LogSize \in Nat \ {0} /\ log_cur = n - 1
  <2>1. n \in Nat  BY DEF LInv, LogTypes
  <2>2. s \in Slots  BY <2>1, SlotTyped
  <2> QED  BY <2>1, <2>2, BinderConstants DEF LInv, LogTypes, Txns
<1>2. /\ pc' = [pc EXCEPT ![t] = "reset"] /\ pc[t] = "claim" /\ ~Writing(t)
      /\ txn' = [txn EXCEPT ![t].slot = s] /\ claims' = Append(claims, id)
      /\ log_cur' = n /\ UNCHANGED <<log_entry, binder_last_id>>
  BY <1>1 DEF ClaimEntry, At, SlotOf, Writing
<1>3. /\ \A u \in Tasks : u # t => txn'[u] = txn[u] /\ pc'[u] = pc[u]
      /\ txn'[t].slot = s /\ txn'[t].id = id /\ pc'[t] = "reset"
      /\ txn' \in [Tasks -> Txns]
  BY <1>1, <1>2 DEF Txns
<1>4. /\ claims' \in Seq(Nat) /\ Len(claims') = n + 1 /\ claims'[n + 1] = id
      /\ \A i \in 1 .. n : claims'[i] = claims[i]
  BY <1>1, <1>2
<1>5. LogTypes'
  BY <1>1, <1>2, <1>3, <1>4 DEF LInv, LogTypes
<1>6. FullExact'
  <2>1. log_full \in BOOLEAN /\ (log_full <=> n > LogSize)  BY DEF LInv, FullExact
  <2>2. log_full' = (log_full \/ Full(log_cur'))  BY DEF ClaimEntry
  <2>3. log_full' \in BOOLEAN /\ (log_full' <=> log_full \/ Full(log_cur'))  BY <2>2, Zenon
  <2>4. Full(log_cur') <=> n >= LogSize  BY <1>2 DEF Full
  <2>5. log_full' <=> n + 1 > LogSize  BY <1>1, <2>1, <2>3, <2>4
  <2> QED  BY <1>4, <2>3, <2>5 DEF FullExact
<1>7. ASSUME LogOrdered, ~(\E u \in Tasks \ {t} : Writing(u) /\ txn[u].slot = s)
      PROVE  LogOrdered'
  <2>1. \A u \in Tasks : Writing(u)' <=> Writing(u) \/ u = t
    BY <1>1, <1>2 DEF Writing
  <2>2. Apart'  BY <1>3, <1>7, <2>1 DEF LogOrdered, Apart
  <2>3. AllWhole'  BY <1>2, <1>7 DEF LogOrdered, AllWhole
  <2>4. ASSUME NEW u \in Tasks, Writing(u)'  PROVE WrittenTo(pc[u], Entry(u), txn[u].id)'
    <3>1. CASE u = t  BY <1>3, <3>1 DEF WrittenTo
    <3>2. CASE u # t
      <4>1. WrittenTo(pc[u], Entry(u), txn[u].id)
        BY <1>7, <2>1, <2>4, <3>2 DEF LogOrdered, Progress
      <4> QED  BY <1>2, <1>3, <3>2, <4>1 DEF Entry, WrittenTo
    <3> QED  BY <3>1, <3>2
  <2>5. ASSUME NEW i \in 1 .. n, i > (n + 1) - LogSize  PROVE SlotOfClaim(i) # s
    <3>1. n + 1 \in Nat /\ i \in 1 .. (n + 1) /\ n + 1 \in 1 .. (n + 1) /\ i # n + 1
          /\ n + 1 > (n + 1) - LogSize
      BY <1>1
    <3>2. SlotOfClaim(i) # SlotOfClaim(n + 1)
      BY ONLY <2>5, <3>1, SlotsApart
    <3>3. SlotOfClaim(n + 1) = s  BY <1>1 DEF SlotOfClaim
    <3> QED  BY <3>2, <3>3
  <2>6. \A i \in 1 .. n : i > (n + 1) - LogSize => InLog(i)
    BY <1>1 DEF InLog
  <2>7. SlotOfClaim(n + 1) = s  BY <1>1 DEF SlotOfClaim
  <2>8. ASSUME NEW u \in Tasks, Writing(u)', NEW i \in 1 .. (n + 1), i > (n + 1) - LogSize,
               SlotOfClaim(i) = txn'[u].slot
        PROVE  claims'[i] = txn'[u].id
    <3>1. CASE u = t
      <4>1. i = n + 1  BY <1>1, <1>3, <2>5, <2>8, <3>1
      <4> QED  BY <1>3, <1>4, <3>1, <4>1
    <3>2. CASE u # t
      <4>1. Writing(u) /\ txn'[u] = txn[u] /\ txn[u].slot # s
        BY <1>3, <1>7, <2>1, <2>8, <3>2
      <4>2. i \in 1 .. n  BY <1>1, <2>7, <2>8, <4>1
      <4>3. claims[i] = txn[u].id
        BY <1>7, <2>6, <2>8, <4>1, <4>2 DEF LogOrdered, Newest
      <4> QED  BY <1>4, <4>1, <4>2, <4>3
    <3> QED  BY <3>1, <3>2
  <2>9. Newest'
    BY <1>4, <2>8 DEF Newest, InLog, SlotOfClaim
  <2>10. ASSUME NEW i \in 1 .. (n + 1), i > (n + 1) - LogSize
         PROVE  \/ log_entry[SlotOfClaim(i)].debug_id = claims'[i]
                \/ \E u \in Tasks : /\ pc'[u] \in {"reset", "debug_id"}
                                    /\ txn'[u].id = claims'[i] /\ txn'[u].slot = SlotOfClaim(i)
    <3>1. CASE i = n + 1  BY <1>3, <1>4, <2>7, <3>1
    <3>2. CASE i \in 1 .. n
      <4>1. \/ log_entry[SlotOfClaim(i)].debug_id = claims[i]
            \/ \E u \in Tasks : /\ pc[u] \in {"reset", "debug_id"}
                                /\ txn[u].id = claims[i] /\ txn[u].slot = SlotOfClaim(i)
        BY <1>7, <2>6, <2>10, <3>2 DEF LogOrdered, Recorded
      <4>2. \A u \in Tasks : pc[u] \in {"reset", "debug_id"} => u # t  BY <1>2
      <4> QED  BY <1>3, <1>4, <3>2, <4>1, <4>2
    <3> QED  BY <1>1, <3>1, <3>2
  <2>11. Recorded'
    BY <1>2, <1>4, <2>10 DEF Recorded, InLog, SlotOfClaim
  <2> QED  BY <2>2, <2>3, <2>4, <2>9, <2>11 DEF LogOrdered, Progress
<1>8. overrun' <=> overrun \/ \E u \in Tasks \ {t} : Writing(u) /\ txn[u].slot = s
  <2>1. overrun' = (overrun \/ \E u \in Tasks \ {t} : Writing(u) /\ txn[u].slot = SlotOf(log_cur'))
    BY DEF ClaimEntry
  <2>2. overrun' <=> overrun \/ \E u \in Tasks \ {t} : Writing(u) /\ txn[u].slot = SlotOf(log_cur')
    BY <2>1, Zenon
  <2> QED  BY <1>2, <2>2 DEF SlotOf
<1> QED  BY <1>5, <1>6, <1>7, <1>8 DEF LInv

LEMMA NewIdKeepsLog ==
  ASSUME LInv, NEW t \in Tasks, NewId(t)
  PROVE  LInv'
<1>1. binder_last_id \in Nat /\ txn \in [Tasks -> Txns]  BY DEF LInv, LogTypes
<1>2. /\ UNCHANGED lvars /\ pc' = [pc EXCEPT ![t] = "claim"] /\ pc[t] = "id"
      /\ txn' = [txn EXCEPT ![t].id = binder_last_id + 1] /\ binder_last_id' = binder_last_id + 1
  BY DEF NewId, At
<1>3. txn' \in [Tasks -> Txns] /\ \A u \in Tasks \ {t} : txn'[u] = txn[u]
  BY <1>1, <1>2 DEF Txns
<1>4. binder_last_id' \in Nat /\ pc[t] \notin {"reset", "debug_id"}  BY <1>1, <1>2
<1> QED  BY <1>2, <1>3, <1>4, AwayFromLog

LEMMA ThreadWriteKeepsLog ==
  ASSUME LInv, NEW t \in Tasks, ThreadWrite(t)
  PROVE  LInv'
<1>1. /\ binder_last_id \in Nat /\ txn \in [Tasks -> Txns]
      /\ UNCHANGED <<lvars, binder_last_id>> /\ pc[t] = "cmd"
  BY DEF ThreadWrite, LInv, LogTypes
<1>2. CASE pc' = [pc EXCEPT ![t] = "user"] /\ UNCHANGED txn
  BY <1>1, <1>2, AwayFromLog
<1>3. CASE UNCHANGED <<pc, txn>>
  BY <1>1, <1>3, AllTheSame
<1>4. CASE /\ pc' = [pc EXCEPT ![t] = "id"] /\ Command(t) \in {"TRANSACTION_0", "NO_TARGET"}
           /\ txn' = [txn EXCEPT ![t] = [NoTxn EXCEPT !.cmd = Command(t)]]
  <2>1. [NoTxn EXCEPT !.cmd = Command(t)] \in Txns
    BY <1>4, BinderConstants DEF NoTxn, Txns, Commands, Slots
  <2>2. txn' \in [Tasks -> Txns] /\ \A u \in Tasks \ {t} : txn'[u] = txn[u]
    BY <1>1, <1>4, <2>1
  <2> QED  BY <1>1, <1>4, <2>2, AwayFromLog
<1> QED  BY <1>2, <1>3, <1>4 DEF ThreadWrite, NextCommand

LEMMA OthersKeepLog ==
  ASSUME LInv, NEW t \in Tasks,
         \/ \E buf \in Buffers : IoctlWriteRead(t, buf)
         \/ GetTarget(t) \/ PutNode(t)
  PROVE  LInv'
<1>1. /\ binder_last_id \in Nat /\ txn \in [Tasks -> Txns] /\ DOMAIN pc = Tasks
  BY DEF LInv, LogTypes
<1>2. UNCHANGED <<lvars, txn, binder_last_id>>
  BY DEF IoctlWriteRead, GetTarget, PutNode
<1>3. ASSUME NEW buf \in Buffers, IoctlWriteRead(t, buf)  PROVE LInv'
  BY <1>1, <1>2, <1>3, AwayFromLog DEF IoctlWriteRead, InDriver
<1>4. CASE GetTarget(t)
  BY <1>1, <1>2, <1>4, AwayFromLog DEF GetTarget, At, Writing
<1>5. CASE PutNode(t)
  BY <1>1, <1>2, <1>5, AwayFromLog DEF PutNode, At, Writing
<1> QED  BY <1>3, <1>4, <1>5

LEMMA StepKeepsLog == LInv /\ [Next]_vars => LInv'
<1> SUFFICES ASSUME LInv, [Next]_vars  PROVE LInv'  OBVIOUS
<1>1. ASSUME NEW p \in Procs, \/ Open(p) \/ Munmap(p) \/ Exit(p)
                             \/ \E size \in MapSizes : Mmap(p, size)
      PROVE  LInv'
  <2>1. UNCHANGED <<lvars, pc, txn, binder_last_id>>  BY <1>1 DEF Open, Munmap, Exit, Mmap
  <2> QED  BY <2>1, AllTheSame DEF LInv, LogTypes
<1>2. ASSUME NEW t \in Tasks, IoctlSetContextMgr(t)  PROVE LInv'
  <2>1. UNCHANGED <<lvars, pc, txn>>  BY <1>2 DEF IoctlSetContextMgr
  <2>2. binder_last_id' \in Nat
    BY <1>2 DEF IoctlSetContextMgr, SetContextMgr, LInv, LogTypes
  <2> QED  BY <2>1, <2>2, AllTheSame
<1>3. ASSUME NEW t \in Tasks, \/ ThreadWrite(t) \/ Transaction(t)
                             \/ \E buf \in Buffers : IoctlWriteRead(t, buf)
      PROVE  LInv'
  BY <1>3, ThreadWriteKeepsLog, NewIdKeepsLog, ClaimKeepsLog, WritesKeepLog, DoneKeepsLog,
     OthersKeepLog DEF Transaction
<1>4. CASE UNCHANGED vars
  BY <1>4, AllTheSame DEF vars, LInv, LogTypes
<1> QED  BY <1>1, <1>2, <1>3, <1>4 DEF Next

(* binder_transaction_log_add hands the last LogSize transactions an entry  *)
(* each, full says whether one was dropped, and an entry marked complete    *)
(* was written by one transaction throughout: for any number of tasks, any  *)
(* size of the log, and in any interleaving of their writes, up to the      *)
(* first time that an entry is handed out while it is still written.        *)
THEOREM LogIsExact == Spec => []LogExact
<1>1. LInv => LogExact
  <2> SUFFICES ASSUME LInv  PROVE LogExact  OBVIOUS
  <2>1. log_full = (Len(claims) > LogSize)  BY DEF LInv, FullExact
  <2>2. ASSUME LogOrdered, NEW s \in 0 .. (LogSize - 1)
        PROVE  LET e == log_entry[s] IN
               e.done = e.debug_id /\ e.done # 0 => e.from = e.done /\ e.to = e.done
    BY <2>2 DEF LogOrdered, AllWhole, Whole, Slots
  <2>3. ASSUME LogOrdered, NEW i \in 1 .. Len(claims), i > Len(claims) - LogSize
        PROVE  \/ log_entry[(i - 1) % LogSize].debug_id = claims[i]
               \/ \E t \in Tasks : txn[t].id = claims[i] /\ pc[t] \in {"reset", "debug_id"}
    BY <2>3 DEF LogOrdered, Recorded, InLog, SlotOfClaim
  <2> QED  BY <2>1, <2>2, <2>3 DEF LInv, LogExact
<1> QED  BY <1>1, LogInit, StepKeepsLog, PTL DEF Spec
=============================================================================

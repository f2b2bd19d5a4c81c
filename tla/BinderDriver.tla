---------------------------- MODULE BinderDriver ----------------------------
(***************************************************************************)
(* The binder driver (common/drivers/staging/binder/binder.c and, for the   *)
(* mapping, binder_alloc.c) as the repository has it: processes that open   *)
(* one device, map it and call ioctl, and transactions up to the point      *)
(* where binder_transaction is commented out.                               *)
(*                                                                         *)
(* A process opens the device once; a task in an ioctl is at a step of the  *)
(* code, and a step is an atomic instruction, one group of writes to a      *)
(* shared log entry, or what happens under one lock.                        *)
(***************************************************************************)
EXTENDS Integers, Sequences, FiniteSets

CONSTANTS
  Procs, Tasks,
  Process,           \* the process of each task
  Euid,              \* the effective user of each process
  Buffers,           \* the command buffers passed to BINDER_WRITE_READ
  LogSize,           \* ARRAY_SIZE(log->entry)
  MapSizes,          \* the sizes mmap is called with
  SZ_4M,
  MaxTransactions    \* bound on the transactions

Commands == {"TRANSACTION_0",  \* BC_TRANSACTION to handle 0, the context manager
             "NO_TARGET",      \* BC_TRANSACTION to another handle, or BC_REPLY
             "OTHER",          \* any word that is not one of these
             "FAULT"}          \* what cannot be copied from the user

ASSUME BinderConstants ==
  /\ IsFiniteSet(Tasks)
  /\ \A t \in Tasks : Process[t] \in Procs
  /\ Buffers \subseteq Seq(Commands)
  /\ LogSize \in Nat \ {0} /\ MapSizes \subseteq Nat \ {0} /\ SZ_4M \in Nat \ {0}
  /\ MaxTransactions \in Nat
ASSUME NoneIsNoOne == "none" \notin Procs /\ \A p \in Procs : Euid[p] # "none"

VARIABLES
  opened,            \* processes: not yet "closed", "open", or "gone"
  threads,           \* the tasks that have a binder_thread
  binder_last_id,
  context,           \* binder_context: the manager's node and its user
  node,              \* that node: its counts, has_strong_ref and has_weak_ref, node->work
  tmp_ref,           \* binder_proc.tmp_ref
  log_cur, log_full, log_entry,
  alloc,             \* binder_alloc: [buffer_size, vma, free]
  pc, cmds,          \* tasks: the next step or the death, and what is left of the buffer
  txn,               \* a task's transaction: its id and its log entry
  transactions,      \* binder_transactions created, and never deleted
  claims,            \* the transactions in the order they got log entries (history)
  overrun            \* a log entry was given to two transactions at once (history)

NoContext == [mgr |-> "none", uid |-> "none"]
NoRefs == [local_strong |-> 0, local_weak |-> 0, tmp |-> 0, has |-> FALSE, queued |-> FALSE]
Blank == [debug_id |-> 0, from |-> 0, to |-> 0, done |-> 0]
NoTxn == [id |-> 0, slot |-> 0, cmd |-> "OTHER"]
Unmapped == [buffer_size |-> 0, vma |-> FALSE, free |-> {}]

fvars == <<opened, alloc>>
lvars == <<log_cur, log_full, log_entry, claims, overrun>>
nvars == <<context, node, tmp_ref>>
vars == <<fvars, lvars, nvars, threads, binder_last_id, pc, cmds, txn, transactions>>

Init ==
  /\ opened = [p \in Procs |-> "closed"]
  /\ threads = {}
  /\ binder_last_id = 0
  /\ context = NoContext
  /\ node = NoRefs
  /\ tmp_ref = [p \in Procs |-> 0]
  /\ log_cur = -1                        \* ~0U
  /\ log_full = FALSE
  /\ log_entry = [s \in 0 .. (LogSize - 1) |-> Blank]
  /\ alloc = [p \in Procs |-> Unmapped]
  /\ pc = [t \in Tasks |-> "user"]
  /\ cmds = [t \in Tasks |-> <<>>]
  /\ txn = [t \in Tasks |-> NoTxn]
  /\ transactions = 0
  /\ claims = <<>>
  /\ overrun = FALSE

-----------------------------------------------------------------------------
(* binder_open, binder_mmap, and what the end of a process does to them:    *)
(* the mapping is closed, but binder_fops has no release, so the process    *)
(* and everything it has in the driver stay.                                *)
Open(p) ==
  /\ opened[p] = "closed"
  /\ opened' = [opened EXCEPT ![p] = "open"]
  /\ UNCHANGED <<alloc, lvars, nvars, threads, binder_last_id, pc, cmds, txn, transactions>>

Smaller(a, b) == IF a < b THEN a ELSE b

MmapFails(p, size) == alloc' = [alloc EXCEPT ![p] = Unmapped]

(* binder_alloc_mmap_handler: once only, and with one free buffer in the    *)
(* whole of the mapping; a failed allocation takes everything back. The     *)
(* kernel lets one thread of a process map at a time.                       *)
Mmap(p, size) ==
  /\ opened[p] = "open"
  /\ alloc[p].buffer_size = 0
  /\ \/ LET bytes == Smaller(size, SZ_4M)
        IN  alloc' = [alloc EXCEPT ![p] = [buffer_size |-> bytes, vma |-> TRUE,
                                           free |-> {<<0, bytes>>}]]
     \/ MmapFails(p, size)
  /\ UNCHANGED <<opened, lvars, nvars, threads, binder_last_id, pc, cmds, txn, transactions>>

Munmap(p) ==                 \* binder_vma_close
  /\ alloc[p].vma
  /\ alloc' = [alloc EXCEPT ![p].vma = FALSE]
  /\ UNCHANGED <<opened, lvars, nvars, threads, binder_last_id, pc, cmds, txn, transactions>>

(* A task killed in the driver: where there was no target, or later, where  *)
(* it had the references on the node and on the node's process.             *)
Killed(t) == pc[t] \in {"oops", "oopsHolding"}

Exit(p) ==
  /\ opened[p] = "open"
  /\ \A t \in Tasks : Process[t] = p => pc[t] = "user" \/ Killed(t)
  /\ opened' = [opened EXCEPT ![p] = "gone"]
  /\ alloc' = [alloc EXCEPT ![p].vma = FALSE]
  /\ UNCHANGED <<lvars, nvars, threads, binder_last_id, pc, cmds, txn, transactions>>

-----------------------------------------------------------------------------
(* The counts of a node.                                                    *)

(* binder_inc_node_nilocked for a strong reference of the driver itself.    *)
IncStrong(n) == [n EXCEPT !.local_strong = @ + 1]

(* Bug: the reference of the transaction itself is not counted.             *)
GetRefsNoTmp(n) == IncStrong(n)

GetRefs(n) == [IncStrong(n) EXCEPT !.tmp = @ + 1]

(* binder_dec_node_tmpref. When it took the last reference of a node that   *)
(* its process still has, the work that tells the process is queued.        *)
DecTmpRef(n) ==
  [n EXCEPT !.tmp = @ - 1,
            !.queued = @ \/ (n.local_weak = 0 /\ n.tmp = 1 /\ n.has)]

(* Bug: the manager's node is put before it has references of its own.      *)
NewManagerNodePutFirst ==
  [DecTmpRef([local_strong |-> 0, local_weak |-> 0, tmp |-> 1, has |-> TRUE, queued |-> FALSE])
     EXCEPT !.local_strong = 1, !.local_weak = 1]

(* binder_new_node takes a temporary reference of its own; the manager's    *)
(* node gets those it keeps for good, and binder_put_node follows.          *)
NewManagerNode ==
  DecTmpRef([local_strong |-> 1, local_weak |-> 1, tmp |-> 1, has |-> TRUE, queued |-> FALSE])

-----------------------------------------------------------------------------
(* binder_ioctl. The first call of a task makes its binder_thread.          *)
InDriver(t) == opened[Process[t]] = "open" /\ pc[t] = "user"
GetThread(t) == threads' = threads \cup {t}

(* Bug: any user may become manager.                                        *)
SetContextMgrAnyUser(t) ==
  LET p == Process[t] IN
  /\ context.mgr = "none"
  /\ \/ /\ context' = [context EXCEPT !.uid = Euid[p]]
        /\ UNCHANGED <<node, binder_last_id>>
     \/ /\ context' = [mgr |-> p, uid |-> Euid[p]]
        /\ node' = NewManagerNode
        /\ binder_last_id' = binder_last_id + 1

(* binder_ioctl_set_ctx_mgr, under context_mgr_node_lock: refused if there  *)
(* is a manager (-EBUSY) or another user was accepted before (-EPERM). The  *)
(* user is noted before the node is allocated, which may fail.              *)
SetContextMgr(t) ==
  LET p == Process[t] IN
  /\ context.mgr = "none"
  /\ context.uid \in {"none", Euid[p]}
  /\ \/ /\ context' = [context EXCEPT !.uid = Euid[p]]
        /\ UNCHANGED <<node, binder_last_id>>
     \/ /\ context' = [mgr |-> p, uid |-> Euid[p]]
        /\ node' = NewManagerNode
        /\ binder_last_id' = binder_last_id + 1

Refused(t) == context.mgr # "none" \/ context.uid \notin {"none", Euid[Process[t]]}

IoctlSetContextMgr(t) ==
  /\ InDriver(t)
  /\ GetThread(t)
  /\ SetContextMgr(t) \/ (Refused(t) /\ UNCHANGED <<context, node, binder_last_id>>)
  /\ UNCHANGED <<fvars, lvars, tmp_ref, pc, cmds, txn, transactions>>

(* BINDER_WRITE_READ: binder_thread_write takes the commands in turn. What  *)
(* it has consumed is not stored, and nothing is read.                      *)
IoctlWriteRead(t, buf) ==
  /\ InDriver(t)
  /\ Len(claims) < MaxTransactions
  /\ GetThread(t)
  /\ pc' = [pc EXCEPT ![t] = "cmd"]
  /\ cmds' = [cmds EXCEPT ![t] = buf]
  /\ UNCHANGED <<fvars, lvars, nvars, binder_last_id, txn, transactions>>

Command(t) == IF cmds[t] = <<>> THEN "END" ELSE Head(cmds[t])

NextCommand(t) ==
  \/ /\ Command(t) \in {"END", "FAULT"}
     /\ pc' = [pc EXCEPT ![t] = "user"]
     /\ cmds' = [cmds EXCEPT ![t] = <<>>]
     /\ UNCHANGED txn
  \/ /\ Command(t) = "OTHER"
     /\ cmds' = [cmds EXCEPT ![t] = Tail(@)]
     /\ UNCHANGED <<pc, txn>>
  \/ /\ Command(t) \in {"TRANSACTION_0", "NO_TARGET"}
     /\ pc' = [pc EXCEPT ![t] = "id"]
     /\ cmds' = [cmds EXCEPT ![t] = Tail(@)]
     /\ txn' = [txn EXCEPT ![t] = [NoTxn EXCEPT !.cmd = Command(t)]]

ThreadWrite(t) ==
  /\ pc[t] = "cmd"
  /\ NextCommand(t)
  /\ UNCHANGED <<fvars, lvars, nvars, threads, binder_last_id, transactions>>

-----------------------------------------------------------------------------
(* binder_transaction.                                                      *)
At(t, from, to) == pc[t] = from /\ pc' = [pc EXCEPT ![t] = to]

NewId(t) ==                  \* t_debug_id
  /\ At(t, "id", "claim")
  /\ binder_last_id' = binder_last_id + 1
  /\ txn' = [txn EXCEPT ![t].id = binder_last_id + 1]
  /\ UNCHANGED <<fvars, lvars, nvars, threads, cmds, transactions>>

Writing(t) == pc[t] \in {"reset", "debug_id", "from", "target", "to", "put", "done"}

SlotOf(n) == n % LogSize

Full(cur) == cur >= LogSize

(* The atomic increment of binder_transaction_log_add.                      *)
ClaimEntry(t) ==
  /\ At(t, "claim", "reset")
  /\ log_cur' = log_cur + 1
  /\ log_full' = (log_full \/ Full(log_cur'))
  /\ txn' = [txn EXCEPT ![t].slot = SlotOf(log_cur')]
  /\ claims' = Append(claims, txn[t].id)
  /\ overrun' = (overrun \/ \E u \in Tasks \ {t} : Writing(u) /\ txn[u].slot = SlotOf(log_cur'))
  /\ UNCHANGED <<fvars, log_entry, nvars, threads, binder_last_id, cmds, transactions>>

(* The writes to the log entry, in the order of the code: it is cleared,    *)
(* gets its id, its sender, its target, and the mark that it is complete.   *)
WriteEntry(t, e) ==
  /\ log_entry' = [log_entry EXCEPT ![txn[t].slot] = e]
  /\ UNCHANGED <<fvars, log_cur, log_full, claims, overrun, threads, binder_last_id, cmds>>

Entry(t) == log_entry[txn[t].slot]

ResetEntry(t) ==
  /\ At(t, "reset", "debug_id")
  /\ WriteEntry(t, Blank)
  /\ UNCHANGED <<nvars, txn, transactions>>

(* Bug: the entry is marked complete as soon as it has its id.              *)
LogIdDone(t) ==
  /\ At(t, "debug_id", "from")
  /\ WriteEntry(t, [Entry(t) EXCEPT !.debug_id = txn[t].id, !.done = txn[t].id])
  /\ UNCHANGED <<nvars, txn, transactions>>

LogId(t) ==
  /\ At(t, "debug_id", "from")
  /\ WriteEntry(t, [Entry(t) EXCEPT !.debug_id = txn[t].id])
  /\ UNCHANGED <<nvars, txn, transactions>>

LogFrom(t) ==
  /\ At(t, "from", "target")
  /\ WriteEntry(t, [Entry(t) EXCEPT !.from = txn[t].id])
  /\ UNCHANGED <<nvars, txn, transactions>>

HasTarget(t) == txn[t].cmd = "TRANSACTION_0" /\ context.mgr # "none"

(* binder_get_node_refs_for_txn, under context_mgr_node_lock and the locks  *)
(* of the node. Without a target the code reads through a null pointer: the *)
(* task is killed where it is.                                              *)
GetTarget(t) ==
  /\ IF HasTarget(t)
     THEN /\ At(t, "target", "to")
          /\ node' = GetRefs(node)
          /\ tmp_ref' = [tmp_ref EXCEPT ![context.mgr] = @ + 1]
          /\ UNCHANGED context
     ELSE /\ At(t, "target", "oops")
          /\ UNCHANGED nvars
  /\ UNCHANGED <<fvars, lvars, threads, binder_last_id, cmds, txn, transactions>>

(* The transaction and its completion are allocated and never queued. The   *)
(* transaction is used whether or not there was memory for it: without, the *)
(* task is killed with the references it took. A completion that could not  *)
(* be allocated is not used.                                                *)
LogTo(t) ==
  /\ \/ /\ At(t, "to", "put")
        /\ transactions' = transactions + 1
     \/ /\ At(t, "to", "oopsHolding")
        /\ UNCHANGED transactions
  /\ WriteEntry(t, [Entry(t) EXCEPT !.to = txn[t].id])
  /\ UNCHANGED <<nvars, txn>>

PutNode(t) ==
  /\ At(t, "put", "done")
  /\ node' = DecTmpRef(node)
  /\ UNCHANGED <<fvars, lvars, context, tmp_ref, threads, binder_last_id, cmds, txn, transactions>>

LogDone(t) ==
  /\ At(t, "done", "cmd")
  /\ WriteEntry(t, [Entry(t) EXCEPT !.done = txn[t].id])
  /\ txn' = [txn EXCEPT ![t] = NoTxn]
  /\ UNCHANGED <<nvars, transactions>>

Transaction(t) ==
  NewId(t) \/ ClaimEntry(t) \/ ResetEntry(t) \/ LogId(t) \/ LogFrom(t) \/ GetTarget(t)
  \/ LogTo(t) \/ PutNode(t) \/ LogDone(t)

-----------------------------------------------------------------------------
Next ==
  \/ \E p \in Procs : Open(p) \/ Munmap(p) \/ Exit(p) \/ \E size \in MapSizes : Mmap(p, size)
  \/ \E t \in Tasks :
       \/ IoctlSetContextMgr(t)
       \/ \E buf \in Buffers : IoctlWriteRead(t, buf)
       \/ ThreadWrite(t)
       \/ Transaction(t)

Spec == Init /\ [][Next]_vars

-----------------------------------------------------------------------------
(* What becomes of the manager's node: each transaction that has found it   *)
(* and not put it holds one temporary reference, so that it cannot go away  *)
(* under a transaction; and every transaction ever made, or killed for want *)
(* of memory, has left one strong reference on the node and one on its      *)
(* process, which nothing takes back. The killed ones also keep their       *)
(* temporary reference.                                                     *)
RefsExact ==
  LET holding == {t \in Tasks : pc[t] \in {"to", "put", "oopsHolding"}}
      found   == transactions + Cardinality({t \in Tasks : pc[t] \in {"to", "oopsHolding"}})
  IN  \/ context.mgr = "none" /\ node = NoRefs /\ found = 0 /\ \A p \in Procs : tmp_ref[p] = 0
      \/ /\ context.mgr # "none"
         /\ node = [local_strong |-> 1 + found, local_weak |-> 1,
                    tmp |-> Cardinality(holding), has |-> TRUE, queued |-> FALSE]
         /\ \A p \in Procs : tmp_ref[p] = IF p = context.mgr THEN found ELSE 0

(* The context manager is never replaced, not even when its process is gone *)
(* (the driver has no release), and the user it must be is fixed by the     *)
(* first attempt, also by one that failed for want of memory.               *)
ManagerKept ==
  [][/\ context.mgr # "none" => context' = context
     /\ context.uid # "none" => context'.uid = context.uid
     /\ context'.mgr # "none" => context'.uid = Euid[context'.mgr]]_context

(* The log holds the last transactions, each entry whole. An entry whose    *)
(* mark says that it is complete was written by one transaction from end to *)
(* end, and an entry's transaction is the last that claimed it once it has  *)
(* its id, unless an entry was given to two at once; full says whether a    *)
(* transaction was dropped.                                                 *)
LogExact ==
  /\ log_full = (Len(claims) > LogSize)
  /\ overrun \/ \A s \in 0 .. (LogSize - 1) :
       LET e == log_entry[s] IN
       e.done = e.debug_id /\ e.done # 0 => e.from = e.done /\ e.to = e.done
  /\ overrun \/ \A i \in 1 .. Len(claims) :
       i > Len(claims) - LogSize =>
         \/ log_entry[(i - 1) % LogSize].debug_id = claims[i]
         \/ \E t \in Tasks : txn[t].id = claims[i] /\ pc[t] \in {"reset", "debug_id"}

=============================================================================

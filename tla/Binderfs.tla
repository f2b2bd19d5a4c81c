------------------------------ MODULE Binderfs ------------------------------
(***************************************************************************)
(* The binder filesystem (common/drivers/staging/binder/binderfs.c): mounts *)
(* of it, each with a control device and binder devices, the minor numbers  *)
(* all of them share, and the options that a remount changes.               *)
(*                                                                         *)
(* A task makes devices, with BINDER_CTL_ADD or while it mounts. A step is  *)
(* what happens under binderfs_minors_mutex or under the lock of the root   *)
(* directory; a remount holds neither and writes the options one by one.    *)
(* Devices are never removed but by unmounting: the directory has no        *)
(* unlink.                                                                  *)
(***************************************************************************)
EXTENDS Integers, Sequences, FiniteSets

CONSTANTS
  Mounts, Tasks, Names,
  InitialNs,         \* the mounts made in the first IPC namespace
  DefaultNames,      \* binder_devices_param
  OptionLists,       \* the mount options given
  BINDERFS_MAX_MINOR,
  Reserved           \* BINDERFS_MAX_MINOR less BINDERFS_MAX_MINOR_CAPPED

(* An option sets the number of devices, asks for statistics, or is not     *)
(* accepted: unknown, out of range, or not allowed.                         *)
Options == [kind : {"max", "stats", "bad"}, n : 0 .. BINDERFS_MAX_MINOR]

ASSUME BinderfsConstants ==
  /\ InitialNs \subseteq Mounts
  /\ BINDERFS_MAX_MINOR \in Nat /\ Reserved \in 0 .. BINDERFS_MAX_MINOR
  /\ DefaultNames \in Seq(Names) /\ OptionLists \subseteq Seq(Options)

VARIABLES
  minors,            \* binderfs_minors
  state,             \* mounts: "none", "mounting", "mounted", "failed" or "dying"
  opts,              \* binderfs_mount_opts
  device_count,
  control,           \* the minor of binder-control, or none
  devices,           \* the devices in the root directory: their names and minors
  remount,           \* binderfs_remount: options left to parse, and prev_stats_mode
  pc, job,           \* tasks: the next step, and what they are doing
  chosen,            \* the stats mode each mount was made with (history)
  remounted,         \* "never", "whole", or "broken": one was ended by an option
                     \* that is not accepted (history)
  leaked             \* minors that were lost (history)

mvars == <<minors, device_count, leaked>>
ovars == <<opts, remount, remounted>>
vars == <<mvars, ovars, state, control, devices, pc, job, chosen>>

None == -1
DefaultOpts == [max |-> BINDERFS_MAX_MINOR, stats |-> FALSE]
NotRemounting == [busy |-> FALSE, todo |-> <<>>, prev |-> FALSE]
Job(m, name, todo) == [mount |-> m, name |-> name, minor |-> None, todo |-> todo]
NoJob == Job(CHOOSE m \in Mounts : TRUE, "none", <<>>)

Mounting(m) == {t \in Tasks : pc[t] # "idle" /\ job[t].mount = m}

Init ==
  /\ minors = {}
  /\ state = [m \in Mounts |-> "none"]
  /\ opts = [m \in Mounts |-> DefaultOpts]
  /\ device_count = [m \in Mounts |-> 0]
  /\ control = [m \in Mounts |-> None]
  /\ devices = [m \in Mounts |-> {}]
  /\ remount = [m \in Mounts |-> NotRemounting]
  /\ pc = [t \in Tasks |-> "idle"]
  /\ job = [t \in Tasks |-> NoJob]
  /\ chosen = [m \in Mounts |-> FALSE]
  /\ remounted = [m \in Mounts |-> "never"]
  /\ leaked = {}

-----------------------------------------------------------------------------
(* ida_alloc_max takes the smallest free number, up to and including the    *)
(* limit.                                                                   *)
Limit(m) == BINDERFS_MAX_MINOR - (IF m \in InitialNs THEN 0 ELSE Reserved)
Free(n, m) == n \in (0 .. Limit(m)) \ minors /\ \A k \in 0 .. (n - 1) : k \in minors

(* One option of binderfs_parse_mount_opts.                                 *)
Parsed(o, opt) ==
  CASE opt.kind = "max"   -> [o EXCEPT !.max = opt.n]
    [] opt.kind = "stats" -> [o EXCEPT !.stats = TRUE]
    [] OTHER              -> o

(* All of them in turn: the last number given counts, and statistics stay   *)
(* asked for.                                                               *)
Given(list, kind) == {i \in DOMAIN list : list[i].kind = kind}
LastOf(S) == CHOOSE i \in S : \A j \in S : j <= i
ParsedAll(list) ==
  [max   |-> IF Given(list, "max") = {} THEN DefaultOpts.max
             ELSE list[LastOf(Given(list, "max"))].n,
   stats |-> Given(list, "stats") # {}]

Acceptable(list) == \A i \in DOMAIN list : list[i].kind # "bad"

-----------------------------------------------------------------------------
(* binderfs_mount and binderfs_fill_super: the options are parsed, the      *)
(* control device is made, then the devices of binder_devices_param.        *)
Mount(t, m, list) ==
  /\ pc[t] = "idle" /\ state[m] = "none"
  /\ Acceptable(list)
  /\ state' = [state EXCEPT ![m] = "mounting"]
  /\ opts' = [opts EXCEPT ![m] = ParsedAll(list)]
  /\ chosen' = [chosen EXCEPT ![m] = ParsedAll(list).stats]
  /\ pc' = [pc EXCEPT ![t] = "control"]
  /\ job' = [job EXCEPT ![t] = Job(m, "none", DefaultNames)]
  /\ UNCHANGED <<mvars, remount, remounted, control, devices>>

Failed(m) == state' = [state EXCEPT ![m] = "failed"]
Idle(t) == /\ pc' = [pc EXCEPT ![t] = "idle"]
           /\ job' = [job EXCEPT ![t] = NoJob]

(* binderfs_binder_ctl_create. Its minor is kept when there is no memory    *)
(* for the name.                                                            *)
MakeControl(t) ==
  LET m == job[t].mount IN
  /\ pc[t] = "control"
  /\ \/ \E n \in 0 .. Limit(m) :
          /\ Free(n, m)
          /\ minors' = minors \cup {n}
          /\ \/ /\ control' = [control EXCEPT ![m] = n]
                /\ pc' = [pc EXCEPT ![t] = "next"]
                /\ UNCHANGED <<state, job, leaked>>
             \/ /\ leaked' = leaked \cup {n}
                /\ Failed(m) /\ Idle(t)
                /\ UNCHANGED control
     \/ /\ Failed(m) /\ Idle(t)       \* no memory, or no number is left
        /\ UNCHANGED <<minors, leaked, control>>
  /\ UNCHANGED <<device_count, ovars, devices, chosen>>

NextDefault(t) ==
  LET m == job[t].mount IN
  /\ pc[t] = "next"
  /\ IF job[t].todo = <<>>
     THEN /\ state' = [state EXCEPT ![m] = "mounted"]
          /\ Idle(t)
     ELSE /\ pc' = [pc EXCEPT ![t] = "reserve"]
          /\ job' = [job EXCEPT ![t].name = Head(job[t].todo), ![t].todo = Tail(@)]
          /\ UNCHANGED state
  /\ UNCHANGED <<mvars, ovars, control, devices, chosen>>

AddDevice(t, m, name) ==     \* BINDER_CTL_ADD
  /\ pc[t] = "idle" /\ state[m] = "mounted"
  /\ pc' = [pc EXCEPT ![t] = "reserve"]
  /\ job' = [job EXCEPT ![t] = Job(m, name, <<>>)]
  /\ UNCHANGED <<mvars, ovars, state, control, devices, chosen>>

-----------------------------------------------------------------------------
(* binderfs_binder_device_create.                                           *)

(* The call is over: BINDER_CTL_ADD returns, and a mount goes on or fails.  *)
Done(t) ==
  IF state[job[t].mount] = "mounting"
  THEN pc' = [pc EXCEPT ![t] = "next"] /\ UNCHANGED <<state, job>>
  ELSE Idle(t) /\ UNCHANGED state

GivenUp(t) ==
  /\ Idle(t)
  /\ IF state[job[t].mount] = "mounting" THEN Failed(job[t].mount) ELSE UNCHANGED state

Room(m) == device_count[m] + 1 <= opts[m].max

Reserve(t) ==
  LET m == job[t].mount IN
  /\ pc[t] = "reserve"
  /\ \/ /\ Room(m)
        /\ \E n \in 0 .. Limit(m) :
             /\ Free(n, m)
             /\ minors' = minors \cup {n}
             /\ job' = [job EXCEPT ![t].minor = n]
        /\ device_count' = [device_count EXCEPT ![m] = @ + 1]
        /\ pc' = [pc EXCEPT ![t] = "link"]
        /\ UNCHANGED state
     \/ /\ ~Room(m) \/ \A n \in 0 .. Limit(m) : ~Free(n, m)
        /\ GivenUp(t)
        /\ UNCHANGED <<minors, device_count>>
  /\ UNCHANGED <<ovars, leaked, control, devices, chosen>>

Exists(m, name) == name = "binder-control" \/ \E d \in devices[m] : d.name = name

(* Bug: the name is not looked up under the lock.                           *)
LinkUnchecked(t) ==
  LET m == job[t].mount IN
  /\ devices' = [devices EXCEPT ![m] = @ \cup {[name |-> job[t].name, minor |-> job[t].minor]}]
  /\ Done(t)

Link(t) ==
  LET m == job[t].mount IN
  \/ /\ ~Exists(m, job[t].name)
     /\ devices' = [devices EXCEPT ![m] = @ \cup {[name |-> job[t].name, minor |-> job[t].minor]}]
     /\ Done(t)
  \/ /\ Exists(m, job[t].name)
     /\ pc' = [pc EXCEPT ![t] = "undo"]
     /\ UNCHANGED <<devices, state, job>>

LinkDevice(t) ==
  /\ pc[t] = "link"
  /\ Link(t)
  /\ UNCHANGED <<mvars, ovars, control, chosen>>

NoMemory(t) ==               \* or the answer cannot be copied to the user
  /\ pc[t] = "link"
  /\ pc' = [pc EXCEPT ![t] = "undo"]
  /\ UNCHANGED <<mvars, ovars, state, control, devices, job, chosen>>

Release(m, n) ==
  /\ minors' = minors \ {n}
  /\ device_count' = [device_count EXCEPT ![m] = @ - 1]

Undo(t) ==
  /\ pc[t] = "undo"
  /\ Release(job[t].mount, job[t].minor)
  /\ GivenUp(t)
  /\ UNCHANGED <<ovars, leaked, control, devices, chosen>>

-----------------------------------------------------------------------------
(* binderfs_kill_super, of a mount that failed or that nobody uses: the     *)
(* devices are evicted one by one, the control device among them, and the   *)
(* options are freed when all of them are gone.                             *)
KillSuper(m) ==
  /\ state[m] \in {"mounted", "failed"}
  /\ Mounting(m) = {} /\ ~remount[m].busy
  /\ state' = [state EXCEPT ![m] = "dying"]
  /\ UNCHANGED <<mvars, ovars, control, devices, pc, job, chosen>>

(* Bug: the control device, which was not counted, keeps its minor.         *)
EvictNamed(m) ==
  \/ \E d \in devices[m] :
       /\ Release(m, d.minor)
       /\ devices' = [devices EXCEPT ![m] = @ \ {d}]
       /\ UNCHANGED control
  \/ /\ control[m] # None
     /\ control' = [control EXCEPT ![m] = None]
     /\ UNCHANGED <<minors, device_count, devices>>

(* binderfs_evict_inode.                                                    *)
Evict(m) ==
  \/ \E d \in devices[m] :
       /\ Release(m, d.minor)
       /\ devices' = [devices EXCEPT ![m] = @ \ {d}]
       /\ UNCHANGED control
  \/ /\ control[m] # None
     /\ Release(m, control[m])
     /\ control' = [control EXCEPT ![m] = None]
     /\ UNCHANGED devices

EvictInode(m) ==
  /\ state[m] = "dying"
  /\ Evict(m)
  /\ UNCHANGED <<leaked, ovars, state, pc, job, chosen>>

FreeInfo(m) ==
  /\ state[m] = "dying" /\ devices[m] = {} /\ control[m] = None
  /\ state' = [state EXCEPT ![m] = "none"]
  /\ opts' = [opts EXCEPT ![m] = DefaultOpts]
  /\ device_count' = [device_count EXCEPT ![m] = 0]
  /\ chosen' = [chosen EXCEPT ![m] = FALSE]
  /\ remounted' = [remounted EXCEPT ![m] = "never"]
  /\ UNCHANGED <<minors, leaked, remount, control, devices, pc, job>>

(* binderfs_remount. The options in use are reset and parsed again where    *)
(* they are; one that is not accepted ends it there.                        *)
RemountStart(m, list) ==
  /\ state[m] = "mounted" /\ ~remount[m].busy
  /\ opts' = [opts EXCEPT ![m] = DefaultOpts]
  /\ remount' = [remount EXCEPT ![m] = [busy |-> TRUE, todo |-> list, prev |-> opts[m].stats]]
  /\ remounted' = [remounted EXCEPT ![m] = IF @ = "broken" THEN @ ELSE "whole"]
  /\ UNCHANGED <<mvars, state, control, devices, pc, job, chosen>>

AfterOption(r, opt) ==
  IF opt.kind = "bad" THEN NotRemounting ELSE [r EXCEPT !.todo = Tail(@)]

RemountOption(m) ==
  /\ remount[m].busy /\ remount[m].todo # <<>>
  /\ LET opt == Head(remount[m].todo) IN
     /\ opts' = [opts EXCEPT ![m] = Parsed(@, opt)]
     /\ remount' = [remount EXCEPT ![m] = AfterOption(@, opt)]
     /\ remounted' = [remounted EXCEPT ![m] = IF opt.kind = "bad" THEN "broken" ELSE @]
  /\ UNCHANGED <<mvars, state, control, devices, pc, job, chosen>>

(* Bug: a changed stats mode is refused but stays.                          *)
StatsRestoredNot(o, prev) == o

StatsRestored(o, prev) == [o EXCEPT !.stats = prev]

(* The parsing succeeded: a changed stats mode is refused and put back, and *)
(* the other options stay as they were parsed.                              *)
RemountEnd(m) ==
  /\ remount[m].busy /\ remount[m].todo = <<>>
  /\ opts' = [opts EXCEPT ![m] = StatsRestored(@, remount[m].prev)]
  /\ remount' = [remount EXCEPT ![m] = NotRemounting]
  /\ UNCHANGED <<mvars, remounted, state, control, devices, pc, job, chosen>>

-----------------------------------------------------------------------------
Next ==
  \/ \E t \in Tasks :
       \/ \E m \in Mounts, list \in OptionLists : Mount(t, m, list)
       \/ \E m \in Mounts, name \in Names : AddDevice(t, m, name)
       \/ MakeControl(t) \/ NextDefault(t)
       \/ Reserve(t) \/ LinkDevice(t) \/ NoMemory(t) \/ Undo(t)
  \/ \E m \in Mounts :
       \/ KillSuper(m) \/ EvictInode(m) \/ FreeInfo(m)
       \/ \E list \in OptionLists : RemountStart(m, list)
       \/ RemountOption(m) \/ RemountEnd(m)

Spec == Init /\ [][Next]_vars

-----------------------------------------------------------------------------
Reserving(m) == {t \in Tasks : pc[t] \in {"link", "undo"} /\ job[t].mount = m}
Held(m) == {d.minor : d \in devices[m]} \cup ({control[m]} \ {None})
                                      \cup {job[t].minor : t \in Reserving(m)}

(* No minor is lost and none is used twice, over all mounts and whatever    *)
(* step of making a device fails: each number taken belongs to one device,  *)
(* or to one task that is making a device, or was lost by                   *)
(* binderfs_binder_ctl_create; and device_count is the number of devices,   *)
(* with those being made. (A mount that is being killed counts its control  *)
(* device out too, which was never counted in.) And as long as nobody       *)
(* remounts it, a mount never shows more devices than its option max.       *)
MinorsExact ==
  /\ minors = (UNION {Held(m) : m \in Mounts}) \cup leaked
  /\ \A m \in Mounts : Held(m) \cap leaked = {}
  /\ \A m, k \in Mounts : m # k => Held(m) \cap Held(k) = {}
  /\ \A m \in Mounts :
       LET taken == Cardinality(devices[m]) + Cardinality(Reserving(m)) IN
       /\ Cardinality(Held(m)) = taken + (IF control[m] = None THEN 0 ELSE 1)
       /\ state[m] # "dying" => device_count[m] = taken
       /\ remounted[m] = "never" => Cardinality(devices[m]) <= opts[m].max

(* Two tasks that make a device of the same name do not both succeed, and   *)
(* none takes the name of the control device.                               *)
NamesUnique ==
  \A m \in Mounts : \A d \in devices[m] :
    d.name # "binder-control" /\ \A e \in devices[m] : d.name = e.name => d = e

(* No series of remounts changes the stats mode a mount was made with, as   *)
(* long as each of them had only options that are accepted.                 *)
StatsKeptByWhole ==
  \A m \in Mounts :
    remounted[m] # "broken" /\ ~remount[m].busy => opts[m].stats = chosen[m]

=============================================================================

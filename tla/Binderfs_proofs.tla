---------------------------- MODULE Binderfs_proofs ----------------------------
(***************************************************************************)
(* Proofs about Binderfs, for any mounts, tasks, names and options: names   *)
(* in a mount are unique, the stats mode survives remounts, and every minor *)
(* number that is taken has one owner. For the last one needs to know which *)
(* task may work on which mount: the one that mounts is alone, and nobody   *)
(* works on what is being killed.                                           *)
(***************************************************************************)
EXTENDS Binderfs, FiniteSetTheorems, NaturalsInduction, WellFoundedInduction, TLAPS

(* The least number of a set.                                               *)
LEMMA Least ==
  ASSUME NEW S, S \subseteq Nat, S # {}
  PROVE  \E n \in S : \A k \in S : n <= k
<1> DEFINE R == {ss \in Nat \X Nat : ss[1] < ss[2]}
<1>1. IsWellFoundedOn(R, Nat)
  BY NatLessThanWellFounded DEF OpToRel
<1>2. PICK n \in S : \A k \in S : ~(<<k, n>> \in R)
  <2> HIDE DEF R
  <2> QED BY <1>1, WFMin
<1>3. ASSUME NEW k \in S, k < n  PROVE FALSE
  <2>1. <<k, n>> \in Nat \X Nat /\ <<k, n>>[1] < <<k, n>>[2]
    BY <1>3
  <2>2. <<k, n>> \in R
    BY <2>1
  <2> QED  BY <1>2, <2>2
<1> QED BY <1>3

LEMMA LastOfIsLast ==
  ASSUME NEW n \in Nat, NEW S, S \subseteq 1 .. n, S # {}
  PROVE  LastOf(S) \in S /\ \A j \in S : j <= LastOf(S)
<1> DEFINE T == {n - i : i \in S}
<1>1. T \subseteq Nat /\ T # {}
  <2>1. \A i \in S : n - i \in Nat  OBVIOUS
  <2> QED  BY <2>1
<1>2. PICK k \in T : \A j \in T : k <= j  BY <1>1, Least
<1>3. PICK i \in S : k = n - i  BY <1>2
<1>4. \A j \in S : j <= i  BY <1>2, <1>3
<1> QED  BY <1>4 DEF LastOf

-----------------------------------------------------------------------------
(* The options of a mount.                                                  *)
Opts == [max : 0 .. BINDERFS_MAX_MINOR, stats : BOOLEAN]

LEMMA DefaultTyped ==
  DefaultOpts \in Opts /\ DefaultOpts.max = BINDERFS_MAX_MINOR /\ ~DefaultOpts.stats
<1>1. PICK d : d = [max |-> BINDERFS_MAX_MINOR, stats |-> FALSE]  OBVIOUS
<1>2. d \in Opts /\ d.max = BINDERFS_MAX_MINOR  BY <1>1, BinderfsConstants DEF Opts
<1>3. d.stats = FALSE  BY <1>1
<1>4. d = DefaultOpts  BY <1>1 DEF DefaultOpts
<1>5. ~d.stats  BY <1>3, Zenon
<1> QED  BY <1>2, <1>4, <1>5

LEMMA ParsedType ==
  ASSUME NEW o \in Opts, NEW opt \in Options
  PROVE  /\ Parsed(o, opt) \in Opts
         /\ Parsed(o, opt).max = IF opt.kind = "max" THEN opt.n ELSE o.max
         /\ Parsed(o, opt).stats <=> opt.kind = "stats" \/ o.stats
<1>1. opt.n \in 0 .. BINDERFS_MAX_MINOR /\ opt.kind \in {"max", "stats", "bad"}
  BY DEF Options
<1>2. CASE opt.kind = "max"
  BY <1>1, <1>2 DEF Parsed, Opts
<1>3. CASE opt.kind = "stats"
  BY <1>1, <1>3 DEF Parsed, Opts
<1>4. CASE opt.kind = "bad"
  BY <1>1, <1>4 DEF Parsed, Opts
<1> QED  BY <1>1, <1>2, <1>3, <1>4

LEMMA ParsedAllType ==
  ASSUME NEW list \in Seq(Options)
  PROVE  /\ ParsedAll(list) \in Opts
         /\ ParsedAll(list).max = IF Given(list, "max") = {} THEN BINDERFS_MAX_MINOR
                                  ELSE list[LastOf(Given(list, "max"))].n
         /\ ParsedAll(list).stats <=> Given(list, "stats") # {}
<1>1. Given(list, "max") \subseteq 1 .. Len(list)  BY DEF Given
<1>2. Given(list, "max") # {} =>
        list[LastOf(Given(list, "max"))].n \in 0 .. BINDERFS_MAX_MINOR
  <2> SUFFICES ASSUME Given(list, "max") # {}
               PROVE  list[LastOf(Given(list, "max"))].n \in 0 .. BINDERFS_MAX_MINOR
    OBVIOUS
  <2>1. Len(list) \in Nat /\ \A i \in 1 .. Len(list) : list[i] \in Options  OBVIOUS
  <2>2. LastOf(Given(list, "max")) \in 1 .. Len(list)  BY <1>1, <2>1, LastOfIsLast
  <2> QED  BY <2>1, <2>2 DEF Options
<1>3. PICK st \in BOOLEAN : st = (Given(list, "stats") # {})  OBVIOUS
<1>4. PICK mx \in 0 .. BINDERFS_MAX_MINOR :
        mx = IF Given(list, "max") = {} THEN DefaultOpts.max
             ELSE list[LastOf(Given(list, "max"))].n
  BY <1>2, BinderfsConstants DEF DefaultOpts
<1>5. ParsedAll(list) = [max |-> mx, stats |-> st]  BY <1>3, <1>4, Zenon DEF ParsedAll
<1>6. PICK o : o = [max |-> mx, stats |-> st]  OBVIOUS
<1>7. o \in Opts /\ o.max = mx /\ o.stats = st  BY <1>6 DEF Opts
<1>8. DefaultOpts.max = BINDERFS_MAX_MINOR  BY DEF DefaultOpts
<1> QED  BY <1>3, <1>4, <1>5, <1>6, <1>7, <1>8

(* What ParsedAll defines at once is what the loop does option by option.   *)
THEOREM ParsedInTurn ==
  /\ ParsedAll(<<>>) = DefaultOpts
  /\ \A list \in Seq(Options), opt \in Options :
       ParsedAll(Append(list, opt)) = Parsed(ParsedAll(list), opt)
<1>1. ParsedAll(<<>>) = DefaultOpts
  <2>1. <<>> \in Seq(Options)  OBVIOUS
  <2>2. Given(<<>>, "max") = {} /\ Given(<<>>, "stats") = {}  BY DEF Given
  <2>3. PICK d \in Opts : /\ d = DefaultOpts
                          /\ d.max = BINDERFS_MAX_MINOR /\ ~d.stats
    BY DefaultTyped
  <2>4. PICK o \in Opts : /\ o = ParsedAll(<<>>)
                          /\ o.max = BINDERFS_MAX_MINOR /\ ~o.stats
    BY <2>1, <2>2, ParsedAllType
  <2> QED  BY <2>3, <2>4 DEF Opts
<1>2. ASSUME NEW list \in Seq(Options), NEW opt \in Options
      PROVE  ParsedAll(Append(list, opt)) = Parsed(ParsedAll(list), opt)
  <2> DEFINE more == Append(list, opt)
             n == Len(list)
             S == Given(list, "max")
             T == Given(more, "max")
  <2>1. /\ more \in Seq(Options) /\ Len(more) = n + 1 /\ more[n + 1] = opt /\ n \in Nat
        /\ \A i \in 1 .. n : more[i] = list[i]
    OBVIOUS
  <2>2. T = IF opt.kind = "max" THEN S \cup {n + 1} ELSE S
    BY <2>1 DEF Given
  <2>3. Given(more, "stats") # {} <=> opt.kind = "stats" \/ Given(list, "stats") # {}
    BY <2>1 DEF Given
  <2>4. S \subseteq 1 .. n /\ T \subseteq 1 .. (n + 1)  BY <2>1 DEF Given
  <2>5. T # {} => more[LastOf(T)].n = IF opt.kind = "max" THEN opt.n ELSE list[LastOf(S)].n
    <3>1. CASE opt.kind = "max"
      <4>1. LastOf(T) \in T /\ \A j \in T : j <= LastOf(T)
        BY <2>1, <2>2, <2>4, <3>1, LastOfIsLast
      <4>2. LastOf(T) = n + 1  BY <2>1, <2>2, <2>4, <3>1, <4>1
      <4> QED  BY <2>1, <3>1, <4>2
    <3>2. CASE opt.kind # "max" /\ T # {}
      <4>1. LastOf(S) \in 1 .. n  BY <2>2, <2>4, <3>2, <2>1, LastOfIsLast
      <4> QED  BY <2>1, <2>2, <3>2, <4>1
    <3> QED  BY <3>1, <3>2
  <2>6. PICK o \in Opts, q \in Opts : o = ParsedAll(list) /\ q = ParsedAll(more)
    BY <2>1, ParsedAllType
  <2>7. o.max = (IF S = {} THEN BINDERFS_MAX_MINOR ELSE list[LastOf(S)].n)
        /\ (o.stats <=> Given(list, "stats") # {})
    BY <2>6, ParsedAllType
  <2>8. q.max = (IF T = {} THEN BINDERFS_MAX_MINOR ELSE more[LastOf(T)].n)
        /\ (q.stats <=> Given(more, "stats") # {})
    BY <2>1, <2>6, ParsedAllType
  <2>9. PICK r \in Opts : /\ r = Parsed(o, opt)
                          /\ r.max = IF opt.kind = "max" THEN opt.n ELSE o.max
                          /\ r.stats <=> opt.kind = "stats" \/ o.stats
    BY ParsedType
  <2>10. q.max = r.max
    BY <2>2, <2>5, <2>7, <2>8, <2>9
  <2>11. q.stats <=> r.stats  BY <2>3, <2>7, <2>8, <2>9
  <2> QED  BY <2>6, <2>9, <2>10, <2>11 DEF Opts
<1> QED  BY <1>1, <1>2

-----------------------------------------------------------------------------
(* Only linking adds a device, and it has looked for the name.              *)
LEMMA DevicesOnlyBy ==
  ASSUME [Next]_vars
  PROVE  \/ UNCHANGED devices
         \/ \E t \in Tasks : LinkDevice(t)
         \/ \E m \in Mounts : EvictInode(m)
<1>1. ASSUME NEW t \in Tasks, \/ \E m \in Mounts, list \in OptionLists : Mount(t, m, list)
                              \/ \E m \in Mounts, name \in Names : AddDevice(t, m, name)
                              \/ MakeControl(t) \/ NextDefault(t)
                              \/ Reserve(t) \/ NoMemory(t) \/ Undo(t)
      PROVE  UNCHANGED devices
  BY <1>1 DEF Mount, AddDevice, MakeControl, NextDefault, Reserve, NoMemory, Undo
<1>2. ASSUME NEW m \in Mounts, \/ KillSuper(m) \/ FreeInfo(m)
                               \/ \E list \in OptionLists : RemountStart(m, list)
                               \/ RemountOption(m) \/ RemountEnd(m)
      PROVE  UNCHANGED devices
  BY <1>2 DEF KillSuper, FreeInfo, RemountStart, RemountOption, RemountEnd
<1> QED  BY <1>1, <1>2 DEF Next, vars

Names1 == DOMAIN devices = Mounts /\ NamesUnique

(* binderfs_binder_device_create looks for the name and adds the device     *)
(* under the lock of the root directory.                                    *)
THEOREM NamesAreUnique == Spec => []NamesUnique
<1>1. Init => Names1  BY DEF Init, Names1, NamesUnique
<1>2. Names1 /\ [Next]_vars => Names1'
  <2> SUFFICES ASSUME Names1, [Next]_vars  PROVE Names1'  OBVIOUS
  <2>1. CASE UNCHANGED devices  BY <2>1 DEF Names1, NamesUnique
  <2>2. ASSUME NEW t \in Tasks, LinkDevice(t)  PROVE Names1'
    <3> DEFINE m == job[t].mount
    <3>1. CASE UNCHANGED devices  BY <3>1 DEF Names1, NamesUnique
    <3>2. CASE /\ ~Exists(m, job[t].name)
               /\ devices' = [devices EXCEPT ![m] =
                                @ \cup {[name |-> job[t].name, minor |-> job[t].minor]}]
      <4>1. PICK d : d = [name |-> job[t].name, minor |-> job[t].minor]  OBVIOUS
      <4>2. d.name # "binder-control" /\ \A e \in devices[m] : e.name # d.name
        BY <3>2, <4>1 DEF Exists
      <4>3. devices' = [devices EXCEPT ![m] = @ \cup {d}]  BY <3>2, <4>1
      <4>4. \A k \in Mounts : devices'[k] = IF k = m THEN devices[k] \cup {d} ELSE devices[k]
        BY <4>3 DEF Names1
      <4> QED  BY <4>2, <4>3, <4>4 DEF Names1, NamesUnique
    <3> QED  BY <2>2, <3>1, <3>2 DEF LinkDevice, Link
  <2>3. ASSUME NEW m \in Mounts, EvictInode(m)  PROVE Names1'
    <3>1. /\ DOMAIN devices' = Mounts
          /\ \A k \in Mounts : devices'[k] \subseteq devices[k]
      BY <2>3 DEF EvictInode, Evict, Names1
    <3> QED  BY <3>1 DEF Names1, NamesUnique
  <2> QED  BY <2>1, <2>2, <2>3, DevicesOnlyBy
<1>3. Names1 => NamesUnique  BY DEF Names1
<1> QED  BY <1>1, <1>2, <1>3, PTL DEF Spec

-----------------------------------------------------------------------------
(* What a mount and a remount do to the options.                            *)
Remounts == [busy : BOOLEAN, todo : Seq(Options), prev : BOOLEAN]
Gone == {"none", "dying"}

OptionTypes ==
  /\ opts \in [Mounts -> Opts]
  /\ chosen \in [Mounts -> BOOLEAN]
  /\ remount \in [Mounts -> Remounts]
  /\ remounted \in [Mounts -> {"never", "whole", "broken"}]
  /\ DOMAIN state = Mounts

(* Only what is there is remounted.                                         *)
RemountLives ==
  \A m \in Mounts : remount[m].busy => state[m] \notin Gone /\ remounted[m] # "never"

(* While a remount has taken the options away it has kept the stats mode.   *)
StatsKept ==
  \A m \in Mounts : remounted[m] # "broken" =>
    /\ remount[m].busy => (remount[m].prev <=> chosen[m])
    /\ ~remount[m].busy => (opts[m].stats <=> chosen[m])

OInv == OptionTypes /\ RemountLives /\ StatsKept

LEMMA NotRemountingTyped ==
  NotRemounting \in Remounts /\ ~NotRemounting.busy
<1>1. PICK r : r = [busy |-> FALSE, todo |-> <<>>, prev |-> FALSE]  OBVIOUS
<1>2. r \in Remounts /\ r.busy = FALSE  BY <1>1 DEF Remounts
<1>3. ~r.busy  BY <1>2, Zenon
<1>4. r = NotRemounting  BY <1>1 DEF NotRemounting
<1> QED  BY <1>2, <1>3, <1>4

LEMMA OptionsInit == Init => OInv
<1> SUFFICES ASSUME Init  PROVE OInv  OBVIOUS
<1>1. OptionTypes
  BY NotRemountingTyped, DefaultTyped DEF Init, OptionTypes
<1>2. \A m \in Mounts : ~remount[m].busy /\ ~opts[m].stats
  BY NotRemountingTyped, DefaultTyped DEF Init
<1>3. \A m \in Mounts : chosen[m] = FALSE  BY DEF Init
<1>4. \A m \in Mounts : ~chosen[m]  BY <1>3, Zenon
<1> QED  BY <1>1, <1>2, <1>4 DEF OInv, RemountLives, StatsKept

(* What leaves the options alone and brings no mount to its end.            *)
LEMMA StateKeeps ==
  ASSUME OInv, UNCHANGED <<ovars, chosen>>, DOMAIN state' = Mounts,
         \A m \in Mounts : state'[m] \in Gone => state[m] \in Gone \/ ~remount[m].busy
  PROVE  OInv'
BY DEF OInv, OptionTypes, RemountLives, StatsKept, ovars

LEMMA TasksKeepOptions ==
  ASSUME OInv, NEW t \in Tasks,
         \/ \E m \in Mounts, name \in Names : AddDevice(t, m, name)
         \/ MakeControl(t) \/ NextDefault(t)
         \/ Reserve(t) \/ LinkDevice(t) \/ NoMemory(t) \/ Undo(t)
  PROVE  OInv'
<1>1. UNCHANGED <<ovars, chosen>>
  BY DEF AddDevice, MakeControl, NextDefault, Reserve, LinkDevice, NoMemory, Undo
<1>2. \/ UNCHANGED state
      \/ state' = [state EXCEPT ![job[t].mount] = "failed"]
      \/ state' = [state EXCEPT ![job[t].mount] = "mounted"]
  BY DEF AddDevice, MakeControl, NextDefault, Reserve, LinkDevice, NoMemory, Undo, Link, Done,
         Failed, GivenUp, Idle
<1>3. DOMAIN state' = Mounts /\ \A m \in Mounts : state'[m] \in Gone => state[m] \in Gone
  BY <1>2 DEF OInv, OptionTypes, Gone
<1> QED  BY <1>1, <1>3, StateKeeps

(* One mount at a time: the options of the others stay.                     *)
LEMMA OneMount ==
  ASSUME OInv, NEW m \in Mounts, NEW o \in Opts, NEW r \in Remounts, NEW s \in {"never", "whole", "broken"}, NEW c \in BOOLEAN,
         opts' = [opts EXCEPT ![m] = o], remount' = [remount EXCEPT ![m] = r],
         remounted' = [remounted EXCEPT ![m] = s], chosen' = [chosen EXCEPT ![m] = c],
         DOMAIN state' = Mounts, \A k \in Mounts \ {m} : state'[k] = state[k],
         r.busy => state'[m] \notin Gone /\ s # "never",
         s # "broken" => (r.busy => (r.prev <=> c)) /\ (~r.busy => (o.stats <=> c))
  PROVE  OInv'
<1>1. OptionTypes'  BY DEF OInv, OptionTypes
<1>2. /\ \A k \in Mounts \ {m} : /\ opts'[k] = opts[k] /\ chosen'[k] = chosen[k]
                                 /\ remount'[k] = remount[k] /\ remounted'[k] = remounted[k]
      /\ opts'[m] = o /\ chosen'[m] = c /\ remount'[m] = r /\ remounted'[m] = s
  BY DEF OInv, OptionTypes
<1>3. RemountLives'
  <2> SUFFICES ASSUME NEW k \in Mounts, remount'[k].busy
               PROVE  state'[k] \notin Gone /\ remounted'[k] # "never"
    BY DEF RemountLives
  <2> QED  BY <1>2 DEF OInv, RemountLives
<1>4. ASSUME NEW k \in Mounts, remounted'[k] # "broken"
      PROVE  /\ remount'[k].busy => (remount'[k].prev <=> chosen'[k])
             /\ ~remount'[k].busy => (opts'[k].stats <=> chosen'[k])
  <2>1. CASE k = m
    <3>1. /\ r.busy => (r.prev <=> c)
          /\ ~r.busy => (o.stats <=> c)
      BY <1>2, <1>4, <2>1
    <3>2. opts'[k] = o /\ chosen'[k] = c /\ remount'[k] = r  BY <1>2, <2>1
    <3> QED  BY <3>1, <3>2, Zenon
  <2>2. CASE k # m
    <3>1. /\ opts'[k] = opts[k] /\ chosen'[k] = chosen[k]
          /\ remount'[k] = remount[k] /\ remounted'[k] = remounted[k]
      BY <1>2, <2>2
    <3>2. /\ remount[k].busy => (remount[k].prev <=> chosen[k])
          /\ ~remount[k].busy => (opts[k].stats <=> chosen[k])
      BY <1>4, <3>1 DEF OInv, StatsKept
    <3> QED  BY <3>1, <3>2, Zenon
  <2> QED  BY <2>1, <2>2
<1> QED  BY <1>1, <1>3, <1>4 DEF OInv, StatsKept

LEMMA MountKeepsOptions ==
  ASSUME OInv, NEW t \in Tasks, NEW m \in Mounts, NEW list \in OptionLists, Mount(t, m, list)
  PROVE  OInv'
<1>1. PICK o \in Opts : o = ParsedAll(list)
  BY BinderfsConstants, ParsedAllType
<1>2. PICK c \in BOOLEAN : c = o.stats /\ (o.stats <=> c)  BY DEF Opts
<1>3. /\ opts' = [opts EXCEPT ![m] = o] /\ chosen' = [chosen EXCEPT ![m] = c]
      /\ state' = [state EXCEPT ![m] = "mounting"] /\ state[m] = "none"
      /\ UNCHANGED <<remount, remounted>>
  BY <1>1, <1>2 DEF Mount
<1>4. PICK r \in Remounts, s \in {"never", "whole", "broken"} :
        r = remount[m] /\ s = remounted[m] /\ ~r.busy
  BY <1>3 DEF OInv, OptionTypes, RemountLives, Gone
<1>5. remount' = [remount EXCEPT ![m] = r] /\ remounted' = [remounted EXCEPT ![m] = s]
  BY <1>3, <1>4 DEF OInv, OptionTypes
<1>6. DOMAIN state' = Mounts /\ \A k \in Mounts \ {m} : state'[k] = state[k]
  BY <1>3 DEF OInv, OptionTypes
<1>7. /\ r.busy => state'[m] \notin Gone /\ s # "never"
      /\ s # "broken" => (r.busy => (r.prev <=> c)) /\ (~r.busy => (o.stats <=> c))
  BY <1>2, <1>4, Zenon
<1>8. /\ o \in Opts /\ c \in BOOLEAN /\ r \in Remounts
      /\ s \in {"never", "whole", "broken"}
  BY <1>1, <1>2, <1>4
<1>9. opts' = [opts EXCEPT ![m] = o] /\ chosen' = [chosen EXCEPT ![m] = c]  BY <1>3
<1> QED  BY <1>5, <1>6, <1>7, <1>8, <1>9, OneMount

LEMMA FreeKeepsOptions ==
  ASSUME OInv, NEW m \in Mounts, FreeInfo(m)
  PROVE  OInv'
<1>1. PICK o \in Opts : o = DefaultOpts /\ ~o.stats  BY DefaultTyped
<1>2. PICK c \in BOOLEAN : c = FALSE /\ ~c  OBVIOUS
<1>3. /\ opts' = [opts EXCEPT ![m] = o] /\ chosen' = [chosen EXCEPT ![m] = c]
      /\ remounted' = [remounted EXCEPT ![m] = "never"] /\ state[m] = "dying"
      /\ state' = [state EXCEPT ![m] = "none"] /\ UNCHANGED remount
  BY <1>1, <1>2 DEF FreeInfo
<1>4. ~remount[m].busy /\ remount[m] \in Remounts
  BY <1>3 DEF OInv, OptionTypes, RemountLives, Gone
<1>5. remount' = [remount EXCEPT ![m] = remount[m]]
  BY <1>3 DEF OInv, OptionTypes
<1>6. DOMAIN state' = Mounts /\ \A k \in Mounts \ {m} : state'[k] = state[k]
  BY <1>3 DEF OInv, OptionTypes
<1> QED  BY <1>1, <1>2, <1>3, <1>4, <1>5, <1>6, OneMount, ZenonT(30)

LEMMA RemountKeepsOptions ==
  ASSUME OInv, NEW m \in Mounts,
         \/ \E list \in OptionLists : RemountStart(m, list)
         \/ RemountOption(m) \/ RemountEnd(m)
  PROVE  OInv'
<1>1. /\ UNCHANGED <<state, chosen>> /\ DOMAIN state = Mounts
      /\ chosen[m] \in BOOLEAN /\ chosen' = [chosen EXCEPT ![m] = chosen[m]]
      /\ opts[m] \in Opts /\ opts[m].stats \in BOOLEAN /\ remount[m] \in Remounts
      /\ remounted[m] \in {"never", "whole", "broken"}
  BY DEF RemountStart, RemountOption, RemountEnd, OInv, OptionTypes, Opts
<1>2. ASSUME NEW list \in OptionLists, RemountStart(m, list)  PROVE OInv'
  <2>1. list \in Seq(Options)  BY BinderfsConstants
  <2>2. PICK b \in BOOLEAN, p \in BOOLEAN : b = TRUE /\ b /\ p = opts[m].stats
    BY <1>1
  <2>3. PICK r \in Remounts : r = [busy |-> b, todo |-> list, prev |-> p]
    BY <2>1 DEF Remounts
  <2>4. PICK s : s = IF remounted[m] = "broken" THEN "broken" ELSE "whole"
    OBVIOUS
  <2>5. /\ opts' = [opts EXCEPT ![m] = DefaultOpts] /\ remount' = [remount EXCEPT ![m] = r]
        /\ remounted' = [remounted EXCEPT ![m] = s]
        /\ ~remount[m].busy /\ state[m] = "mounted"
    BY <1>2, <2>2, <2>3, <2>4 DEF RemountStart
  <2>6. r.busy = b /\ r.prev = p  BY <2>3
  <2>7. r.busy /\ (r.prev <=> opts[m].stats)  BY <2>2, <2>6, Zenon
  <2>8. s # "broken" => (opts[m].stats <=> chosen[m])
    BY <2>4, <2>5 DEF OInv, StatsKept
  <2>9. s # "broken" => (r.prev <=> chosen[m])  BY <2>7, <2>8, Zenon
  <2> QED  BY <1>1, <2>4, <2>5, <2>7, <2>9, DefaultTyped, OneMount DEF Gone
<1>3. CASE RemountOption(m)
  <2> DEFINE opt == Head(remount[m].todo)
             rest == Tail(remount[m].todo)
  <2>1. remount[m].todo \in Seq(Options) /\ remount[m].busy /\ remount[m].todo # <<>>
    BY <1>1, <1>3 DEF RemountOption, Remounts
  <2>2. opt \in Options /\ rest \in Seq(Options)  BY <2>1
  <2>3. PICK o \in Opts : o = Parsed(opts[m], opt)  BY <1>1, <2>2, ParsedType
  <2>4. opts' = [opts EXCEPT ![m] = o]
    BY <1>3, <2>3 DEF RemountOption, OInv, OptionTypes
  <2>5. CASE opt.kind = "bad"
    <3>1. /\ remount' = [remount EXCEPT ![m] = NotRemounting]
          /\ remounted' = [remounted EXCEPT ![m] = "broken"]
      BY <1>3, <2>5 DEF RemountOption, AfterOption
    <3> QED  BY <1>1, <2>3, <2>4, <3>1, NotRemountingTyped, OneMount
  <2>6. CASE opt.kind # "bad"
    <3>1. PICK r : r = [remount[m] EXCEPT !.todo = rest]  OBVIOUS
    <3>2. r \in Remounts /\ r.busy = remount[m].busy /\ r.prev = remount[m].prev
      BY <1>1, <2>2, <3>1 DEF Remounts
    <3>3. remount' = [remount EXCEPT ![m] = r] /\ UNCHANGED remounted
      <4>1. remounted' = [remounted EXCEPT ![m] = remounted[m]]
        BY <1>3, <2>6 DEF RemountOption
      <4>2. remount' = [remount EXCEPT ![m] = [remount[m] EXCEPT !.todo = rest]]
        <5>1. PICK q : q = AfterOption(remount[m], opt)  OBVIOUS
        <5>2. remount' = [remount EXCEPT ![m] = q]  BY <1>3, <5>1 DEF RemountOption
        <5>3. q = [remount[m] EXCEPT !.todo = rest]  BY <2>6, <5>1 DEF AfterOption
        <5> QED  BY <5>2, <5>3
      <4> QED  BY <3>1, <4>1, <4>2 DEF OInv, OptionTypes
    <3>8. remounted' = [remounted EXCEPT ![m] = remounted[m]]
      BY <3>3 DEF OInv, OptionTypes
    <3>4. state[m] \notin Gone /\ remounted[m] # "never"
      BY <2>1 DEF OInv, RemountLives
    <3>5. remounted[m] # "broken" => (remount[m].prev <=> chosen[m])
      BY <2>1 DEF OInv, StatsKept
    <3>6. r.busy  BY <2>1, <3>2, Zenon
    <3>7. remounted[m] # "broken" => (r.prev <=> chosen[m])  BY <3>2, <3>5, Zenon
    <3> QED  BY <1>1, <2>3, <2>4, <3>2, <3>3, <3>4, <3>6, <3>7, <3>8, OneMount
  <2> QED  BY <2>5, <2>6
<1>4. CASE RemountEnd(m)
  <2>1. remount[m].busy  BY <1>4 DEF RemountEnd
  <2>2. PICK p \in BOOLEAN : p = remount[m].prev  BY <1>1 DEF Remounts
  <2>3. PICK o : o = [opts[m] EXCEPT !.stats = p]  OBVIOUS
  <2>4. o \in Opts /\ o.stats = p  BY <1>1, <2>3 DEF Opts
  <2>5. /\ opts' = [opts EXCEPT ![m] = o] /\ remount' = [remount EXCEPT ![m] = NotRemounting]
        /\ remounted' = [remounted EXCEPT ![m] = remounted[m]]
    BY <1>4, <2>2, <2>3 DEF RemountEnd, StatsRestored, OInv, OptionTypes
  <2>6. remounted[m] # "broken" => (remount[m].prev <=> chosen[m])
    BY <2>1 DEF OInv, StatsKept
  <2>7. remounted[m] # "broken" => (o.stats <=> chosen[m])  BY <2>2, <2>4, <2>6, Zenon
  <2> QED  BY <1>1, <2>4, <2>5, <2>7, NotRemountingTyped, OneMount
<1> QED  BY <1>2, <1>3, <1>4

LEMMA StepKeepsOptions == OInv /\ [Next]_vars => OInv'
<1> SUFFICES ASSUME OInv, [Next]_vars  PROVE OInv'  OBVIOUS
<1>1. ASSUME NEW m \in Mounts, KillSuper(m)  PROVE OInv'
  <2>1. /\ UNCHANGED <<ovars, chosen>> /\ ~remount[m].busy
        /\ state' = [state EXCEPT ![m] = "dying"]
    BY <1>1 DEF KillSuper
  <2>2. DOMAIN state = Mounts  BY DEF OInv, OptionTypes
  <2> QED  BY <2>1, <2>2, StateKeeps
<1>2. ASSUME NEW m \in Mounts, EvictInode(m)  PROVE OInv'
  BY <1>2, StateKeeps DEF EvictInode, OInv, OptionTypes
<1>3. CASE UNCHANGED vars
  BY <1>3, StateKeeps DEF vars, OInv, OptionTypes
<1> QED  BY <1>1, <1>2, <1>3, TasksKeepOptions, MountKeepsOptions, FreeKeepsOptions,
            RemountKeepsOptions DEF Next

(* binderfs_remount puts the stats mode back that it finds changed, so that *)
(* a mount keeps the one it was made with until an option that is not       *)
(* accepted ends a remount halfway: for any number of options and remounts, *)
(* while devices are made and mounts come and go.                           *)
THEOREM StatsAreKept == Spec => []StatsKeptByWhole
<1>1. OInv => StatsKeptByWhole
  <2> SUFFICES ASSUME OInv, NEW m \in Mounts, remounted[m] # "broken", ~remount[m].busy
               PROVE  opts[m].stats = chosen[m]
    BY DEF StatsKeptByWhole
  <2>1. opts[m].stats <=> chosen[m]  BY DEF OInv, StatsKept
  <2>2. opts[m].stats \in BOOLEAN /\ chosen[m] \in BOOLEAN  BY DEF OInv, OptionTypes, Opts
  <2> QED  BY <2>1, <2>2
<1> QED  BY <1>1, OptionsInit, StepKeepsOptions, PTL DEF Spec

-----------------------------------------------------------------------------
(* Who works on which mount.                                                *)
States == {"none", "mounting", "mounted", "failed", "dying"}
JobNames == Names \cup {"none"}
Jobs == [mount : Mounts, name : JobNames, minor : Int, todo : Seq(Names)]
Working == {"mounting", "mounted", "failed"}

PhaseTypes ==
  /\ state \in [Mounts -> States]
  /\ pc \in [Tasks -> {"idle", "control", "next", "reserve", "link", "undo"}]
  /\ job \in [Tasks -> Jobs \cup {NoJob}]
  /\ \A t \in Tasks : pc[t] # "idle" => job[t] \in Jobs

(* A task is at work only on a mount that is there, the one that mounts it  *)
(* is alone, it makes the control device first, and what is gone has none.  *)
Phases ==
  /\ PhaseTypes
  /\ \A t \in Tasks : pc[t] # "idle" => state[job[t].mount] \in Working
  /\ \A t \in Tasks : pc[t] \in {"control", "next"} => state[job[t].mount] = "mounting"
  /\ \A t, u \in Tasks : /\ pc[t] # "idle" /\ pc[u] # "idle" /\ job[t].mount = job[u].mount
                         /\ state[job[t].mount] = "mounting"
                         => t = u
  /\ \A t \in Tasks : pc[t] = "control" => control[job[t].mount] = None
  /\ DOMAIN control = Mounts /\ DOMAIN devices = Mounts
  /\ \A m \in Mounts : state[m] = "none" => devices[m] = {} /\ control[m] = None

LEMMA JobTyped ==
  ASSUME NEW m \in Mounts, NEW name \in JobNames, NEW todo \in Seq(Names)
  PROVE  Job(m, name, todo) \in Jobs /\ Job(m, name, todo).mount = m
BY DEF Job, Jobs, None

(* A task that is at work goes on, or is done with its mount.               *)
LEMMA GoesOn ==
  ASSUME Phases, NEW t \in Tasks, pc[t] # "idle", NEW m, m = job[t].mount,
         NEW l \in {"idle", "next", "reserve", "link", "undo"},
         pc' = [pc EXCEPT ![t] = l], job' \in [Tasks -> Jobs \cup {NoJob}],
         \A u \in Tasks \ {t} : job'[u] = job[u],
         state' \in [Mounts -> States], \A k \in Mounts \ {m} : state'[k] = state[k],
         l # "idle" => job'[t] \in Jobs /\ job'[t].mount = m /\ state'[m] = state[m],
         l = "next" => state[m] = "mounting",
         \/ state'[m] = state[m]
         \/ state[m] = "mounting" /\ state'[m] \in {"mounted", "failed"},
         DOMAIN control' = Mounts, \A k \in Mounts \ {m} : control'[k] = control[k],
         control'[m] = control[m] \/ pc[t] = "control",
         DOMAIN devices' = Mounts, \A k \in Mounts \ {m} : devices'[k] = devices[k]
  PROVE  Phases'
<1>1. m \in Mounts /\ state[m] \in Working /\ state'[m] \in Working
  BY DEF Phases, PhaseTypes, Jobs, Working
<1>2. /\ \A k \in Mounts : k # m => state'[k] = state[k]
      /\ \A u \in Tasks : u # t => pc'[u] = pc[u] /\ job'[u] = job[u]
      /\ pc'[t] = l
  BY <1>1 DEF Phases, PhaseTypes
<1>3. PhaseTypes'
  BY <1>1, <1>2 DEF Phases, PhaseTypes, States, Working
<1>4. \A u \in Tasks : pc'[u] # "idle" =>
        /\ pc[u] # "idle" /\ job'[u].mount = job[u].mount
        /\ job[u].mount \in Mounts
        /\ u # t => pc'[u] = pc[u]
  BY <1>2 DEF Phases, PhaseTypes, Jobs
<1>5. ASSUME NEW u \in Tasks, u # t, pc[u] # "idle", job[u].mount = m
      PROVE  state[m] # "mounting" /\ state'[m] = state[m]
  BY <1>5 DEF Phases
<1>6. \A u \in Tasks : pc'[u] # "idle" => state'[job'[u].mount] \in Working
  BY <1>1, <1>2, <1>4 DEF Phases
<1>7. \A u \in Tasks : pc'[u] \in {"control", "next"} => state'[job'[u].mount] = "mounting"
  <2> SUFFICES ASSUME NEW u \in Tasks, pc'[u] \in {"control", "next"}
               PROVE  state'[job'[u].mount] = "mounting"
    OBVIOUS
  <2>1. CASE u = t  BY <1>2, <2>1
  <2>2. CASE u # t  BY <1>2, <1>4, <1>5, <2>2 DEF Phases
  <2> QED  BY <2>1, <2>2
<1>8. \A u, v \in Tasks : /\ pc'[u] # "idle" /\ pc'[v] # "idle" /\ job'[u].mount = job'[v].mount
                          /\ state'[job'[u].mount] = "mounting"
                          => u = v
  BY <1>1, <1>2, <1>4 DEF Phases
<1>9. \A u \in Tasks : pc'[u] = "control" => control'[job'[u].mount] = None
  <2> SUFFICES ASSUME NEW u \in Tasks, pc'[u] = "control"
               PROVE  control'[job'[u].mount] = None
    OBVIOUS
  <2>1. u # t /\ pc[u] = "control" /\ job'[u].mount = job[u].mount /\ job[u].mount \in Mounts
    BY <1>2, <1>4
  <2>2. control[job[u].mount] = None /\ state[job[u].mount] = "mounting"
    BY <2>1 DEF Phases
  <2>3. job[u].mount # m  BY <1>5, <2>1, <2>2
  <2> QED  BY <2>1, <2>2, <2>3
<1>10. \A k \in Mounts : state'[k] = "none" => devices'[k] = {} /\ control'[k] = None
  BY <1>1, <1>2 DEF Phases, Working
<1> QED  BY <1>3, <1>6, <1>7, <1>8, <1>9, <1>10 DEF Phases

(* A task begins: it mounts, or it makes a device on a mounted one.         *)
LEMMA Begins ==
  ASSUME Phases, NEW t \in Tasks, pc[t] = "idle", NEW m \in Mounts,
         NEW j \in Jobs, j.mount = m, NEW l, NEW s,
         \/ l = "control" /\ state[m] = "none" /\ s = "mounting"
         \/ l = "reserve" /\ state[m] = "mounted" /\ s = "mounted",
         pc' = [pc EXCEPT ![t] = l], job' = [job EXCEPT ![t] = j],
         state' = [state EXCEPT ![m] = s],
         UNCHANGED <<control, devices>>
  PROVE  Phases'
<1>1. /\ \A k \in Mounts : k # m => state'[k] = state[k]
      /\ state'[m] = s
      /\ \A u \in Tasks : u # t => pc'[u] = pc[u] /\ job'[u] = job[u]
      /\ pc'[t] = l /\ job'[t] = j
  BY DEF Phases, PhaseTypes
<1>2. PhaseTypes'
  BY <1>1 DEF Phases, PhaseTypes, States
<1>3. \A u \in Tasks : u # t /\ pc[u] # "idle" =>
        /\ job[u].mount \in Mounts /\ state[job[u].mount] \in Working
        /\ s = "mounting" => job[u].mount # m
  BY DEF Phases, PhaseTypes, Jobs, Working
<1>4. \A u \in Tasks : pc'[u] # "idle" => state'[job'[u].mount] \in Working
  BY <1>1, <1>3 DEF Working
<1>5. \A u \in Tasks : pc'[u] \in {"control", "next"} => state'[job'[u].mount] = "mounting"
  BY <1>1, <1>3 DEF Phases
<1>6. \A u, v \in Tasks : /\ pc'[u] # "idle" /\ pc'[v] # "idle" /\ job'[u].mount = job'[v].mount
                          /\ state'[job'[u].mount] = "mounting"
                          => u = v
  BY <1>1, <1>3 DEF Phases
<1>7. \A u \in Tasks : pc'[u] = "control" => control'[job'[u].mount] = None
  BY <1>1 DEF Phases
<1>8. \A k \in Mounts : state'[k] = "none" => devices'[k] = {} /\ control'[k] = None
  BY <1>1 DEF Phases
<1> QED  BY <1>2, <1>4, <1>5, <1>6, <1>7, <1>8 DEF Phases

(* A mount ends, when nobody works on it.                                   *)
LEMMA Ends ==
  ASSUME Phases, UNCHANGED <<pc, job>>, NEW m \in Mounts, NEW s \in {"none", "dying"},
         \A t \in Tasks : pc[t] # "idle" => job[t].mount # m,
         state' = [state EXCEPT ![m] = s],
         DOMAIN control' = Mounts, \A k \in Mounts \ {m} : control'[k] = control[k],
         DOMAIN devices' = Mounts, \A k \in Mounts \ {m} : devices'[k] = devices[k],
         s = "none" => devices'[m] = {} /\ control'[m] = None
  PROVE  Phases'
<1>1. /\ \A k \in Mounts : k # m => state'[k] = state[k]
      /\ state'[m] = s
  BY DEF Phases, PhaseTypes
<1>2. PhaseTypes'  BY <1>1 DEF Phases, PhaseTypes, States
<1>3. \A u \in Tasks : pc[u] # "idle" =>
        job[u].mount \in Mounts /\ state'[job[u].mount] = state[job[u].mount]
  BY <1>1 DEF Phases, PhaseTypes, Jobs
<1>4. \A u \in Tasks : pc[u] # "idle" => control'[job[u].mount] = control[job[u].mount]
  BY <1>3
<1>5. \A k \in Mounts : state'[k] = "none" => devices'[k] = {} /\ control'[k] = None
  BY <1>1 DEF Phases
<1> QED  BY <1>2, <1>3, <1>4, <1>5 DEF Phases

LEMMA WorkKeepsPhases ==
  ASSUME Phases, NEW t \in Tasks,
         \/ MakeControl(t) \/ NextDefault(t) \/ Reserve(t) \/ LinkDevice(t) \/ NoMemory(t)
         \/ Undo(t)
  PROVE  Phases'
<1> DEFINE m == job[t].mount
<1>1. pc[t] # "idle"
  BY DEF MakeControl, NextDefault, Reserve, LinkDevice, NoMemory, Undo
<1>2. /\ job[t] \in Jobs /\ m \in Mounts
      /\ job \in [Tasks -> Jobs \cup {NoJob}] /\ DOMAIN pc = Tasks
      /\ state \in [Mounts -> States]
  BY <1>1 DEF Phases, PhaseTypes, Jobs
<1>3. Idle(t) => /\ job' \in [Tasks -> Jobs \cup {NoJob}]
                 /\ \A u \in Tasks \ {t} : job'[u] = job[u]
  BY <1>2 DEF Idle
<1>4. /\ DOMAIN control = Mounts /\ DOMAIN devices = Mounts
      /\ pc[t] = "next" => state[m] = "mounting"
      /\ pc[t] = "control" => state[m] = "mounting"
  BY DEF Phases
<1>15. ASSUME NEW s \in {"mounted", "failed"}, state' = [state EXCEPT ![m] = s]
       PROVE  /\ state' \in [Mounts -> States] /\ state'[m] = s
              /\ \A k \in Mounts \ {m} : state'[k] = state[k]
  BY <1>2, <1>15 DEF States
<1>5. CASE Idle(t) /\ UNCHANGED <<state, control, devices>>
  BY <1>1, <1>2, <1>3, <1>4, <1>5, GoesOn DEF Idle
<1>6. CASE Idle(t) /\ state[m] = "mounting" /\ Failed(m) /\ UNCHANGED <<control, devices>>
  BY <1>1, <1>2, <1>4, <1>6, <1>15, GoesOn DEF Idle, Failed
<1>7. CASE MakeControl(t)
  <2>1. \/ Idle(t) /\ Failed(m) /\ UNCHANGED <<control, devices>>
        \/ \E n : /\ control' = [control EXCEPT ![m] = n]
                  /\ pc' = [pc EXCEPT ![t] = "next"]
                  /\ UNCHANGED <<state, job, devices>>
    BY <1>7 DEF MakeControl
  <2>2. state[m] = "mounting" /\ pc[t] = "control"  BY <1>4, <1>7 DEF MakeControl
  <2>3. ASSUME NEW n, control' = [control EXCEPT ![m] = n], pc' = [pc EXCEPT ![t] = "next"],
               UNCHANGED <<state, job, devices>>
        PROVE  Phases'
    <3>1. DOMAIN control' = Mounts /\ \A k \in Mounts \ {m} : control'[k] = control[k]
      BY <1>4, <2>3
    <3> QED  BY <1>1, <1>2, <1>4, <2>2, <2>3, <3>1, GoesOn
  <2> QED  BY <1>6, <2>1, <2>2, <2>3
<1>8. CASE NextDefault(t)
  <2>1. state[m] = "mounting" /\ UNCHANGED <<control, devices>>
    BY <1>4, <1>8 DEF NextDefault
  <2>2. CASE job[t].todo = <<>>
    <3>1. state' = [state EXCEPT ![m] = "mounted"] /\ Idle(t)
      BY <1>8, <2>2 DEF NextDefault
    <3> QED  BY <1>1, <1>2, <1>4, <2>1, <3>1, <1>15, GoesOn DEF Idle
  <2>3. CASE job[t].todo # <<>>
    <3>1. PICK j : j = [job[t] EXCEPT !.name = Head(job[t].todo), !.todo = Tail(job[t].todo)]
      OBVIOUS
    <3>2. job[t].todo \in Seq(Names)  BY <1>2 DEF Jobs
    <3>3. Head(job[t].todo) \in JobNames /\ Tail(job[t].todo) \in Seq(Names)
      BY <2>3, <3>2 DEF JobNames
    <3>4. j \in Jobs /\ j.mount = m  BY <1>2, <3>1, <3>3 DEF Jobs
    <3>5. /\ pc' = [pc EXCEPT ![t] = "reserve"] /\ UNCHANGED state
          /\ job' = [job EXCEPT ![t].name = Head(job[t].todo), ![t].todo = Tail(@)]
      BY <1>8, <2>3 DEF NextDefault
    <3>6. job' = [job EXCEPT ![t] = j]
      BY <1>2, <3>1, <3>5
    <3>7. /\ job' \in [Tasks -> Jobs \cup {NoJob}] /\ job'[t] = j
          /\ \A u \in Tasks \ {t} : job'[u] = job[u]
      BY <1>2, <3>4, <3>6
    <3> QED  BY <1>1, <1>2, <1>4, <2>1, <3>4, <3>5, <3>7, GoesOn
  <2> QED  BY <2>2, <2>3
<1>9. CASE GivenUp(t) /\ UNCHANGED <<control, devices>>
  BY <1>5, <1>6, <1>9 DEF GivenUp
<1>10. CASE Reserve(t)
  <2>1. CASE GivenUp(t)  BY <1>9, <1>10, <2>1 DEF Reserve
  <2>2. ASSUME NEW n \in 0 .. Limit(m), job' = [job EXCEPT ![t].minor = n],
               pc' = [pc EXCEPT ![t] = "link"], UNCHANGED <<state, control, devices>>
        PROVE  Phases'
    <3>1. PICK j : j = [job[t] EXCEPT !.minor = n]  OBVIOUS
    <3>2. j \in Jobs /\ j.mount = m  BY <1>2, <3>1 DEF Jobs
    <3>3. job' = [job EXCEPT ![t] = j]  BY <1>2, <2>2, <3>1
    <3>4. /\ job' \in [Tasks -> Jobs \cup {NoJob}] /\ job'[t] = j
          /\ \A u \in Tasks \ {t} : job'[u] = job[u]
      BY <1>2, <3>2, <3>3
    <3> QED  BY <1>1, <1>2, <1>4, <2>2, <3>2, <3>4, GoesOn
  <2> QED  BY <1>10, <2>1, <2>2 DEF Reserve
<1>11. CASE pc' = [pc EXCEPT ![t] = "undo"] /\ UNCHANGED <<state, job, control, devices>>
  BY <1>1, <1>2, <1>4, <1>11, GoesOn
<1>12. CASE LinkDevice(t)
  <2>1. /\ UNCHANGED control
        /\ DOMAIN devices' = Mounts /\ \A k \in Mounts \ {m} : devices'[k] = devices[k]
    BY <1>4, <1>12 DEF LinkDevice, Link
  <2>2. CASE Done(t) /\ state[m] = "mounting"
    <3>1. pc' = [pc EXCEPT ![t] = "next"] /\ UNCHANGED <<state, job>>
      BY <2>2 DEF Done
    <3> QED  BY <1>1, <1>2, <1>4, <2>1, <2>2, <3>1, GoesOn
  <2>3. CASE Done(t) /\ state[m] # "mounting"
    <3>1. Idle(t) /\ UNCHANGED state  BY <2>3 DEF Done
    <3> QED  BY <1>1, <1>2, <1>3, <1>4, <2>1, <3>1, GoesOn DEF Idle
  <2> QED  BY <1>11, <1>12, <2>1, <2>2, <2>3 DEF LinkDevice, Link
<1>13. CASE NoMemory(t)  BY <1>11, <1>13 DEF NoMemory
<1>14. CASE Undo(t)  BY <1>9, <1>14 DEF Undo
<1> QED  BY <1>7, <1>8, <1>10, <1>12, <1>13, <1>14

LEMMA StepKeepsPhases == Phases /\ [Next]_vars => Phases'
<1> SUFFICES ASSUME Phases, [Next]_vars  PROVE Phases'  OBVIOUS
<1>1. CASE UNCHANGED <<state, pc, job, control, devices>>
  BY <1>1 DEF Phases, PhaseTypes
<1>2. ASSUME NEW t \in Tasks, NEW m \in Mounts, NEW list \in OptionLists, Mount(t, m, list)
      PROVE  Phases'
  <2>1. PICK j : j = Job(m, "none", DefaultNames)  OBVIOUS
  <2>2. "none" \in JobNames /\ DefaultNames \in Seq(Names)
    BY BinderfsConstants DEF JobNames
  <2>3. j \in Jobs /\ j.mount = m  BY <2>1, <2>2, JobTyped
  <2> QED  BY <1>2, <2>1, <2>3, Begins DEF Mount
<1>3. ASSUME NEW t \in Tasks, NEW m \in Mounts, NEW name \in Names, AddDevice(t, m, name)
      PROVE  Phases'
  <2>1. PICK j : j = Job(m, name, <<>>)  OBVIOUS
  <2>2. name \in JobNames /\ <<>> \in Seq(Names)  BY DEF JobNames
  <2>4. j \in Jobs /\ j.mount = m  BY <2>1, <2>2, JobTyped
  <2>3. state' = [state EXCEPT ![m] = "mounted"] /\ state[m] = "mounted"
    BY <1>3 DEF AddDevice, Phases, PhaseTypes
  <2> QED  BY <1>3, <2>1, <2>3, <2>4, Begins DEF AddDevice
<1>4. ASSUME NEW m \in Mounts, KillSuper(m)  PROVE Phases'
  <2>1. \A t \in Tasks : pc[t] # "idle" => job[t].mount # m
    BY <1>4 DEF KillSuper, Mounting
  <2>2. /\ UNCHANGED <<pc, job, control, devices>>
        /\ state' = [state EXCEPT ![m] = "dying"]
    BY <1>4 DEF KillSuper
  <2> QED  BY <2>1, <2>2, Ends DEF Phases
<1>5. ASSUME NEW m \in Mounts, state[m] = "dying"
      PROVE  \A t \in Tasks : pc[t] # "idle" => job[t].mount # m
  BY <1>5 DEF Phases, Working
<1>6. ASSUME NEW m \in Mounts, EvictInode(m)  PROVE Phases'
  <2>1. /\ UNCHANGED <<pc, job, state>> /\ state[m] = "dying"
        /\ DOMAIN control' = Mounts /\ \A k \in Mounts \ {m} : control'[k] = control[k]
        /\ DOMAIN devices' = Mounts /\ \A k \in Mounts \ {m} : devices'[k] = devices[k]
    BY <1>6 DEF EvictInode, Evict, Phases
  <2>2. state' = [state EXCEPT ![m] = "dying"]  BY <2>1 DEF Phases, PhaseTypes
  <2> QED  BY <1>5, <2>1, <2>2, Ends
<1>7. ASSUME NEW m \in Mounts, FreeInfo(m)  PROVE Phases'
  <2>1. /\ UNCHANGED <<pc, job, control, devices>> /\ state[m] = "dying"
        /\ state' = [state EXCEPT ![m] = "none"] /\ devices[m] = {} /\ control[m] = None
    BY <1>7 DEF FreeInfo
  <2> QED  BY <1>5, <2>1, Ends DEF Phases
<1>8. ASSUME NEW m \in Mounts, \/ \E list \in OptionLists : RemountStart(m, list)
                               \/ RemountOption(m) \/ RemountEnd(m)
      PROVE  Phases'
  BY <1>1, <1>8 DEF RemountStart, RemountOption, RemountEnd
<1>9. CASE UNCHANGED vars
  BY <1>1, <1>9 DEF vars
<1> QED  BY <1>2, <1>3, <1>4, <1>6, <1>7, <1>8, <1>9, WorkKeepsPhases DEF Next

LEMMA PhasesInit == Init => Phases
<1> SUFFICES ASSUME Init  PROVE Phases  OBVIOUS
<1>1. PhaseTypes  BY DEF Init, PhaseTypes, States
<1> QED  BY <1>1 DEF Init, Phases

-----------------------------------------------------------------------------
(* Who has which number.                                                    *)
Numbers == 0 .. BINDERFS_MAX_MINOR
Devices == [name : JobNames, minor : Numbers]
Reservers == {t \in Tasks : pc[t] \in {"link", "undo"}}

LedgerTypes ==
  /\ minors \subseteq Numbers
  /\ control \in [Mounts -> Numbers \cup {None}]
  /\ devices \in [Mounts -> SUBSET Devices]
  /\ DOMAIN job = Tasks /\ DOMAIN pc = Tasks

(* No two devices, tasks or control devices have the same number.           *)
OneOwner ==
  /\ \A m, k \in Mounts : \A d \in devices[m], e \in devices[k] :
       d.minor = e.minor => m = k /\ d = e
  /\ \A t, u \in Reservers : job[t].minor = job[u].minor => t = u
  /\ \A m, k \in Mounts : control[m] = control[k] /\ control[m] # None => m = k
  /\ \A m \in Mounts : \A d \in devices[m] : \A t \in Reservers : d.minor # job[t].minor
  /\ \A m, k \in Mounts : \A d \in devices[m] : d.minor # control[k]
  /\ \A m \in Mounts : \A t \in Reservers : job[t].minor # control[m]

Owned(n) ==
  \/ \E m \in Mounts : \E d \in devices[m] : d.minor = n
  \/ \E t \in Reservers : job[t].minor = n
  \/ \E m \in Mounts : control[m] = n

Accounted ==
  /\ leaked \subseteq minors
  /\ \A n \in minors \ leaked : Owned(n)
  /\ \A m \in Mounts : \A d \in devices[m] : d.minor \in minors \ leaked
  /\ \A t \in Reservers : job[t].minor \in minors \ leaked
  /\ \A m \in Mounts : control[m] # None => control[m] \in minors \ leaked

Ledger == LedgerTypes /\ OneOwner /\ Accounted

LEMMA LedgerInit == Init => Ledger
<1> SUFFICES ASSUME Init  PROVE Ledger  OBVIOUS
<1>1. Reservers = {}  BY DEF Init, Reservers
<1> QED  BY <1>1 DEF Init, Ledger, LedgerTypes, OneOwner, Accounted

LEMMA NoNumber == None \notin Numbers
BY BinderfsConstants DEF None, Numbers

(* Steps that take and give back nothing.                                   *)
LEMMA LedgerStays ==
  ASSUME Ledger, UNCHANGED <<minors, leaked, control, devices>>,
         DOMAIN job' = Tasks, DOMAIN pc' = Tasks, Reservers' = Reservers,
         \A t \in Reservers : job'[t].minor = job[t].minor
  PROVE  Ledger'
BY DEF Ledger, LedgerTypes, OneOwner, Accounted, Owned

(* The control device gets a number, or one is lost on the way.             *)
LEMMA ControlKeepsLedger ==
  ASSUME Ledger, Phases, NEW t \in Tasks, MakeControl(t)
  PROVE  Ledger'
<1> DEFINE m == job[t].mount
<1>1. /\ pc[t] = "control" /\ m \in Mounts /\ control[m] = None
      /\ UNCHANGED devices
  BY DEF MakeControl, Phases, PhaseTypes, Jobs
<1>2. /\ DOMAIN job' = Tasks /\ DOMAIN pc' = Tasks /\ Reservers' = Reservers
      /\ \A u \in Reservers : job'[u].minor = job[u].minor
  BY <1>1 DEF MakeControl, Idle, Ledger, LedgerTypes, Reservers
<1>3. ASSUME NEW n \in 0 .. Limit(m), Free(n, m), minors' = minors \cup {n},
             control' = [control EXCEPT ![m] = n], UNCHANGED leaked
      PROVE  Ledger'
  <2>1. n \in Numbers /\ n \notin minors
    BY <1>3, BinderfsConstants DEF Free, Limit, Numbers
  <2>2. control'[m] = n /\ \A k \in Mounts : k # m => control'[k] = control[k]
    BY <1>1, <1>3 DEF Ledger, LedgerTypes
  <2>3. LedgerTypes'
    BY <1>1, <1>2, <1>3, <2>1 DEF Ledger, LedgerTypes
  <2>4. OneOwner'
    BY <1>1, <1>2, <2>1, <2>2 DEF Ledger, OneOwner, Accounted
  <2>5. Accounted'
    <3>1. \A k \in minors' \ leaked' : Owned(k)'
      <4> SUFFICES ASSUME NEW k \in minors' \ leaked  PROVE Owned(k)'
        BY <1>3
      <4>1. CASE k = n  BY <1>1, <2>2, <4>1 DEF Owned
      <4>2. CASE k # n
        <5>1. Owned(k) /\ k # None
          BY <1>3, <4>2, NoNumber DEF Ledger, Accounted, LedgerTypes
        <5> QED  BY <1>1, <1>2, <2>2, <5>1 DEF Owned
      <4> QED  BY <4>1, <4>2
    <3>2. \A k \in Mounts : control'[k] # None => control'[k] \in minors' \ leaked'
      BY <1>3, <2>1, <2>2 DEF Ledger, Accounted
    <3> QED  BY <1>1, <1>2, <1>3, <3>1, <3>2 DEF Ledger, Accounted
  <2> QED  BY <2>3, <2>4, <2>5 DEF Ledger
<1>4. ASSUME NEW n \in 0 .. Limit(m), Free(n, m), minors' = minors \cup {n},
             leaked' = leaked \cup {n}, UNCHANGED control
      PROVE  Ledger'
  <2>1. n \in Numbers /\ n \notin minors
    BY <1>4, BinderfsConstants DEF Free, Limit, Numbers
  <2>2. LedgerTypes'  BY <1>1, <1>2, <1>4, <2>1 DEF Ledger, LedgerTypes
  <2>3. OneOwner'  BY <1>1, <1>2, <1>4 DEF Ledger, OneOwner
  <2>4. Accounted'
    BY <1>1, <1>2, <1>4, <2>1 DEF Ledger, Accounted, Owned
  <2> QED  BY <2>2, <2>3, <2>4 DEF Ledger
<1>5. CASE UNCHANGED <<minors, leaked, control>>
  BY <1>1, <1>2, <1>5, LedgerStays
<1> QED  BY <1>3, <1>4, <1>5 DEF MakeControl

(* A task takes a number.                                                   *)
LEMMA ReserveKeepsLedger ==
  ASSUME Ledger, Phases, NEW t \in Tasks, Reserve(t)
  PROVE  Ledger'
<1> DEFINE m == job[t].mount
<1>1. pc[t] = "reserve" /\ UNCHANGED <<devices, control, leaked>>
  BY DEF Reserve
<1>2. CASE GivenUp(t) /\ UNCHANGED minors
  <2>1. /\ DOMAIN job' = Tasks /\ DOMAIN pc' = Tasks /\ Reservers' = Reservers
        /\ \A u \in Reservers : job'[u].minor = job[u].minor
    BY <1>1, <1>2 DEF GivenUp, Idle, Ledger, LedgerTypes, Reservers
  <2> QED  BY <1>1, <1>2, <2>1, LedgerStays
<1>3. ASSUME NEW n \in 0 .. Limit(m), Free(n, m), minors' = minors \cup {n},
             job' = [job EXCEPT ![t].minor = n], pc' = [pc EXCEPT ![t] = "link"]
      PROVE  Ledger'
  <2>1. n \in Numbers /\ n \notin minors
    BY <1>3, BinderfsConstants DEF Free, Limit, Numbers
  <2>2. Reservers' = Reservers \cup {t} /\ t \notin Reservers
    BY <1>1, <1>3 DEF Reservers, Ledger, LedgerTypes
  <2>3. job'[t].minor = n /\ \A u \in Reservers : job'[u].minor = job[u].minor
    BY <1>1, <1>3, <2>2 DEF Ledger, LedgerTypes, Reservers, Phases, PhaseTypes, Jobs
  <2>4. LedgerTypes'
    BY <1>1, <1>3, <2>1 DEF Ledger, LedgerTypes
  <2>5. OneOwner'
    BY <1>1, <2>1, <2>2, <2>3, NoNumber DEF Ledger, LedgerTypes, OneOwner, Accounted
  <2>6. Accounted'
    <3>1. \A k \in minors' \ leaked' : Owned(k)'
      <4> SUFFICES ASSUME NEW k \in minors' \ leaked  PROVE Owned(k)'
        BY <1>1
      <4>1. CASE k = n  BY <2>2, <2>3, <4>1 DEF Owned
      <4>2. CASE k # n
        <5>1. Owned(k)  BY <1>3, <4>2 DEF Ledger, Accounted
        <5> QED  BY <1>1, <2>2, <2>3, <5>1 DEF Owned
      <4> QED  BY <4>1, <4>2
    <3>2. \A u \in Reservers' : job'[u].minor \in minors' \ leaked'
      BY <1>1, <1>3, <2>1, <2>2, <2>3 DEF Ledger, Accounted
    <3> QED  BY <1>1, <1>3, <3>1, <3>2 DEF Ledger, Accounted
  <2> QED  BY <2>4, <2>5, <2>6 DEF Ledger
<1> QED  BY <1>2, <1>3 DEF Reserve

(* The number goes from the task to the device.                             *)
LEMMA LinkKeepsLedger ==
  ASSUME Ledger, Phases, NEW t \in Tasks, LinkDevice(t)
  PROVE  Ledger'
<1> DEFINE m == job[t].mount
<1>1. /\ pc[t] = "link" /\ UNCHANGED <<control, leaked, minors>>
      /\ t \in Reservers /\ m \in Mounts /\ job[t] \in Jobs
  BY DEF LinkDevice, mvars, Reservers, Phases, PhaseTypes, Jobs
<1>2. CASE pc' = [pc EXCEPT ![t] = "undo"] /\ UNCHANGED <<devices, job>>
  <2>1. DOMAIN pc' = Tasks /\ Reservers' = Reservers
    BY <1>1, <1>2 DEF Reservers, Ledger, LedgerTypes
  <2> QED  BY <1>1, <1>2, <2>1, LedgerStays DEF Ledger, LedgerTypes
<1>3. CASE /\ devices' = [devices EXCEPT ![m] =
                            @ \cup {[name |-> job[t].name, minor |-> job[t].minor]}]
           /\ Done(t)
  <2>1. PICK d : d = [name |-> job[t].name, minor |-> job[t].minor]  OBVIOUS
  <2>2. d \in Devices /\ d.minor = job[t].minor
    BY <1>1, <2>1 DEF Devices, Jobs, Ledger, LedgerTypes, Accounted
  <2>3. /\ \A k \in Mounts : devices'[k] = IF k = m THEN devices[k] \cup {d} ELSE devices[k]
        /\ devices' \in [Mounts -> SUBSET Devices]
    BY <1>3, <2>1, <2>2 DEF Ledger, LedgerTypes
  <2>4. /\ DOMAIN pc' = Tasks /\ DOMAIN job' = Tasks /\ Reservers' = Reservers \ {t}
        /\ \A u \in Reservers' : job'[u] = job[u]
    BY <1>1, <1>3 DEF Done, Idle, Ledger, LedgerTypes, Reservers
  <2>5. LedgerTypes'  BY <1>1, <2>3, <2>4 DEF Ledger, LedgerTypes
  <2>6. OneOwner'
    BY <1>1, <2>2, <2>3, <2>4 DEF Ledger, OneOwner
  <2>7. Accounted'
    <3>1. ASSUME NEW k \in minors \ leaked  PROVE Owned(k)'
      <4>1. CASE k = job[t].minor
        <5>1. d \in devices'[m]  BY <1>1, <2>3
        <5> QED  BY <1>1, <2>2, <4>1, <5>1 DEF Owned
      <4>2. CASE k # job[t].minor
        <5>1. Owned(k)  BY <3>1 DEF Ledger, Accounted
        <5>2. \A n \in Mounts : devices[n] \subseteq devices'[n]  BY <2>3
        <5> QED  BY <1>1, <2>4, <4>2, <5>1, <5>2 DEF Owned
      <4> QED  BY <4>1, <4>2
    <3>2. \A n \in Mounts : \A e \in devices'[n] : e.minor \in minors \ leaked
      BY <1>1, <2>2, <2>3 DEF Ledger, Accounted
    <3> QED  BY <1>1, <2>4, <3>1, <3>2 DEF Ledger, Accounted
  <2> QED  BY <2>5, <2>6, <2>7 DEF Ledger
<1> QED  BY <1>2, <1>3 DEF LinkDevice, Link

(* A task gives its number back.                                            *)
LEMMA UndoKeepsLedger ==
  ASSUME Ledger, Phases, NEW t \in Tasks, Undo(t)
  PROVE  Ledger'
<1> DEFINE n == job[t].minor
<1>1. /\ pc[t] = "undo" /\ UNCHANGED <<control, leaked, devices>> /\ t \in Reservers
      /\ minors' = minors \ {n} /\ n \in minors \ leaked
  BY DEF Undo, Release, Reservers, Ledger, Accounted
<1>2. /\ DOMAIN pc' = Tasks /\ DOMAIN job' = Tasks /\ Reservers' = Reservers \ {t}
      /\ \A u \in Reservers' : job'[u] = job[u]
  BY <1>1 DEF Undo, GivenUp, Idle, Ledger, LedgerTypes, Reservers
<1>3. LedgerTypes'  BY <1>1, <1>2 DEF Ledger, LedgerTypes
<1>4. OneOwner'  BY <1>1, <1>2 DEF Ledger, OneOwner
<1>5. Accounted'
  <2>1. ASSUME NEW k \in minors' \ leaked  PROVE Owned(k)'
    <3>1. Owned(k) /\ k # n  BY <1>1, <2>1 DEF Ledger, Accounted
    <3> QED  BY <1>1, <1>2, <3>1 DEF Owned
  <2>2. \A m \in Mounts : \A d \in devices[m] : d.minor # n
    BY <1>1 DEF Ledger, OneOwner
  <2>3. \A u \in Reservers' : job[u].minor # n  BY <1>1, <1>2 DEF Ledger, OneOwner
  <2>4. \A m \in Mounts : control[m] # n  BY <1>1 DEF Ledger, OneOwner
  <2> QED  BY <1>1, <1>2, <2>1, <2>2, <2>3, <2>4 DEF Ledger, Accounted
<1> QED  BY <1>3, <1>4, <1>5 DEF Ledger

(* A device is evicted, or the control device.                              *)
LEMMA EvictKeepsLedger ==
  ASSUME Ledger, NEW m \in Mounts, EvictInode(m)
  PROVE  Ledger'
<1>1. UNCHANGED <<leaked, pc, job>> /\ Reservers' = Reservers
  BY DEF EvictInode, Reservers
<1>2. ASSUME NEW d \in devices[m], minors' = minors \ {d.minor},
             devices' = [devices EXCEPT ![m] = @ \ {d}], UNCHANGED control
      PROVE  Ledger'
  <2>1. /\ \A k \in Mounts : devices'[k] = IF k = m THEN devices[k] \ {d} ELSE devices[k]
        /\ devices' \in [Mounts -> SUBSET Devices]
    BY <1>2 DEF Ledger, LedgerTypes
  <2>2. \A k \in Mounts : devices'[k] \subseteq devices[k]  BY <2>1
  <2>3. LedgerTypes'  BY <1>1, <1>2, <2>1 DEF Ledger, LedgerTypes
  <2>4. OneOwner'  BY <1>1, <1>2, <2>2 DEF Ledger, OneOwner
  <2>5. Accounted'
    <3>1. ASSUME NEW k \in minors' \ leaked  PROVE Owned(k)'
      <4>1. Owned(k) /\ k # d.minor  BY <1>2, <3>1 DEF Ledger, Accounted
      <4>2. \A j \in Mounts : \A e \in devices[j] : e.minor = k => e \in devices'[j]
        BY <2>1, <4>1
      <4> QED  BY <1>1, <1>2, <4>1, <4>2 DEF Owned
    <3>2. \A k \in Mounts : \A e \in devices'[k] : e.minor # d.minor
      BY <1>2, <2>1 DEF Ledger, OneOwner
    <3>3. /\ \A u \in Reservers : job[u].minor # d.minor
          /\ \A k \in Mounts : control[k] # d.minor
      BY <1>2 DEF Ledger, OneOwner
    <3>4. d.minor \notin leaked  BY <1>2 DEF Ledger, Accounted
    <3> QED  BY <1>1, <1>2, <2>2, <3>1, <3>2, <3>3, <3>4 DEF Ledger, Accounted
  <2> QED  BY <2>3, <2>4, <2>5 DEF Ledger
<1>3. ASSUME control[m] # None, minors' = minors \ {control[m]},
             control' = [control EXCEPT ![m] = None], UNCHANGED devices
      PROVE  Ledger'
  <2>1. control'[m] = None /\ \A k \in Mounts : k # m => control'[k] = control[k]
    BY <1>3 DEF Ledger, LedgerTypes
  <2>2. LedgerTypes'  BY <1>1, <1>3 DEF Ledger, LedgerTypes
  <2>3. \A k \in Mounts : \A d \in devices[k] : d.minor # None
    BY NoNumber DEF Ledger, LedgerTypes, Devices
  <2>4. \A t \in Reservers : job[t].minor # None
    BY NoNumber DEF Ledger, LedgerTypes, Accounted
  <2>5. OneOwner'  BY <1>1, <1>3, <2>1, <2>3, <2>4 DEF Ledger, OneOwner
  <2>6. Accounted'
    <3>1. ASSUME NEW k \in minors' \ leaked  PROVE Owned(k)'
      <4>1. Owned(k) /\ k # control[m]  BY <1>3, <3>1 DEF Ledger, Accounted
      <4> QED  BY <1>1, <1>3, <2>1, <4>1 DEF Owned
    <3>2. control[m] \notin leaked  BY <1>3 DEF Ledger, Accounted
    <3>3. /\ \A k \in Mounts : \A d \in devices[k] : d.minor # control[m]
          /\ \A u \in Reservers : job[u].minor # control[m]
          /\ \A k \in Mounts : control'[k] # control[m]
      BY <1>3, <2>1 DEF Ledger, OneOwner
    <3>4. leaked' \subseteq minors'  BY <1>1, <1>3, <3>2 DEF Ledger, Accounted
    <3>5. \A k \in Mounts : control'[k] # None => control'[k] \in minors' \ leaked'
      BY <1>1, <1>3, <2>1, <3>3 DEF Ledger, Accounted
    <3> QED  BY <1>1, <1>3, <3>1, <3>3, <3>4, <3>5 DEF Ledger, Accounted
  <2> QED  BY <2>2, <2>5, <2>6 DEF Ledger
<1> QED  BY <1>2, <1>3 DEF EvictInode, Evict, Release

LEMMA StepKeepsLedger == Ledger /\ Phases /\ [Next]_vars => Ledger'
<1> SUFFICES ASSUME Ledger, Phases, [Next]_vars  PROVE Ledger'  OBVIOUS
<1>1. ASSUME UNCHANGED <<minors, leaked, control, devices, pc, job>>  PROVE Ledger'
  BY <1>1, LedgerStays DEF Ledger, LedgerTypes, Reservers
<1>2. ASSUME NEW t \in Tasks, \/ \E m \in Mounts, list \in OptionLists : Mount(t, m, list)
                              \/ \E m \in Mounts, name \in Names : AddDevice(t, m, name)
                              \/ NextDefault(t) \/ NoMemory(t)
      PROVE  Ledger'
  <2>1. UNCHANGED <<minors, leaked, control, devices>>
    BY <1>2 DEF Mount, AddDevice, NextDefault, NoMemory, mvars
  <2>2. DOMAIN pc = Tasks /\ DOMAIN job = Tasks  BY DEF Ledger, LedgerTypes
  <2>3. \/ /\ pc[t] \in {"idle", "next"}
           /\ \E l \in {"idle", "control", "reserve"} : pc' = [pc EXCEPT ![t] = l]
           /\ \E j : job' = [job EXCEPT ![t] = j]
        \/ pc[t] = "link" /\ pc' = [pc EXCEPT ![t] = "undo"] /\ UNCHANGED job
    <3>1. CASE \E m \in Mounts, list \in OptionLists : Mount(t, m, list)
      BY <3>1 DEF Mount
    <3>2. CASE \E m \in Mounts, name \in Names : AddDevice(t, m, name)
      BY <3>2 DEF AddDevice
    <3>3. CASE NextDefault(t) /\ job[t].todo = <<>>
      BY <3>3 DEF NextDefault, Idle
    <3>4. CASE NextDefault(t) /\ job[t].todo # <<>>
      <4>1. PICK j : j = [job[t] EXCEPT !.name = Head(job[t].todo), !.todo = Tail(job[t].todo)]
        OBVIOUS
      <4>2. job[t] \in Jobs /\ job \in [Tasks -> Jobs \cup {NoJob}]
        BY <3>4 DEF NextDefault, Phases, PhaseTypes
      <4>3. job' = [job EXCEPT ![t].name = Head(job[t].todo), ![t].todo = Tail(@)]
        BY <3>4 DEF NextDefault
      <4>4. job' = [job EXCEPT ![t] = j]  BY <4>1, <4>2, <4>3 DEF Jobs
      <4> QED  BY <3>4, <4>4 DEF NextDefault
    <3>5. CASE NoMemory(t)  BY <3>5 DEF NoMemory
    <3> QED  BY <1>2, <3>1, <3>2, <3>3, <3>4, <3>5
  <2>4. /\ DOMAIN job' = Tasks /\ DOMAIN pc' = Tasks /\ Reservers' = Reservers
        /\ \A u \in Reservers : job'[u].minor = job[u].minor
    BY <2>2, <2>3 DEF Reservers
  <2> QED  BY <2>1, <2>4, LedgerStays
<1>3. ASSUME NEW m \in Mounts, \/ KillSuper(m) \/ FreeInfo(m)
                               \/ \E list \in OptionLists : RemountStart(m, list)
                               \/ RemountOption(m) \/ RemountEnd(m)
      PROVE  Ledger'
  BY <1>1, <1>3 DEF KillSuper, FreeInfo, RemountStart, RemountOption, RemountEnd, mvars
<1>4. CASE UNCHANGED vars  BY <1>1, <1>4 DEF vars, mvars
<1> QED  BY <1>2, <1>3, <1>4, ControlKeepsLedger, ReserveKeepsLedger, LinkKeepsLedger,
            UndoKeepsLedger, EvictKeepsLedger DEF Next

-----------------------------------------------------------------------------
(* The counts of a mount, against its option max.                           *)
TallyOf(m) ==
  /\ IsFiniteSet(devices[m]) /\ IsFiniteSet(Reserving(m))
  /\ state[m] # "dying" =>
       device_count[m] = Cardinality(devices[m]) + Cardinality(Reserving(m))
  /\ remounted[m] = "never" =>
       /\ Cardinality(devices[m]) <= opts[m].max
       /\ state[m] # "dying" => device_count[m] <= opts[m].max

Tally == device_count \in [Mounts -> Int] /\ \A m \in Mounts : TallyOf(m)

LEMMA TallyOfStays ==
  ASSUME NEW m \in Mounts, TallyOf(m),
         device_count'[m] = device_count[m], devices'[m] = devices[m],
         Reserving(m)' = Reserving(m),
         state[m] = "dying" => state'[m] = "dying",
         remounted'[m] = "never" => remounted[m] = "never" /\ opts'[m] = opts[m]
  PROVE  TallyOf(m)'
BY DEF TallyOf

(* Nothing on a mount that is gone, or that nobody made a device on.        *)
LEMMA TallyOfNothing ==
  ASSUME NEW m \in Mounts, devices'[m] = {}, Reserving(m)' = {}, device_count'[m] = 0,
         opts'[m] \in Opts
  PROVE  TallyOf(m)'
<1>1. Cardinality({}) = 0 /\ IsFiniteSet({})  BY FS_EmptySet
<1>2. opts'[m].max \in Nat  BY BinderfsConstants DEF Opts
<1> QED  BY <1>1, <1>2 DEF TallyOf

LEMMA TallyInit == Init => Tally
<1> SUFFICES ASSUME Init  PROVE Tally  OBVIOUS
<1>1. \A m \in Mounts : Reserving(m) = {} /\ devices[m] = {}  BY DEF Init, Reserving
<1>2. Cardinality({}) = 0 /\ IsFiniteSet({})  BY FS_EmptySet
<1>3. \A m \in Mounts : opts[m].max \in Nat
  BY DefaultTyped, BinderfsConstants DEF Init
<1>4. device_count \in [Mounts -> Int] /\ \A m \in Mounts : device_count[m] = 0
  BY DEF Init
<1>5. ASSUME NEW m \in Mounts  PROVE TallyOf(m)
  <2>1. /\ Cardinality(devices[m]) = 0 /\ IsFiniteSet(devices[m])
        /\ Cardinality(Reserving(m)) = 0 /\ IsFiniteSet(Reserving(m))
    BY <1>1, <1>2
  <2> QED  BY <1>3, <1>4, <2>1 DEF TallyOf
<1> QED  BY <1>4, <1>5 DEF Tally

(* A step of a task on another mount.                                       *)
LEMMA ReservingElsewhere ==
  ASSUME NEW t \in Tasks, NEW m \in Mounts,
         \A u \in Tasks \ {t} : pc'[u] = pc[u] /\ job'[u] = job[u],
         t \in Reserving(m)' <=> t \in Reserving(m)
  PROVE  Reserving(m)' = Reserving(m)
BY DEF Reserving

(* The steps of a task that takes no number and gives none back.            *)
LEMMA OtherStepsKeepTally ==
  ASSUME Tally, Phases, OInv, NEW t \in Tasks,
         \/ \E m \in Mounts, list \in OptionLists : Mount(t, m, list)
         \/ \E m \in Mounts, name \in Names : AddDevice(t, m, name)
         \/ MakeControl(t) \/ NextDefault(t) \/ NoMemory(t)
         \/ Reserve(t) /\ GivenUp(t) /\ UNCHANGED device_count
  PROVE  Tally'
<1>1. /\ DOMAIN pc = Tasks /\ DOMAIN job = Tasks /\ job \in [Tasks -> Jobs \cup {NoJob}]
      /\ pc[t] # "idle" => job[t] \in Jobs
      /\ state \in [Mounts -> States]
  BY DEF Phases, PhaseTypes
<1>2. UNCHANGED <<device_count, devices>>
  BY DEF Mount, AddDevice, MakeControl, NextDefault, NoMemory, Reserve, mvars
<1>3. \A u \in Tasks \ {t} : pc'[u] = pc[u] /\ job'[u] = job[u]
  BY <1>1 DEF Mount, AddDevice, MakeControl, NextDefault, NoMemory, Reserve, GivenUp, Idle
<1>4. \A m \in Mounts : t \in Reserving(m)' <=> t \in Reserving(m)
  <2>1. CASE NoMemory(t)  BY <1>1, <2>1 DEF NoMemory, Reserving
  <2>2. CASE ~NoMemory(t)
    BY <1>1, <2>2 DEF Mount, AddDevice, MakeControl, NextDefault, Reserve, GivenUp, Idle, Reserving
  <2> QED  BY <2>1, <2>2
<1>5. \A m \in Mounts : Reserving(m)' = Reserving(m)
  BY <1>3, <1>4, ReservingElsewhere
<1>6. \A m \in Mounts : state[m] = "dying" => state'[m] = "dying"
  <2>1. pc[t] # "idle" => state[job[t].mount] # "dying" /\ job[t].mount \in Mounts
    BY <1>1 DEF Phases, Working, Jobs
  <2> QED  BY <1>1, <2>1 DEF Mount, AddDevice, MakeControl, NextDefault, NoMemory, Reserve,
                             GivenUp, Failed
<1>7. CASE UNCHANGED ovars
  BY <1>2, <1>5, <1>6, <1>7, TallyOfStays DEF Tally, ovars
<1>8. ASSUME NEW m \in Mounts, NEW list \in OptionLists, Mount(t, m, list)
      PROVE  Tally'
  <2>1. /\ state[m] = "none" /\ UNCHANGED remounted
        /\ opts' = [opts EXCEPT ![m] = ParsedAll(list)]
    BY <1>8 DEF Mount
  <2>2. ParsedAll(list) \in Opts  BY BinderfsConstants, ParsedAllType
  <2>3. opts'[m] \in Opts /\ \A k \in Mounts : k # m => opts'[k] = opts[k]
    BY <2>1, <2>2 DEF OInv, OptionTypes
  <2>4. Reserving(m) = {}  BY <2>1 DEF Phases, Working, Reserving
  <2>5. devices[m] = {}  BY <2>1 DEF Phases
  <2>6. device_count[m] = 0
    <3>1. device_count[m] = Cardinality({}) + Cardinality({})
      BY <2>1, <2>4, <2>5 DEF Tally, TallyOf
    <3> QED  BY <3>1, FS_EmptySet
  <2>7. TallyOf(m)'
    BY <1>2, <1>5, <2>3, <2>4, <2>5, <2>6, TallyOfNothing
  <2>8. \A k \in Mounts : k # m => TallyOf(k)'
    BY <1>2, <1>5, <1>6, <2>1, <2>3, TallyOfStays DEF Tally
  <2> QED  BY <1>2, <2>7, <2>8 DEF Tally
<1>9. \/ UNCHANGED ovars
      \/ \E m \in Mounts, list \in OptionLists : Mount(t, m, list)
  BY DEF AddDevice, MakeControl, NextDefault, NoMemory, Reserve
<1> QED  BY <1>7, <1>8, <1>9

(* A number is taken, if there is room.                                     *)
LEMMA ReserveKeepsTally ==
  ASSUME Tally, Phases, OInv, NEW t \in Tasks, Reserve(t)
  PROVE  Tally'
<1>0. PICK m : m = job[t].mount  OBVIOUS
<1>1. /\ pc[t] = "reserve" /\ m \in Mounts /\ DOMAIN pc = Tasks /\ DOMAIN job = Tasks
      /\ job[t] \in Jobs /\ UNCHANGED <<ovars, devices>> /\ state[m] # "dying"
  BY <1>0 DEF Reserve, Phases, PhaseTypes, Jobs, Working
<1>2. CASE GivenUp(t) /\ UNCHANGED device_count
  BY <1>2, OtherStepsKeepTally
<1>3. ASSUME Room(m), NEW n, job' = [job EXCEPT ![t].minor = n], UNCHANGED state,
             device_count' = [device_count EXCEPT ![m] = @ + 1],
             pc' = [pc EXCEPT ![t] = "link"]
      PROVE  Tally'
  <2>1. /\ \A u \in Tasks \ {t} : pc'[u] = pc[u] /\ job'[u] = job[u]
        /\ pc'[t] = "link" /\ job'[t].mount = m
    BY <1>0, <1>1, <1>3 DEF Jobs
  <2>2. Reserving(m)' = Reserving(m) \cup {t} /\ t \notin Reserving(m)
    BY <1>0, <1>1, <2>1 DEF Reserving
  <2>3. \A k \in Mounts \ {m} : Reserving(k)' = Reserving(k)
    BY <1>0, <1>1, <2>1 DEF Reserving
  <2>4. /\ device_count' \in [Mounts -> Int] /\ device_count'[m] = device_count[m] + 1
        /\ \A k \in Mounts \ {m} : device_count'[k] = device_count[k]
    BY <1>1, <1>3 DEF Tally
  <2>5. TallyOf(m) /\ device_count[m] \in Int  BY <1>1 DEF Tally
  <2>6. /\ IsFiniteSet(Reserving(m)') /\ Cardinality(Reserving(m)') = Cardinality(Reserving(m)) + 1
        /\ Cardinality(Reserving(m)) \in Nat /\ Cardinality(devices[m]) \in Nat
    BY <2>2, <2>5, FS_AddElement, FS_CardinalityType DEF TallyOf
  <2>7. device_count[m] + 1 <= opts[m].max /\ opts'[m] = opts[m]
    BY <1>1, <1>3 DEF Room, ovars
  <2>8. TallyOf(m)'
    BY <1>1, <1>3, <2>4, <2>5, <2>6, <2>7 DEF TallyOf, ovars
  <2>9. \A k \in Mounts : k # m => TallyOf(k)'
    BY <1>1, <1>3, <2>3, <2>4, TallyOfStays DEF Tally, ovars
  <2> QED  BY <2>4, <2>8, <2>9 DEF Tally
<1> QED  BY <1>0, <1>2, <1>3 DEF Reserve

(* The device is there, and the task is done with it.                       *)
LEMMA LinkKeepsTally ==
  ASSUME Tally, Phases, Ledger, OInv, NEW t \in Tasks, LinkDevice(t)
  PROVE  Tally'
<1>0. PICK m : m = job[t].mount  OBVIOUS
<1>1. /\ pc[t] = "link" /\ m \in Mounts /\ DOMAIN pc = Tasks /\ DOMAIN job = Tasks
      /\ UNCHANGED <<ovars, device_count>> /\ state[m] # "dying"
      /\ device_count \in [Mounts -> Int] /\ TallyOf(m)
  BY <1>0 DEF LinkDevice, Phases, PhaseTypes, Jobs, Working, mvars, Tally
<1>2. CASE pc' = [pc EXCEPT ![t] = "undo"] /\ UNCHANGED <<devices, state, job>>
  <2>1. \A k \in Mounts : Reserving(k)' = Reserving(k)
    BY <1>0, <1>1, <1>2 DEF Reserving
  <2> QED  BY <1>1, <1>2, <2>1, TallyOfStays DEF Tally, ovars
<1>3. CASE /\ ~Exists(m, job[t].name)
           /\ devices' = [devices EXCEPT ![m] =
                            @ \cup {[name |-> job[t].name, minor |-> job[t].minor]}]
           /\ Done(t)
  <2>1. PICK d : d = [name |-> job[t].name, minor |-> job[t].minor]  OBVIOUS
  <2>2. d \notin devices[m]
    <3>1. d.name = job[t].name  BY <2>1
    <3> QED  BY <1>3, <3>1 DEF Exists
  <2>3. /\ devices'[m] = devices[m] \cup {d}
        /\ \A k \in Mounts : k # m => devices'[k] = devices[k]
    BY <1>1, <1>3, <2>1 DEF Ledger, LedgerTypes
  <2>4. /\ UNCHANGED state /\ pc'[t] \in {"next", "idle"}
        /\ \A u \in Tasks \ {t} : pc'[u] = pc[u] /\ job'[u] = job[u]
    BY <1>0, <1>1, <1>3 DEF Done, Idle
  <2>5. /\ Reserving(m)' = Reserving(m) \ {t} /\ t \in Reserving(m)
        /\ \A k \in Mounts : k # m => Reserving(k)' = Reserving(k)
    BY <1>0, <1>1, <2>4 DEF Reserving
  <2>6. /\ IsFiniteSet(devices'[m]) /\ Cardinality(devices'[m]) = Cardinality(devices[m]) + 1
        /\ Cardinality(devices[m]) \in Nat
    BY <1>1, <2>2, <2>3, FS_AddElement, FS_CardinalityType DEF TallyOf
  <2>7. /\ IsFiniteSet(Reserving(m)')
        /\ Cardinality(Reserving(m)') = Cardinality(Reserving(m)) - 1
        /\ Cardinality(Reserving(m)) \in Nat /\ Cardinality(Reserving(m)') \in Nat
    BY <1>1, <2>5, FS_RemoveElement, FS_CardinalityType DEF TallyOf
  <2>8. device_count'[m] = Cardinality(devices'[m]) + Cardinality(Reserving(m)')
    BY <1>1, <2>6, <2>7 DEF TallyOf
  <2>9. remounted[m] = "never" => Cardinality(devices'[m]) <= opts[m].max
    <3>1. remounted[m] = "never" => device_count[m] <= opts[m].max
      BY <1>1 DEF TallyOf
    <3>2. opts[m].max \in Int  BY <1>1, BinderfsConstants DEF OInv, OptionTypes, Opts
    <3> QED  BY <1>1, <2>6, <2>7, <2>8, <3>1, <3>2
  <2>10. TallyOf(m)'
    BY <1>1, <2>4, <2>6, <2>7, <2>8, <2>9 DEF TallyOf, ovars
  <2>11. \A k \in Mounts : k # m => TallyOf(k)'
    BY <1>1, <2>3, <2>4, <2>5, TallyOfStays DEF Tally, ovars
  <2> QED  BY <1>1, <2>10, <2>11 DEF Tally
<1> QED  BY <1>0, <1>2, <1>3 DEF LinkDevice, Link

LEMMA UndoKeepsTally ==
  ASSUME Tally, Phases, OInv, NEW t \in Tasks, Undo(t)
  PROVE  Tally'
<1>0. PICK m : m = job[t].mount  OBVIOUS
<1>1. /\ pc[t] = "undo" /\ m \in Mounts /\ DOMAIN pc = Tasks /\ DOMAIN job = Tasks
      /\ UNCHANGED <<ovars, devices>> /\ state[m] # "dying" /\ state \in [Mounts -> States]
      /\ device_count \in [Mounts -> Int] /\ TallyOf(m)
      /\ device_count' = [device_count EXCEPT ![m] = @ - 1]
      /\ opts[m].max \in Int
  <2>1. pc[t] = "undo" /\ UNCHANGED <<ovars, devices>>  BY DEF Undo
  <2>2. /\ m \in Mounts /\ DOMAIN pc = Tasks /\ DOMAIN job = Tasks
        /\ state[m] # "dying" /\ state \in [Mounts -> States]
    BY <1>0, <2>1 DEF Phases, PhaseTypes, Jobs, Working
  <2>3. device_count' = [device_count EXCEPT ![m] = @ - 1]
    BY <1>0 DEF Undo, Release
  <2>4. device_count \in [Mounts -> Int] /\ TallyOf(m)  BY <2>2 DEF Tally
  <2>5. opts[m].max \in Int  BY <2>2, BinderfsConstants DEF OInv, OptionTypes, Opts
  <2> QED  BY <2>1, <2>2, <2>3, <2>4, <2>5
<1>2. /\ pc'[t] = "idle" /\ \A u \in Tasks \ {t} : pc'[u] = pc[u] /\ job'[u] = job[u]
      /\ UNCHANGED state \/ state' = [state EXCEPT ![m] = "failed"]
  BY <1>0, <1>1 DEF Undo, GivenUp, Idle, Failed
<1>3. state'[m] # "dying" /\ \A k \in Mounts : state[k] = "dying" => state'[k] = "dying"
  BY <1>1, <1>2
<1>4. /\ Reserving(m)' = Reserving(m) \ {t} /\ t \in Reserving(m)
      /\ \A k \in Mounts : k # m => Reserving(k)' = Reserving(k)
  BY <1>0, <1>1, <1>2 DEF Reserving
<1>5. /\ IsFiniteSet(Reserving(m)')
      /\ Cardinality(Reserving(m)') = Cardinality(Reserving(m)) - 1
      /\ Cardinality(Reserving(m)) \in Nat /\ Cardinality(devices[m]) \in Nat
  BY <1>1, <1>4, FS_RemoveElement, FS_CardinalityType DEF TallyOf
<1>6. /\ device_count'[m] = device_count[m] - 1 /\ device_count' \in [Mounts -> Int]
      /\ \A k \in Mounts : k # m => device_count'[k] = device_count[k]
  BY <1>1
<1>7. TallyOf(m)'
  BY <1>1, <1>3, <1>5, <1>6 DEF TallyOf, ovars
<1>8. \A k \in Mounts : k # m => TallyOf(k)'
  BY <1>1, <1>3, <1>4, <1>6, TallyOfStays DEF Tally, ovars
<1> QED  BY <1>6, <1>7, <1>8 DEF Tally

(* The steps of a mount.                                                    *)
LEMMA MountStepsKeepTally ==
  ASSUME Tally, Phases, OInv, NEW m \in Mounts,
         \/ KillSuper(m) \/ EvictInode(m) \/ FreeInfo(m)
         \/ \E list \in OptionLists : RemountStart(m, list)
         \/ RemountOption(m) \/ RemountEnd(m)
  PROVE  Tally'
<1>1. /\ UNCHANGED <<pc, job>> /\ \A k \in Mounts : Reserving(k)' = Reserving(k)
  BY DEF KillSuper, EvictInode, FreeInfo, RemountStart, RemountOption, RemountEnd, Reserving
<1>2. /\ state \in [Mounts -> States] /\ device_count \in [Mounts -> Int]
      /\ DOMAIN devices = Mounts
  BY DEF Phases, PhaseTypes, Tally
<1>3. CASE KillSuper(m)
  <2>1. /\ UNCHANGED <<ovars, devices, device_count>>
        /\ \A k \in Mounts : state[k] = "dying" => state'[k] = "dying"
    BY <1>2, <1>3 DEF KillSuper, mvars
  <2> QED  BY <1>1, <2>1, TallyOfStays DEF Tally, ovars
<1>4. CASE EvictInode(m)
  <2>1. state[m] = "dying" /\ UNCHANGED <<state, ovars>>
    BY <1>4 DEF EvictInode
  <2>2. device_count' = [device_count EXCEPT ![m] = @ - 1]
    BY <1>4 DEF EvictInode, Evict, Release
  <2>3. /\ \A k \in Mounts : k # m => devices'[k] = devices[k]
        /\ devices'[m] \subseteq devices[m]
    BY <1>2, <1>4 DEF EvictInode, Evict
  <2>4. TallyOf(m)'
    <3>1. TallyOf(m) /\ opts[m].max \in Int
      BY BinderfsConstants DEF Tally, OInv, OptionTypes, Opts
    <3>2. /\ IsFiniteSet(devices'[m]) /\ Cardinality(devices'[m]) <= Cardinality(devices[m])
          /\ Cardinality(devices[m]) \in Nat /\ Cardinality(devices'[m]) \in Nat
      BY <2>3, <3>1, FS_Subset, FS_CardinalityType DEF TallyOf
    <3> QED  BY <1>1, <2>1, <3>1, <3>2 DEF TallyOf, ovars
  <2>5. \A k \in Mounts : k # m => TallyOf(k)'
    BY <1>1, <1>2, <2>1, <2>2, <2>3, TallyOfStays DEF Tally, ovars
  <2> QED  BY <1>2, <2>2, <2>4, <2>5 DEF Tally
<1>5. CASE FreeInfo(m)
  <2>1. /\ state[m] = "dying" /\ devices[m] = {} /\ UNCHANGED devices
        /\ state' = [state EXCEPT ![m] = "none"] /\ opts' = [opts EXCEPT ![m] = DefaultOpts]
        /\ device_count' = [device_count EXCEPT ![m] = 0]
        /\ remounted' = [remounted EXCEPT ![m] = "never"]
    BY <1>5 DEF FreeInfo
  <2>2. Reserving(m) = {}  BY <2>1 DEF Phases, Working, Reserving
  <2>3. /\ opts'[m] \in Opts /\ device_count'[m] = 0
        /\ \A k \in Mounts : k # m => /\ opts'[k] = opts[k] /\ device_count'[k] = device_count[k]
                                      /\ remounted'[k] = remounted[k] /\ state'[k] = state[k]
    BY <1>2, <2>1, DefaultTyped DEF OInv, OptionTypes
  <2>4. TallyOf(m)'  BY <1>1, <2>1, <2>2, <2>3, TallyOfNothing
  <2>5. \A k \in Mounts : k # m => TallyOf(k)'
    BY <1>1, <2>1, <2>3, TallyOfStays DEF Tally
  <2> QED  BY <1>2, <2>1, <2>4, <2>5 DEF Tally
<1>6. CASE \/ \E list \in OptionLists : RemountStart(m, list)
           \/ RemountOption(m) \/ RemountEnd(m)
  <2>1. /\ UNCHANGED <<state, devices, device_count>>
        /\ \A k \in Mounts : k # m => opts'[k] = opts[k] /\ remounted'[k] = remounted[k]
        /\ remounted'[m] # "never"
    <3>1. remount[m].busy => remounted[m] # "never"  BY DEF OInv, RemountLives
    <3>2. /\ DOMAIN opts = Mounts /\ DOMAIN remounted = Mounts
      BY DEF OInv, OptionTypes
    <3> QED  BY <1>6, <3>1, <3>2 DEF RemountStart, RemountOption, RemountEnd, mvars
  <2>2. \A k \in Mounts : TallyOf(k)'
    BY <1>1, <2>1, TallyOfStays DEF Tally
  <2> QED  BY <2>1, <2>2 DEF Tally
<1> QED  BY <1>3, <1>4, <1>5, <1>6

MInv == OInv /\ Phases /\ Ledger /\ Tally

LEMMA StepKeepsMinors == MInv /\ [Next]_vars => MInv'
<1> SUFFICES ASSUME MInv, [Next]_vars  PROVE MInv'  OBVIOUS
<1>1. OInv' /\ Phases' /\ Ledger'
  BY StepKeepsOptions, StepKeepsPhases, StepKeepsLedger DEF MInv
<1>2. Tally'
  <2>1. CASE UNCHANGED vars
    <3>1. /\ UNCHANGED <<device_count, devices, state, remounted, opts>>
          /\ \A m \in Mounts : Reserving(m)' = Reserving(m)
      BY <2>1 DEF vars, mvars, ovars, Reserving
    <3> QED  BY <3>1, TallyOfStays DEF MInv, Tally
  <2>2. ASSUME NEW t \in Tasks, Reserve(t)  PROVE Tally'
    BY <2>2, ReserveKeepsTally DEF MInv
  <2> QED  BY <2>1, <2>2, OtherStepsKeepTally, LinkKeepsTally, UndoKeepsTally,
              MountStepsKeepTally DEF Next, MInv
<1> QED  BY <1>1, <1>2 DEF MInv

(* As many values as arguments, where no two arguments share one.           *)
LEMMA OneForOne ==
  ASSUME NEW S, IsFiniteSet(S), NEW f, f = [s \in S |-> f[s]],
         \A a, b \in S : f[a] = f[b] => a = b
  PROVE  /\ IsFiniteSet({f[s] : s \in S})
         /\ Cardinality({f[s] : s \in S}) = Cardinality(S)
<1> DEFINE T == {f[s] : s \in S}
<1>1. f \in [S -> T]  OBVIOUS
<1>2. IsInjective(f)
  <2>1. DOMAIN f = S  OBVIOUS
  <2> QED  BY <2>1 DEF IsInjective
<1>3. \A v \in T : \E s \in S : f[s] = v  OBVIOUS
<1>4. f \in Injection(S, T)  BY <1>1, <1>2 DEF Injection
<1>5. f \in Surjection(S, T)  BY <1>1, <1>3 DEF Surjection
<1>6. f \in Bijection(S, T)  BY <1>4, <1>5 DEF Bijection
<1>7. ExistsBijection(S, T)  BY <1>6 DEF ExistsBijection
<1> HIDE DEF T
<1> QED  BY <1>7, FS_Bijection DEF T

LEMMA Apart ==
  ASSUME NEW A, NEW B, IsFiniteSet(A), IsFiniteSet(B), A \cap B = {}
  PROVE  /\ IsFiniteSet(A \cup B)
         /\ Cardinality(A \cup B) = Cardinality(A) + Cardinality(B)
<1>1. Cardinality(A \cap B) = 0  BY FS_EmptySet
<1>2. Cardinality(A) \in Nat /\ Cardinality(B) \in Nat  BY FS_CardinalityType
<1>3. /\ IsFiniteSet(A \cup B)
      /\ Cardinality(A \cup B) = Cardinality(A) + Cardinality(B) - Cardinality(A \cap B)
  BY FS_Union
<1> QED  BY <1>1, <1>2, <1>3

(* From one owner for each number to as many numbers as owners.             *)
LEMMA HeldBy ==
  ASSUME MInv, NEW m \in Mounts
  PROVE  Cardinality(Held(m)) = Cardinality(devices[m]) + Cardinality(Reserving(m))
                                  + (IF control[m] = None THEN 0 ELSE 1)
<1> DEFINE D == {d.minor : d \in devices[m]}
           R == {job[t].minor : t \in Reserving(m)}
           C == {control[m]} \ {None}
<1>1. /\ IsFiniteSet(devices[m]) /\ IsFiniteSet(Reserving(m))
      /\ Cardinality(devices[m]) \in Nat /\ Cardinality(Reserving(m)) \in Nat
  BY FS_CardinalityType DEF MInv, Tally, TallyOf
<1>2. Reserving(m) \subseteq Reservers  BY DEF Reserving, Reservers
<1>3. IsFiniteSet(D) /\ Cardinality(D) = Cardinality(devices[m])
  <2>1. \A d, e \in devices[m] : d.minor = e.minor => d = e
    BY DEF MInv, Ledger, OneOwner
  <2>2. PICK S : S = devices[m]  OBVIOUS
  <2>3. PICK g : g = [d \in S |-> d.minor]  OBVIOUS
  <2>4. /\ IsFiniteSet(S)
        /\ g = [d \in S |-> g[d]]
        /\ {g[d] : d \in S} = {d.minor : d \in S}
        /\ \A d, e \in S : g[d] = g[e] => d = e
    <3>1. \A d, e \in S : g[d] = g[e] => d = e  BY <2>1, <2>2, <2>3
    <3>2. g = [d \in S |-> g[d]]  BY ONLY <2>3
    <3>3. {g[d] : d \in S} = {d.minor : d \in S}  BY ONLY <2>3
    <3> QED  BY <1>1, <2>2, <3>1, <3>2, <3>3
  <2>5. IsFiniteSet({g[d] : d \in S}) /\ Cardinality({g[d] : d \in S}) = Cardinality(S)
    BY ONLY <2>4, OneForOne
  <2> QED  BY <2>2, <2>4, <2>5
<1>4. IsFiniteSet(R) /\ Cardinality(R) = Cardinality(Reserving(m))
  <2> DEFINE f == [t \in Reserving(m) |-> job[t].minor]
  <2>1. \A t, u \in Reserving(m) : job[t].minor = job[u].minor => t = u
    BY <1>2 DEF MInv, Ledger, OneOwner
  <2>2. /\ f = [t \in Reserving(m) |-> f[t]]
        /\ {f[t] : t \in Reserving(m)} = R
        /\ \A t, u \in Reserving(m) : f[t] = f[u] => t = u
    BY <2>1
  <2> HIDE DEF f, R
  <2> QED  BY <1>1, <2>2, OneForOne
<1>5. IsFiniteSet(C) /\ Cardinality(C) = IF control[m] = None THEN 0 ELSE 1
  <2>1. CASE control[m] = None
    <3>1. C = {}  BY <2>1
    <3> QED  BY <2>1, <3>1, FS_EmptySet
  <2>2. CASE control[m] # None
    <3>1. C = {control[m]}  BY <2>2
    <3> QED  BY <2>2, <3>1, FS_Singleton
  <2> QED  BY <2>1, <2>2
<1>6. D \cap C = {} /\ (D \cup C) \cap R = {}
  <2>1. /\ \A d \in devices[m] : d.minor # control[m]
        /\ \A d \in devices[m], t \in Reservers : d.minor # job[t].minor
        /\ \A t \in Reservers : job[t].minor # control[m]
    BY DEF MInv, Ledger, OneOwner
  <2> QED  BY <1>2, <2>1
<1>7. Held(m) = (D \cup C) \cup R  BY DEF Held
<1> HIDE DEF D, R, C
<1>8. Cardinality((D \cup C) \cup R) = Cardinality(D) + Cardinality(C) + Cardinality(R)
  <2>1. IsFiniteSet(D \cup C) /\ Cardinality(D \cup C) = Cardinality(D) + Cardinality(C)
    BY <1>3, <1>5, <1>6, Apart
  <2> QED  BY <1>4, <1>6, <2>1, Apart
<1> QED  BY <1>1, <1>3, <1>4, <1>5, <1>7, <1>8

LEMMA HeldIs ==
  ASSUME MInv, NEW m \in Mounts, NEW n
  PROVE  n \in Held(m) <=> \/ \E d \in devices[m] : d.minor = n
                           \/ \E t \in Reserving(m) : job[t].minor = n
                           \/ control[m] = n /\ n # None
BY DEF Held

(* Over all mounts, each minor number taken belongs to one device or to one *)
(* task that makes a device, but for those that binderfs_binder_ctl_create  *)
(* lost; device_count counts the devices, and the option max bounds them:   *)
(* for any number of mounts and tasks, and whatever fails or is remounted.  *)
THEOREM MinorsAreExact == Spec => []MinorsExact
<1>1. Init => MInv
  BY OptionsInit, PhasesInit, LedgerInit, TallyInit DEF MInv
<1>2. MInv => MinorsExact
  <2> SUFFICES ASSUME MInv  PROVE MinorsExact  OBVIOUS
  <2>1. \A t \in Reservers : job[t].mount \in Mounts /\ t \in Reserving(job[t].mount)
    BY DEF MInv, Phases, PhaseTypes, Jobs, Reservers, Reserving
  <2>2. \A m \in Mounts : Reserving(m) \subseteq Reservers
                          /\ \A t \in Reserving(m) : job[t].mount = m
    BY DEF Reserving, Reservers
  <2>3. ASSUME NEW n  PROVE n \in minors <=> n \in leaked \/ \E m \in Mounts : n \in Held(m)
    <3>1. ASSUME n \in minors, n \notin leaked  PROVE \E m \in Mounts : n \in Held(m)
      <4>1. Owned(n) /\ n # None
        BY <3>1, NoNumber DEF MInv, Ledger, LedgerTypes, Accounted
      <4> QED  BY <2>1, <4>1, HeldIs DEF Owned
    <3>2. ASSUME NEW m \in Mounts, n \in Held(m)  PROVE n \in minors
      BY <2>2, <3>2, HeldIs DEF MInv, Ledger, Accounted
    <3>3. leaked \subseteq minors  BY DEF MInv, Ledger, Accounted
    <3> QED  BY <3>1, <3>2, <3>3
  <2>4. minors = (UNION {Held(m) : m \in Mounts}) \cup leaked
    <3>1. \A n : n \in UNION {Held(m) : m \in Mounts} <=> \E m \in Mounts : n \in Held(m)
      OBVIOUS
    <3>2. PICK U : U = UNION {Held(m) : m \in Mounts}  OBVIOUS
    <3>3. \A n : n \in minors <=> n \in U \cup leaked  BY <2>3, <3>1, <3>2
    <3>4. minors = U \cup leaked  BY <3>3, Zenon
    <3> QED  BY <3>2, <3>4, Zenon
  <2>5. ASSUME NEW m \in Mounts, NEW n \in Held(m)  PROVE n \notin leaked
    BY <2>2, <2>5, HeldIs DEF MInv, Ledger, Accounted
  <2>6. ASSUME NEW m \in Mounts, NEW k \in Mounts, m # k, NEW n \in Held(m), n \in Held(k)
        PROVE  FALSE
    BY <2>2, <2>6, HeldIs DEF MInv, Ledger, OneOwner
  <2>7. ASSUME NEW m \in Mounts
        PROVE  LET taken == Cardinality(devices[m]) + Cardinality(Reserving(m)) IN
               /\ Cardinality(Held(m)) = taken + (IF control[m] = None THEN 0 ELSE 1)
               /\ state[m] # "dying" => device_count[m] = taken
               /\ remounted[m] = "never" => Cardinality(devices[m]) <= opts[m].max
    BY HeldBy DEF MInv, Tally, TallyOf
  <2> QED  BY <2>4, <2>5, <2>6, <2>7 DEF MinorsExact
<1> QED  BY <1>1, <1>2, StepKeepsMinors, PTL DEF Spec
=============================================================================

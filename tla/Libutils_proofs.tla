--------------------------- MODULE Libutils_proofs ---------------------------
(***************************************************************************)
(* Thread. For any callers and any number of system threads: nobody uses a  *)
(* Thread after it was destroyed, and it never has two threads. IInv says   *)
(* who keeps the object at each step of run and of _threadLoop (Kept), and  *)
(* what mRunning and mThread say of the system threads when the lock is not *)
(* free (RunningTold).                                                      *)
(*                                                                          *)
(* Strings. For texts of any length and any units, and for any number of    *)
(* strings: the conversions, lengths, comparisons and searches of           *)
(* Unicode.cpp do what StringHolds and the other invariants of Strings say. *)
(* Each recursive definition is first unfolded into a function with its     *)
(* equations (Recursion, RecursionUnique), and what it computes is proved   *)
(* from the end of a text to its beginning (Downward). StrInv says what the *)
(* buffers hold (Held) and what the texts are made of (TextInv).            *)
(***************************************************************************)
EXTENDS Thread, Strings, FiniteSetTheorems, SequenceTheorems, NaturalsInduction,
        WellFoundedInduction, TLAPS

-----------------------------------------------------------------------------
(* Thread.                                                                  *)
Types ==
  /\ TypeOK
  /\ pc \in [Callers \cup Workers -> CallerPCs \cup WorkerPCs]
  /\ result \in [Workers -> BOOLEAN]

(* Where a thread has a reference of its own, and where it has not yet come *)
(* to an access that needs the lock.                                        *)
Holding == {"clearHold", "tid", "ready", "pending", "body", "check", "leave", "clear"}
Early == {"born", "clearHold", "tid", "ready", "pending", "check"}

Creating(c) == pc[c] \in {"create", "failed"}
Started(c) == \E w \in Workers : pc[w] \in Early /\ (pc[c] = "publish" => made[c] = w)

Kept ==
  /\ holders # {} => alive
  /\ alive /\ holders = {} =>
       ~mRunning /\ \A a \in Callers \cup Workers : pc[a] = "none"
  /\ \A w \in Workers : /\ pc[w] \in Holding => w \in holders
                        /\ pc[w] = "born" => HoldSelf \in holders
  /\ \A c \in Callers :
       /\ Creating(c) => HoldSelf \in holders
       /\ pc[c] = "publish" => Started(c)
       /\ pc[c] = "unlock" => \/ mStatus = "UNKNOWN_ERROR" /\ ~mRunning
                              \/ mCanCallJava /\ HoldSelf \in holders
                              \/ Started(c)

RunningTold ==
  /\ \A v, w \in Workers : Running(v) /\ Running(w) => v = w
  /\ \A w \in Workers : Running(w) =>
       /\ mRunning /\ ~mCanCallJava
       /\ \A c \in Callers : ~Creating(c)
       /\ mThread = w \/ \E c \in Callers : pc[c] = "publish" /\ made[c] = w
       /\ pc[w] \in {"born", "clearHold", "tid"} \/ mTid = w
  /\ \A c \in Callers : Creating(c) => mRunning
  /\ mRunning /\ alive /\ ~mCanCallJava =>
       (\E w \in Workers : Running(w)) \/ (\E c \in Callers : Creating(c))
  /\ ~mRunning => mThread = None

IInv == Types /\ Kept /\ RunningTold

LEMMA InitIInv == Init => IInv
BY ThreadConstants
DEF Init, IInv, Types, TypeOK, CallerPCs, WorkerPCs, Kept, RunningTold, Running, Creating, Started,
    Holding, Early

-----------------------------------------------------------------------------
LEMMA GotoKeeps ==
  ASSUME Types, NEW a \in Callers \cup Workers, NEW l \in CallerPCs \cup WorkerPCs, Goto(a, l)
  PROVE  /\ pc' \in [Callers \cup Workers -> CallerPCs \cup WorkerPCs]
         /\ pc'[a] = l /\ \A b \in (Callers \cup Workers) \ {a} : pc'[b] = pc[b]
BY DEF Types, Goto

LEMMA DropKeeps ==
  ASSUME IInv, NEW c \in Callers, Drop(c)
  PROVE  IInv'
<1> USE ThreadConstants DEF IInv
<1>1. Types'  BY DEF Types, TypeOK, Drop, LetGo, fields, CallerPCs, WorkerPCs
<1>2. Kept'  BY DEF Kept, Types, TypeOK, Drop, LetGo, fields, Creating, Started, Holding, Early
<1>3. RunningTold'  BY DEF RunningTold, Drop, LetGo, fields, Running, Creating
<1> QED  BY <1>1, <1>2, <1>3

LEMMA RunStartKeeps ==
  ASSUME IInv, NEW c \in Callers, RunStart(c)
  PROVE  IInv'
<1> USE ThreadConstants DEF IInv, Goto, RunStart, MayRun, Free, NotRunning
<1>1. Types'  BY DEF Types, TypeOK, LetGo, fields, CallerPCs, WorkerPCs
<1>2. Kept'  BY DEF Kept, Types, TypeOK, LetGo, fields, Creating, Started, Holding, Early, Running, RunningTold
<1>3. RunningTold'  BY DEF RunningTold, Kept, Types, TypeOK, LetGo, fields, Creating, Running, Holding, Early, Started
<1> QED  BY <1>1, <1>2, <1>3

LEMMA CreateKeeps ==
  ASSUME IInv, NEW c \in Callers, Create(c)
  PROVE  IInv'
<1> USE ThreadConstants DEF IInv, Goto, Create
<1>1. Types'  BY DEF Types, TypeOK, LetGo, fields, CallerPCs, WorkerPCs
<1>2. Kept'  BY DEF Kept, Types, TypeOK, LetGo, fields, Creating, Started, Holding, Early, Running, RunningTold
<1>3. RunningTold'  BY DEF RunningTold, Kept, Types, TypeOK, LetGo, fields, Creating, Running, Holding, Early, Started
<1> QED  BY <1>1, <1>2, <1>3

LEMMA PublishKeeps ==
  ASSUME IInv, NEW c \in Callers, Publish(c)
  PROVE  IInv'
<1> USE ThreadConstants DEF IInv, Goto, Publish
<1>1. Types'  BY DEF Types, TypeOK, LetGo, fields, CallerPCs, WorkerPCs
<1>2. Kept'  BY DEF Kept, Types, TypeOK, LetGo, fields, Creating, Started, Holding, Early, Running, RunningTold
<1>3. RunningTold'  BY DEF RunningTold, Kept, Types, TypeOK, LetGo, fields, Creating, Running, Holding, Early, Started
<1> QED  BY <1>1, <1>2, <1>3

LEMMA RunFailedKeeps ==
  ASSUME IInv, NEW c \in Callers, RunFailed(c)
  PROVE  IInv'
<1> USE ThreadConstants DEF IInv, Goto, RunFailed
<1>1. Types'  BY DEF Types, TypeOK, LetGo, fields, CallerPCs, WorkerPCs
<1>2. Kept'  BY ZenonT(30) DEF Kept, Types, TypeOK, LetGo, fields, Creating, Started, Holding, Early, Running, RunningTold
<1>3. RunningTold'  BY DEF RunningTold, Kept, Types, TypeOK, LetGo, fields, Creating, Running, Holding, Early, Started
<1> QED  BY <1>1, <1>2, <1>3

LEMMA UnlockKeeps ==
  ASSUME IInv, NEW c \in Callers, Unlock(c)
  PROVE  IInv'
<1> USE ThreadConstants DEF IInv, Goto, Unlock
<1>1. Types'  BY DEF Types, TypeOK, LetGo, fields, CallerPCs, WorkerPCs
<1>2. Kept'  BY DEF Kept, Types, TypeOK, LetGo, fields, Creating, Started, Holding, Early, Running, RunningTold
<1>3. RunningTold'  BY DEF RunningTold, Kept, Types, TypeOK, LetGo, fields, Creating, Running, Holding, Early, Started
<1> QED  BY <1>1, <1>2, <1>3

LEMMA TakeHoldKeeps ==
  ASSUME IInv, NEW w \in Workers, TakeHold(w)
  PROVE  IInv'
<1> USE ThreadConstants DEF IInv, Goto, TakeHold, Copied
<1>1. Types'  BY DEF Types, TypeOK, LetGo, fields, CallerPCs, WorkerPCs
<1>2. Kept'  BY DEF Kept, Types, TypeOK, LetGo, fields, Creating, Started, Holding, Early, Running, RunningTold
<1>3. RunningTold'  BY DEF RunningTold, Kept, Types, TypeOK, LetGo, fields, Creating, Running, Holding, Early, Started
<1> QED  BY <1>1, <1>2, <1>3

LEMMA ClearHoldKeeps ==
  ASSUME IInv, NEW w \in Workers, ClearHold(w)
  PROVE  IInv'
<1> USE ThreadConstants DEF IInv, Goto, ClearHold, HoldSelfCleared
<1>1. Types'  BY DEF Types, TypeOK, LetGo, fields, CallerPCs, WorkerPCs
<1>2. Kept'  BY DEF Kept, Types, TypeOK, LetGo, fields, Creating, Started, Holding, Early, Running, RunningTold
<1>3. RunningTold'  BY DEF RunningTold, Kept, Types, TypeOK, LetGo, fields, Creating, Running, Holding, Early, Started
<1> QED  BY <1>1, <1>2, <1>3

LEMMA SetTidKeeps ==
  ASSUME IInv, NEW w \in Workers, SetTid(w)
  PROVE  IInv'
<1> USE ThreadConstants DEF IInv, Goto, SetTid
<1>1. Types'  BY DEF Types, TypeOK, LetGo, fields, CallerPCs, WorkerPCs
<1>2. Kept'  BY DEF Kept, Types, TypeOK, LetGo, fields, Creating, Started, Holding, Early, Running, RunningTold
<1>3. RunningTold'  BY DEF RunningTold, Kept, Types, TypeOK, LetGo, fields, Creating, Running, Holding, Early, Started
<1> QED  BY <1>1, <1>2, <1>3

LEMMA ReadyKeeps ==
  ASSUME IInv, NEW w \in Workers, Ready(w)
  PROVE  IInv'
<1> USE ThreadConstants DEF IInv, Goto, Ready
<1>1. Types'  BY DEF Types, TypeOK, LetGo, fields, CallerPCs, WorkerPCs
<1>2. Kept'  BY DEF Kept, Types, TypeOK, LetGo, fields, Creating, Started, Holding, Early, Running, RunningTold
<1>3. RunningTold'  BY DEF RunningTold, Kept, Types, TypeOK, LetGo, fields, Creating, Running, Holding, Early, Started
<1> QED  BY <1>1, <1>2, <1>3

LEMMA ExitPendingKeeps ==
  ASSUME IInv, NEW w \in Workers, ExitPending(w)
  PROVE  IInv'
<1> USE ThreadConstants DEF IInv, Goto, ExitPending, Free
<1>1. Types'  BY DEF Types, TypeOK, LetGo, fields, CallerPCs, WorkerPCs
<1>2. Kept'  BY DEF Kept, Types, TypeOK, LetGo, fields, Creating, Started, Holding, Early, Running, RunningTold
<1>3. RunningTold'  BY DEF RunningTold, Kept, Types, TypeOK, LetGo, fields, Creating, Running, Holding, Early, Started
<1> QED  BY <1>1, <1>2, <1>3

LEMMA ThreadLoopKeeps ==
  ASSUME IInv, NEW w \in Workers, ThreadLoop(w)
  PROVE  IInv'
<1> USE ThreadConstants DEF IInv, Goto, ThreadLoop
<1>1. Types'  BY DEF Types, TypeOK, LetGo, fields, CallerPCs, WorkerPCs
<1>2. Kept'  BY DEF Kept, Types, TypeOK, LetGo, fields, Creating, Started, Holding, Early, Running, RunningTold
<1>3. RunningTold'  BY DEF RunningTold, Kept, Types, TypeOK, LetGo, fields, Creating, Running, Holding, Early, Started
<1> QED  BY <1>1, <1>2, <1>3

LEMMA CheckKeeps ==
  ASSUME IInv, NEW w \in Workers, Check(w)
  PROVE  IInv'
<1> USE ThreadConstants DEF IInv, Goto, Check, Guarded, Free
<1>1. Types'  BY DEF Types, TypeOK, LetGo, fields, CallerPCs, WorkerPCs
<1>2. Kept'  BY DEF Kept, Types, TypeOK, LetGo, fields, Creating, Started, Holding, Early, Running, RunningTold
<1>3. RunningTold'  BY DEF RunningTold, Kept, Types, TypeOK, LetGo, fields, Creating, Running, Holding, Early, Started
<1> QED  BY <1>1, <1>2, <1>3

LEMMA LeaveKeeps ==
  ASSUME IInv, NEW w \in Workers, Leave(w)
  PROVE  IInv'
<1> USE ThreadConstants DEF IInv, Goto, Leave
<1>1. Types'  BY DEF Types, TypeOK, LetGo, fields, CallerPCs, WorkerPCs
<1>2. Kept'
  <2>1. w \in holders /\ alive /\ HoldSelf # w  BY DEF Kept, Holding
  <2>2. /\ holders' = holders \ {w} /\ alive' = (holders' # {})
        /\ UNCHANGED <<fields, made>> /\ pc'[w] = "none"
        /\ \A a \in (Callers \cup Workers) \ {w} : pc'[a] = pc[a]
    BY <2>1, GotoKeeps DEF LetGo, WorkerPCs
  <2>3. \A c \in Callers : Started(c) => Started(c)'
    BY <2>2 DEF Started, Early
  <2>4. alive' <=> holders' # {}  BY <2>2
  <2>5. \A v \in Workers : (pc'[v] \in Holding => v \in holders')
                           /\ (pc'[v] = "born" => HoldSelf \in holders')
    BY <2>1, <2>2 DEF Kept, Holding
  <2>6. \A c \in Callers :
          /\ Creating(c)' => HoldSelf \in holders'
          /\ pc'[c] = "publish" => Started(c)'
          /\ pc'[c] = "unlock" => \/ mStatus' = "UNKNOWN_ERROR" /\ ~mRunning'
                                  \/ mCanCallJava' /\ HoldSelf \in holders'
                                  \/ Started(c)'
    BY <2>1, <2>2, <2>3 DEF Kept, fields, Creating
  <2> QED  BY <2>4, <2>5, <2>6 DEF Kept
<1>3. RunningTold'  BY DEF RunningTold, Kept, Types, TypeOK, LetGo, fields, Creating, Running, Holding, Early, Started
<1> QED  BY <1>1, <1>2, <1>3

LEMMA ClearKeeps ==
  ASSUME IInv, NEW w \in Workers, Clear(w)
  PROVE  IInv'
<1> USE ThreadConstants DEF IInv, Goto, Clear
<1>1. Types'  BY DEF Types, TypeOK, LetGo, fields, CallerPCs, WorkerPCs
<1>2. Kept'  BY DEF Kept, Types, TypeOK, LetGo, fields, Creating, Started, Holding, Early, Running, RunningTold
<1>3. RunningTold'  BY DEF RunningTold, Kept, Types, TypeOK, LetGo, fields, Creating, Running, Holding, Early, Started
<1> QED  BY <1>1, <1>2, <1>3

LEMMA PromoteKeeps ==
  ASSUME IInv, NEW w \in Workers, Promote(w)
  PROVE  IInv'
<1> USE ThreadConstants DEF IInv, Goto, Promote, Promoted
<1>1. Types'  BY DEF Types, TypeOK, LetGo, fields, CallerPCs, WorkerPCs
<1>2. Kept'  BY DEF Kept, Types, TypeOK, LetGo, fields, Creating, Started, Holding, Early, Running, RunningTold
<1>3. RunningTold'  BY DEF RunningTold, Kept, Types, TypeOK, LetGo, fields, Creating, Running, Holding, Early, Started
<1> QED  BY <1>1, <1>2, <1>3

-----------------------------------------------------------------------------
LEMMA StepIInv == IInv /\ [Next]_vars => IInv'
<1> SUFFICES ASSUME IInv, [Next]_vars  PROVE IInv'  OBVIOUS
<1>1. CASE \E c \in Callers : Drop(c) \/ RunStart(c) \/ CallerStep(c)
  BY <1>1, DropKeeps, RunStartKeeps, CreateKeeps, PublishKeeps, RunFailedKeeps, UnlockKeeps
  DEF CallerStep
<1>2. CASE \E w \in Workers : WorkerStep(w)
  BY <1>2, TakeHoldKeeps, ClearHoldKeeps, SetTidKeeps, ReadyKeeps, ExitPendingKeeps,
     ThreadLoopKeeps, CheckKeeps, LeaveKeeps, ClearKeeps, PromoteKeeps
  DEF WorkerStep
<1>3. CASE UNCHANGED vars
  BY <1>3
  DEF vars, fields, IInv, Types, TypeOK, Kept, RunningTold, Running, Creating, Started
<1> QED  BY <1>1, <1>2, <1>3 DEF Next

LEMMA SpecIInv == Spec => []IInv
BY InitIInv, StepIInv, PTL DEF Spec

LEMMA Unfreed == IInv => NoUseAfterFree
BY DEF IInv, Types, TypeOK, CallerPCs, WorkerPCs, Kept, RunningTold, NoUseAfterFree, Uses,
   FailedUnheld, Creating, Started, Holding, Early, Running

LEMMA Single == IInv => OneThread
BY ThreadConstants
DEF IInv, Types, TypeOK, CallerPCs, Kept, RunningTold, OneThread, Free, Creating, Running,
    BeforeTid

(* No caller of run and no system thread uses the object after it was       *)
(* destroyed, but in a run on an object that nobody holds and that cannot   *)
(* create a thread (Threads.cpp:151).                                       *)
THEOREM ThreadMemorySafe == Spec => []NoUseAfterFree
BY SpecIInv, Unfreed, PTL

(* mRunning says whether there is a thread, and there is at most one. Its   *)
(* ids are those that the fields say: mThread whenever the lock is free,    *)
(* mTid from its store in _threadLoop on (Threads.cpp:127, 166, 188).       *)
THEOREM OneThreadAtATime == Spec => []OneThread
BY SpecIInv, Single, PTL

-----------------------------------------------------------------------------
(* Recursive definitions.                                                   *)

(* The least number of a set.                                               *)
LEMMA Least ==
  ASSUME NEW S, S \subseteq Nat, S # {}
  PROVE  \E n \in S : \A k \in S : n <= k
<1> DEFINE R == {ss \in Nat \X Nat : ss[1] < ss[2]}
<1>1. IsWellFoundedOn(R, Nat)
  BY NatLessThanWellFounded DEF OpToRel
<1>2. PICK n \in S : \A k \in S : ~(<<k, n>> \in R)
  <2> HIDE DEF R
  <2> QED BY <1>1, WFMin
<1>3. ASSUME NEW k \in S, k < n  PROVE FALSE
  <2>1. <<k, n>> \in Nat \X Nat /\ <<k, n>>[1] < <<k, n>>[2]
    BY <1>3
  <2>2. <<k, n>> \in R
    BY <2>1
  <2> QED  BY <1>2, <2>2
<1> QED BY <1>3

(* A function exists whose value at x is given for x in T, or made of its   *)
(* value at one other place, which is nearer to T. All recursive            *)
(* definitions of Unicode are of this form.                                 *)
Recursive(D, R, T, N, rank, base, next, step) ==
  /\ N \in Nat /\ rank \in [D -> 0 .. N]
  /\ base \in [D -> R] /\ next \in [D -> D] /\ step \in [D -> [R -> R]]
  /\ \A x \in D : x \in T \/ rank[next[x]] < rank[x]

Solves(f, D, R, T, base, next, step) ==
  /\ f \in [D -> R]
  /\ \A x \in D : f[x] = IF x \in T THEN base[x] ELSE step[x][f[next[x]]]

LEMMA Recursion ==
  ASSUME NEW D, NEW R, NEW T, NEW N, NEW rank, NEW base, NEW next, NEW step,
         Recursive(D, R, T, N, rank, base, next, step)
  PROVE  \E f : Solves(f, D, R, T, base, next, step)
<1> USE DEF Recursive, Solves
<1>0. N \in Nat /\ \A x \in D : rank[x] \in 0 .. N
  OBVIOUS
<1> DEFINE Below(k) == {x \in D : rank[x] < k}
           Sound(k, f) == \A x \in Below(k) : f[x] = IF x \in T THEN base[x] ELSE step[x][f[next[x]]]
           Bad == {k \in Nat : \A f \in [D -> R] : ~Sound(k, f)}
<1>1. Bad = {}
  <2> SUFFICES ASSUME Bad # {} PROVE FALSE
    OBVIOUS
  <2>1. PICK k \in Bad : \A j \in Bad : k <= j
    <3>1. Bad \subseteq Nat
      OBVIOUS
    <3> HIDE DEF Bad
    <3> QED BY <3>1, Least
  <2>2. k \in Nat /\ \A f \in [D -> R] : ~Sound(k, f)
    BY <2>1
  <2>3. CASE k = 0
    <3>1. Below(k) = {}
      BY <2>3
    <3>2. base \in [D -> R] /\ Sound(k, base)
      BY <3>1
    <3> QED BY <2>2, <3>2
  <2>4. CASE k # 0
    <3>1. k - 1 \in Nat /\ ~(k <= k - 1)
      BY <2>2, <2>4
    <3>2. k - 1 \notin Bad
      <4> HIDE DEF Bad
      <4> QED BY <2>1, <3>1
    <3>3. PICK g \in [D -> R] : Sound(k - 1, g)
      BY <3>1, <3>2
    <3> DEFINE f == [x \in D |-> IF x \in T THEN base[x] ELSE step[x][g[next[x]]]]
    <3>4. f \in [D -> R]
      OBVIOUS
    <3>5. \A x \in Below(k - 1) : f[x] = g[x]
      BY <3>3
    <3>6. ASSUME NEW x \in Below(k), x \notin T PROVE f[next[x]] = g[next[x]]
      <4>1. x \in D /\ next[x] \in D /\ rank[x] \in Int /\ rank[next[x]] \in Int
            /\ rank[x] < k /\ rank[next[x]] < rank[x]
        BY <3>6
      <4>2. next[x] \in Below(k - 1)
        BY <2>2, <4>1
      <4> QED BY <3>5, <4>2
    <3>7. Sound(k, f)
      BY <3>6
    <3> QED BY <2>2, <3>4, <3>7
  <2> QED BY <2>3, <2>4
<1>2. N + 1 \in Nat
  BY <1>0
<1>3. PICK f \in [D -> R] : Sound(N + 1, f)
  <2>1. N + 1 \notin Bad
    BY <1>1
  <2> HIDE DEF Sound
  <2> QED BY <1>2, <2>1
<1>4. \A x \in D : x \in Below(N + 1)
  <2> QED BY <1>0
<1> QED BY <1>3, <1>4

(* There is only one: two functions that agree wherever they agree one step *)
(* nearer to T are the same.                                                *)
LEMMA RecursionUnique ==
  ASSUME NEW D, NEW R, NEW T, NEW N, NEW rank, NEW base, NEW next, NEW step,
         Recursive(D, R, T, N, rank, base, next, step),
         NEW f, NEW g,
         \A x \in D : (x \in T \/ f[next[x]] = g[next[x]]) => f[x] = g[x]
  PROVE  \A x \in D : f[x] = g[x]
<1> DEFINE Bad == {rank[x] : x \in {y \in D : f[y] # g[y]}}
<1>1. N \in Nat /\ (\A x \in D : rank[x] \in 0 .. N /\ next[x] \in D)
  BY DEF Recursive
<1>2. Bad \subseteq Nat
  BY <1>1
<1> SUFFICES ASSUME Bad # {} PROVE FALSE
  OBVIOUS
<1>3. PICK k \in Bad : \A j \in Bad : k <= j
  <2> HIDE DEF Bad
  <2> QED BY <1>2, Least
<1>4. PICK x \in D : f[x] # g[x] /\ rank[x] = k
  BY <1>3
<1>5. x \notin T /\ f[next[x]] # g[next[x]]
  BY <1>4
<1>6. next[x] \in D /\ rank[next[x]] \in Bad
  BY <1>1, <1>5
<1>7. rank[next[x]] < rank[x]
  BY <1>5 DEF Recursive
<1>8. k <= rank[next[x]] /\ k \in Int /\ rank[next[x]] \in Int
  <2> HIDE DEF Bad
  <2> QED BY <1>1, <1>2, <1>3, <1>6
<1> QED BY <1>4, <1>7, <1>8

(* Texts of bytes, of 16 bit units, and of anything that is a number.       *)
LEMMA UnitIsNat ==
  ASSUME NEW src \in Seq(Nat), NEW i \in Nat \ {0}
  PROVE  Unit(src, i) \in Nat
  BY DEF Unit

-----------------------------------------------------------------------------
(* Code points of bytes.                                                    *)

Bytes == 0 .. 255

(* The bytes taken at i, the code point they spell, and its 16 bit units.   *)
Len8(src, i) == utf8_codepoint_len(src[i])
Point8(src, i) == utf8_to_utf32_codepoint(src, i, Len8(src, i))
Units8(src, i) == IF Point8(src, i) >= Plane THEN 2 ELSE 1

Shifts(x, front, src, i, j) ==
  /\ ShiftedIn(front, src, i, j) = x[j]
  /\ x[i - 1] = front
  /\ \A k \in i .. j : x[k] = x[k - 1] * 64 + Low6(Unit(src, k))

LEMMA ShiftedUpTo ==
  ASSUME NEW front \in Nat, NEW src \in Seq(Nat), NEW i \in Nat \ {0}, NEW j \in Nat, i - 1 <= j
  PROVE  \E x : Shifts(x, front, src, i, j)
<1> DEFINE D == (i - 1) .. j
           upTo[k \in D] == IF k = i - 1 THEN front ELSE upTo[k - 1] * 64 + Low6(Unit(src, k))
           rank == [k \in D |-> k - (i - 1)]
           base == [k \in D |-> front]
           next == [k \in D |-> IF k = i - 1 THEN k ELSE k - 1]
           step == [k \in D |-> [r \in Nat |-> IF k = i - 1 THEN 0 ELSE r * 64 + Low6(Unit(src, k))]]
           T == {i - 1}
<1>1. PICK N \in Nat : N = j - (i - 1)
  OBVIOUS
<1>2. rank \in [D -> 0 .. N] /\ next \in [D -> D] /\ base \in [D -> Nat]
  BY <1>1
<1>3. step \in [D -> [Nat -> Nat]]
  <2> SUFFICES ASSUME NEW k \in D, NEW r \in Nat, k # i - 1
               PROVE  r * 64 + Low6(Unit(src, k)) \in Nat
    OBVIOUS
  <2>1. k \in Nat \ {0}
    OBVIOUS
  <2>2. Unit(src, k) \in Nat
    BY ONLY <2>1, src \in Seq(Nat), UnitIsNat
  <2> QED BY <2>2 DEF Low6
<1>4. \A k \in D : k \in T \/ rank[next[k]] < rank[k]
  BY <1>2
<1>5. PICK f : Solves(f, D, Nat, T, base, next, step)
  <2>1. Recursive(D, Nat, T, N, rank, base, next, step)
    BY <1>1, <1>2, <1>3, <1>4 DEF Recursive
  <2> HIDE DEF T, next, step, base, rank, D
  <2> QED BY <2>1, Recursion
<1>6. f = [k \in D |-> IF k = i - 1 THEN front ELSE f[k - 1] * 64 + Low6(Unit(src, k))]
  <2>1. f \in [D -> Nat]
    BY <1>5 DEF Solves
  <2>2. ASSUME NEW k \in D
        PROVE  f[k] = IF k = i - 1 THEN front ELSE f[k - 1] * 64 + Low6(Unit(src, k))
    <3>1. f[k] = IF k \in T THEN base[k] ELSE step[k][f[next[k]]]
      BY <1>5 DEF Solves
    <3>2. CASE k = i - 1
      BY <3>1, <3>2
    <3>3. CASE k # i - 1
      <4>1. next[k] = k - 1 /\ f[next[k]] \in Nat /\ k \notin T
        BY <1>2, <2>1, <3>3
      <4> HIDE DEF next, T, D
      <4> QED BY <3>1, <3>3, <4>1
    <3> QED BY <3>2, <3>3
  <2> HIDE DEF D
  <2> QED BY <2>1, <2>2
<1>7. upTo = [k \in D |-> IF k = i - 1 THEN front ELSE upTo[k - 1] * 64 + Low6(Unit(src, k))]
  <2> HIDE DEF D
  <2> QED BY <1>6
<1>8. ShiftedIn(front, src, i, j) = upTo[j]
  BY DEF ShiftedIn
<1>9. \A k \in D : f[k] = upTo[k]
  <2>1. ASSUME NEW k \in D, k \in T \/ f[next[k]] = upTo[next[k]] PROVE f[k] = upTo[k]
    <3>1. CASE k = i - 1
      BY <1>6, <1>7, <3>1
    <3>2. CASE k # i - 1
      <4>1. f[k - 1] = upTo[k - 1]
        BY <2>1, <3>2
      <4> HIDE DEF upTo, D
      <4> QED BY <1>6, <1>7, <3>2, <4>1
    <3> QED BY <3>1, <3>2
  <2>2. Recursive(D, Nat, T, N, rank, base, next, step)
    BY <1>1, <1>2, <1>3, <1>4 DEF Recursive
  <2> HIDE DEF T, next, step, base, rank, D, upTo
  <2> QED BY <2>1, <2>2, RecursionUnique
<1> HIDE DEF upTo
<1>11. j \in D /\ i - 1 \in D /\ \A k \in i .. j : k \in D
  OBVIOUS
<1>12. \A k \in i .. j : f[k] = f[k - 1] * 64 + Low6(Unit(src, k))
  BY <1>6
<1>13. f[i - 1] = front
  BY <1>6
<1> QED BY <1>8, <1>9, <1>11, <1>12, <1>13 DEF Shifts

LEMMA ShiftedIs ==
  ASSUME NEW front \in Nat, NEW src \in Seq(Nat), NEW i \in Nat \ {0}
  PROVE  LET a(k) == Low6(Unit(src, k)) IN
         /\ ShiftedIn(front, src, i, i) = front * 64 + a(i)
         /\ ShiftedIn(front, src, i, i + 1) = (front * 64 + a(i)) * 64 + a(i + 1)
         /\ ShiftedIn(front, src, i, i + 2) =
              ((front * 64 + a(i)) * 64 + a(i + 1)) * 64 + a(i + 2)
<1> DEFINE a(k) == Low6(Unit(src, k))
<1>1. ASSUME NEW j \in i .. (i + 2)
      PROVE  \E x : /\ ShiftedIn(front, src, i, j) = x[j]
                    /\ x[i - 1] = front
                    /\ \A k \in i .. j : x[k] = x[k - 1] * 64 + a(k)
  <2>1. j \in Nat /\ i - 1 <= j
    OBVIOUS
  <2>2. PICK x : Shifts(x, front, src, i, j)
    BY <2>1, ShiftedUpTo
  <2> QED BY <2>2 DEF Shifts
<1> HIDE DEF a
<1>2. ShiftedIn(front, src, i, i) = front * 64 + a(i)
  <2>1. PICK x : /\ ShiftedIn(front, src, i, i) = x[i]
                 /\ x[i - 1] = front
                 /\ \A k \in i .. i : x[k] = x[k - 1] * 64 + a(k)
    BY <1>1
  <2> QED BY <2>1
<1>3. ShiftedIn(front, src, i, i + 1) = (front * 64 + a(i)) * 64 + a(i + 1)
  <2>0. PICK j \in i .. (i + 2) : j = i + 1
    OBVIOUS
  <2>1. PICK x : /\ ShiftedIn(front, src, i, j) = x[j]
                 /\ x[i - 1] = front
                 /\ \A k \in i .. j : x[k] = x[k - 1] * 64 + a(k)
    BY <1>1
  <2>2. x[i] = x[i - 1] * 64 + a(i)
    BY <2>0, <2>1
  <2>3. x[i + 1] = x[i] * 64 + a(i + 1)
    <3>1. (i + 1) - 1 = i /\ i + 1 \in i .. j
      BY <2>0
    <3> QED BY <2>1, <3>1
  <2> QED BY <2>0, <2>1, <2>2, <2>3
<1>4. ShiftedIn(front, src, i, i + 2) = ((front * 64 + a(i)) * 64 + a(i + 1)) * 64 + a(i + 2)
  <2>0. PICK j \in i .. (i + 2) : j = i + 2
    OBVIOUS
  <2>1. PICK x : /\ ShiftedIn(front, src, i, j) = x[j]
                 /\ x[i - 1] = front
                 /\ \A k \in i .. j : x[k] = x[k - 1] * 64 + a(k)
    BY <1>1
  <2>2. x[i] = x[i - 1] * 64 + a(i)
    BY <2>0, <2>1
  <2>3. x[i + 1] = x[i] * 64 + a(i + 1)
    <3>1. (i + 1) - 1 = i /\ i + 1 \in i .. j
      BY <2>0
    <3> QED BY <2>1, <3>1
  <2>4. x[i + 2] = x[i + 1] * 64 + a(i + 2)
    <3>1. (i + 2) - 1 = i + 1 /\ i + 2 \in i .. j
      BY <2>0
    <3> QED BY <2>1, <3>1
  <2> QED BY <2>0, <2>1, <2>2, <2>3, <2>4
<1> QED BY <1>2, <1>3, <1>4 DEF a

LEMMA BytesAreNat ==
  ASSUME NEW src \in Seq(Bytes)
  PROVE  /\ src \in Seq(Nat)
         /\ \A i \in 1 .. Len(src) : src[i] \in Bytes
         /\ \A i \in Nat \ {0} : Unit(src, i) \in Bytes /\ Low6(Unit(src, i)) \in 0 .. 63
<1>1. Bytes \subseteq Nat /\ 0 \in Bytes
  BY DEF Bytes
<1>2. \A i \in 1 .. Len(src) : src[i] \in Bytes
  OBVIOUS
<1>3. src \in Seq(Nat)
  <2>1. src = [k \in 1 .. Len(src) |-> src[k]] /\ Len(src) \in Nat
    OBVIOUS
  <2>2. \A k \in 1 .. Len(src) : src[k] \in Nat
    BY <1>1, <1>2
  <2> QED BY <2>1, <2>2
<1>4. ASSUME NEW i \in Nat \ {0} PROVE Unit(src, i) \in Bytes
  BY <1>1, <1>2 DEF Unit
<1>5. \A x \in 0 .. 255 : x % 64 \in 0 .. 63
  OBVIOUS
<1> QED BY <1>2, <1>3, <1>4, <1>5 DEF Low6, Bytes

(* The first byte says how many follow; these six bits each.                *)
Spells(len, point, b, x, y, z) ==
  /\ b < 192 => len = 1 /\ point = b
  /\ b \in 192 .. 223 => len = 2 /\ point = (b % 32) * 64 + x
  /\ b \in 224 .. 239 => len = 3 /\ point = ((b % 16) * 64 + x) * 64 + y
  /\ b \in 240 .. 255 => len = 4 /\ point = (((b % 8) * 64 + x) * 64 + y) * 64 + z

LEMMA Spelled ==
  ASSUME NEW src \in Seq(Bytes), NEW i \in 1 .. Len(src)
  PROVE  Spells(Len8(src, i), Point8(src, i), src[i],
                Low6(Unit(src, i + 1)), Low6(Unit(src, i + 2)), Low6(Unit(src, i + 3)))
<1>1. src \in Seq(Nat) /\ src[i] \in 0 .. 255 /\ i \in Nat
  BY BytesAreNat DEF Bytes
<1>2. PICK b \in 0 .. 255 : b = src[i]
  BY <1>1
<1> DEFINE a(k) == Low6(Unit(src, i + k))
<1>3. ASSUME b < 192 PROVE Len8(src, i) = 1 /\ Point8(src, i) = b
  <2>1. b \div 16 < 12
    BY <1>3
  <2>2. Len8(src, i) = 1
    BY <1>2, <2>1 DEF Len8, utf8_codepoint_len
  <2> QED BY <1>2, <1>3, <2>2 DEF Point8, utf8_to_utf32_codepoint
<1>4. ASSUME b \in 192 .. 223
      PROVE  Len8(src, i) = 2 /\ Point8(src, i) = (b % 32) * 64 + a(1)
  <2>1. b \div 16 \in {12, 13}
    BY <1>4
  <2>2. Len8(src, i) = 2
    BY <1>2, <2>1 DEF Len8, utf8_codepoint_len
  <2>3. b % 32 \in Nat /\ i + 1 \in Nat \ {0} /\ (i + 2) - 1 = i + 1
    BY <1>1
  <2>4. ShiftedIn(b % 32, src, i + 1, i + 1) = (b % 32) * 64 + a(1)
    BY <1>1, <2>3, ShiftedIs
  <2> QED BY <1>2, <1>4, <2>2, <2>3, <2>4 DEF Point8, utf8_to_utf32_codepoint, FirstBits
<1>5. ASSUME b \in 224 .. 239
      PROVE  Len8(src, i) = 3 /\ Point8(src, i) = ((b % 16) * 64 + a(1)) * 64 + a(2)
  <2>1. b \div 16 = 14
    BY <1>5
  <2>2. Len8(src, i) = 3
    BY <1>2, <2>1 DEF Len8, utf8_codepoint_len
  <2>3. PICK k \in Nat \ {0} : k = i + 1
    BY <1>1
  <2>4. b % 16 \in Nat /\ k + 1 = i + 2 /\ (i + 3) - 1 = i + 2
    BY <1>1, <2>3
  <2>5. ShiftedIn(b % 16, src, k, k + 1) = ((b % 16) * 64 + a(1)) * 64 + a(2)
    BY <1>1, <2>3, <2>4, ShiftedIs
  <2> HIDE DEF a
  <2> QED BY <1>2, <1>5, <2>2, <2>3, <2>4, <2>5 DEF Point8, utf8_to_utf32_codepoint, FirstBits
<1>6. ASSUME b \in 240 .. 255
      PROVE  Len8(src, i) = 4 /\ Point8(src, i) = (((b % 8) * 64 + a(1)) * 64 + a(2)) * 64 + a(3)
  <2>1. b \div 16 = 15
    BY <1>6
  <2>2. Len8(src, i) = 4
    BY <1>2, <2>1 DEF Len8, utf8_codepoint_len
  <2>3. PICK k \in Nat \ {0} : k = i + 1
    BY <1>1
  <2>4. b % 8 \in Nat /\ k + 1 = i + 2 /\ k + 2 = i + 3 /\ (i + 4) - 1 = i + 3
    BY <1>1, <2>3
  <2>5. ShiftedIn(b % 8, src, k, k + 2) = (((b % 8) * 64 + a(1)) * 64 + a(2)) * 64 + a(3)
    BY <1>1, <2>3, <2>4, ShiftedIs
  <2> HIDE DEF a
  <2> QED BY <1>2, <1>6, <2>2, <2>3, <2>4, <2>5 DEF Point8, utf8_to_utf32_codepoint, FirstBits
<1>7. Spells(Len8(src, i), Point8(src, i), b, a(1), a(2), a(3))
  <2> HIDE DEF a
  <2> QED BY <1>3, <1>4, <1>5, <1>6 DEF Spells
<1> QED BY <1>2, <1>7

(* More than four bytes can spell.                                          *)
Unspelled == 2048 * 1024

LEMMA PointRange ==
  ASSUME NEW src \in Seq(Bytes), NEW i \in 1 .. Len(src)
  PROVE  /\ Len8(src, i) \in 1 .. 4 /\ Units8(src, i) \in 1 .. 2
         /\ Point8(src, i) \in Nat /\ Point8(src, i) < Unspelled
         /\ Point8(src, i) >= Plane => Len8(src, i) = 4
<1>1. src[i] \in 0 .. 255 /\ i \in Nat
  BY BytesAreNat DEF Bytes
<1>2. PICK b \in 0 .. 255 : b = src[i]
  BY <1>1
<1>3. i + 1 \in Nat \ {0} /\ i + 2 \in Nat \ {0} /\ i + 3 \in Nat \ {0}
  BY <1>1
<1>4. PICK x \in 0 .. 63, y \in 0 .. 63, z \in 0 .. 63 :
        /\ x = Low6(Unit(src, i + 1)) /\ y = Low6(Unit(src, i + 2)) /\ z = Low6(Unit(src, i + 3))
  BY <1>3, BytesAreNat
<1>5. /\ b < 192 => Len8(src, i) = 1 /\ Point8(src, i) = b
      /\ b \in 192 .. 223 => Len8(src, i) = 2 /\ Point8(src, i) = (b % 32) * 64 + x
      /\ b \in 224 .. 239 => Len8(src, i) = 3 /\ Point8(src, i) = ((b % 16) * 64 + x) * 64 + y
      /\ b \in 240 .. 255 => /\ Len8(src, i) = 4
                             /\ Point8(src, i) = (((b % 8) * 64 + x) * 64 + y) * 64 + z
  <2>1. Spells(Len8(src, i), Point8(src, i), b, x, y, z)
    BY <1>2, <1>4, Spelled
  <2> QED BY <2>1 DEF Spells
<1>6. b < 192 \/ b \in 192 .. 223 \/ b \in 224 .. 239 \/ b \in 240 .. 255
  OBVIOUS
<1>7. b % 32 \in 0 .. 31 /\ b % 16 \in 0 .. 15 /\ b % 8 \in 0 .. 7
  OBVIOUS
<1>8. /\ Len8(src, i) \in 1 .. 4 /\ Point8(src, i) \in Nat
      /\ Point8(src, i) < (IF Len8(src, i) = 4 THEN Unspelled ELSE Plane)
  <2>1. PICK l, c : l = Len8(src, i) /\ c = Point8(src, i)
    OBVIOUS
  <2>2. PICK t, u, v : t = b % 32 /\ u = b % 16 /\ v = b % 8
    OBVIOUS
  <2>3. l \in 1 .. 4 /\ c \in Nat /\ (c < IF l = 4 THEN Unspelled ELSE Plane)
    <3>1. CASE b < 192
      <4>1. l = 1 /\ c \in 0 .. 191
        BY <1>5, <2>1, <3>1
      <4>2. c < Plane
        BY <4>1, SMTT(15) DEF Plane
      <4> QED BY <4>1, <4>2
    <3>2. CASE b \in 192 .. 223
      <4>1. l = 2 /\ c = t * 64 + x /\ t \in 0 .. 31
        BY <1>5, <1>7, <2>1, <2>2, <3>2
      <4>2. c \in 0 .. 2047
        BY <4>1
      <4>3. c < Plane
        BY <4>2, SMTT(15) DEF Plane
      <4> QED BY <4>1, <4>2, <4>3
    <3>3. CASE b \in 224 .. 239
      <4>1. l = 3 /\ c = (u * 64 + x) * 64 + y /\ u \in 0 .. 15
        BY <1>5, <1>7, <2>1, <2>2, <3>3
      <4>2. c \in Nat /\ c < Plane
        BY <4>1, SMTT(15) DEF Plane
      <4> QED BY <4>1, <4>2
    <3>4. CASE b \in 240 .. 255
      <4>1. l = 4 /\ c = ((v * 64 + x) * 64 + y) * 64 + z /\ v \in 0 .. 7
        BY <1>5, <1>7, <2>1, <2>2, <3>4
      <4>2. c \in Nat /\ c < Unspelled
        BY <4>1, SMTT(15) DEF Unspelled
      <4> QED BY <4>1, <4>2
    <3> QED BY <1>6, <3>1, <3>2, <3>3, <3>4
  <2> QED BY <2>1, <2>3
<1>9. Point8(src, i) < Plane => Point8(src, i) < Unspelled
  BY <1>8, SMTT(15) DEF Plane, Unspelled
<1>10. Point8(src, i) >= Plane => Len8(src, i) = 4
  <2>1. PICK c \in Nat, q \in Nat : c = Point8(src, i) /\ q = Plane
    BY <1>8, SMTT(15) DEF Plane
  <2> QED BY <1>8, <2>1
<1> QED BY <1>8, <1>9, <1>10 DEF Units8

(* A code point is that of the bytes it takes, wherever they are.           *)
LEMMA SamePoint ==
  ASSUME NEW s \in Seq(Bytes), NEW i \in 1 .. Len(s), NEW t \in Seq(Bytes), NEW j \in 1 .. Len(t),
         \A k \in 0 .. (Len8(s, i) - 1) : Unit(s, i + k) = Unit(t, j + k)
  PROVE  Len8(t, j) = Len8(s, i) /\ Point8(t, j) = Point8(s, i) /\ Units8(t, j) = Units8(s, i)
<1>1. s[i] \in 0 .. 255 /\ i \in Nat /\ t[j] \in 0 .. 255 /\ j \in Nat /\ Len8(s, i) \in 1 .. 4
  BY BytesAreNat, PointRange DEF Bytes
<1>2. PICK b \in 0 .. 255 : b = s[i] /\ b = t[j]
  <2>1. Unit(s, i + 0) = Unit(t, j + 0)
    BY <1>1
  <2>2. i + 0 = i /\ j + 0 = j /\ Unit(s, i) = s[i] /\ Unit(t, j) = t[j]
    BY <1>1 DEF Unit
  <2> QED BY <1>1, <2>1, <2>2
<1>3. Len8(t, j) = Len8(s, i)
  BY <1>2 DEF Len8
<1>4. PICK x, y, z, u, v, w :
        /\ x = Low6(Unit(s, i + 1)) /\ y = Low6(Unit(s, i + 2)) /\ z = Low6(Unit(s, i + 3))
        /\ u = Low6(Unit(t, j + 1)) /\ v = Low6(Unit(t, j + 2)) /\ w = Low6(Unit(t, j + 3))
  OBVIOUS
<1>5. Point8(t, j) = Point8(s, i)
  <2>1. Spells(Len8(s, i), Point8(s, i), b, x, y, z) /\ Spells(Len8(t, j), Point8(t, j), b, u, v, w)
    BY <1>2, <1>4, Spelled
  <2>2. /\ Len8(s, i) > 1 => x = u
        /\ Len8(s, i) > 2 => y = v
        /\ Len8(s, i) > 3 => z = w
    <3>1. PICK l \in 1 .. 4 : l = Len8(s, i)
      BY <1>1
    <3>2. /\ l > 1 => 1 \in 0 .. (l - 1)
          /\ l > 2 => 2 \in 0 .. (l - 1)
          /\ l > 3 => 3 \in 0 .. (l - 1)
      OBVIOUS
    <3> QED BY <1>4, <3>1, <3>2
  <2>3. b < 192 \/ b \in 192 .. 223 \/ b \in 224 .. 239 \/ b \in 240 .. 255
    OBVIOUS
  <2> QED BY <2>1, <2>2, <2>3 DEF Spells
<1> QED BY <1>3, <1>5 DEF Units8

-----------------------------------------------------------------------------
(* The conversions from UTF-8 unfolded.                                     *)

Measures(f, src, n) ==
  /\ f \in [1 .. (n + 4) -> Int]
  /\ utf8_to_utf16_length(src, n, FALSE) = f[1]
  /\ f[n + 1] = 0
  /\ \A i \in (n + 2) .. (n + 4) : f[i] = -1
  /\ \A i \in 1 .. n :
       f[i] = IF i + Len8(src, i) - 1 > n \/ f[i + Len8(src, i)] = -1 THEN -1
              ELSE Units8(src, i) + f[i + Len8(src, i)]

LEMMA Measured ==
  ASSUME NEW src \in Seq(Bytes), NEW n \in 0 .. Len(src)
  PROVE  \E f : Measures(f, src, n)
<1> DEFINE D == 1 .. (n + 4)
           Body(i, r) == IF i + Len8(src, i) - 1 > n \/ r = -1 THEN -1 ELSE Units8(src, i) + r
           End(i) == IF i = n + 1 THEN 0 ELSE -1
           from[i \in D] == IF i > n THEN End(i) ELSE Body(i, from[i + Len8(src, i)])
           T == {i \in D : i > n}
           rank == [i \in D |-> n + 4 - i]
           base == [i \in D |-> End(i)]
           next == [i \in D |-> IF i > n THEN i ELSE i + Len8(src, i)]
           step == [i \in D |-> [r \in Int |-> IF i > n THEN 0 ELSE Body(i, r)]]
<1>1. \A i \in D : i > n \/ (i \in 1 .. Len(src) /\ i + Len8(src, i) \in D /\ Len8(src, i) \in 1 .. 4 /\ Units8(src, i) \in 1 .. 2)
  <2> SUFFICES ASSUME NEW i \in D, ~(i > n)
               PROVE  i \in 1 .. Len(src) /\ i + Len8(src, i) \in D /\ Len8(src, i) \in 1 .. 4 /\ Units8(src, i) \in 1 .. 2
    OBVIOUS
  <2>1. i \in 1 .. Len(src) /\ i <= n
    OBVIOUS
  <2>2. Len8(src, i) \in 1 .. 4 /\ Units8(src, i) \in 1 .. 2
    BY <2>1, PointRange
  <2> QED BY <2>1, <2>2
<1>2. Recursive(D, Int, T, n + 4, rank, base, next, step)
  <2>1. n + 4 \in Nat /\ rank \in [D -> 0 .. (n + 4)] /\ base \in [D -> Int]
    OBVIOUS
  <2>2. next \in [D -> D]
    BY <1>1
  <2>3. \A i \in D : i \in T \/ rank[next[i]] < rank[i]
    <3> SUFFICES ASSUME NEW i \in D, ~(i > n) PROVE rank[next[i]] < rank[i]
      OBVIOUS
    <3>1. PICK j \in D : j = next[i] /\ j = i + Len8(src, i) /\ j > i
      BY <1>1, SMTT(20)
    <3>2. rank[j] = n + 4 - j /\ rank[i] = n + 4 - i
      OBVIOUS
    <3> HIDE DEF next, rank
    <3> QED BY <3>1, <3>2
  <2>4. step \in [D -> [Int -> Int]]
    <3>1. \A i \in D, r \in Int : i > n \/ Body(i, r) \in Int
      BY <1>1
    <3> HIDE DEF Body, D
    <3> QED BY <3>1
  <2> HIDE DEF D, T, rank, base, next, step
  <2> QED BY <2>1, <2>2, <2>3, <2>4 DEF Recursive
<1>3. PICK f : Solves(f, D, Int, T, base, next, step)
  <2> HIDE DEF T, next, step, base, rank, D
  <2> QED BY <1>2, Recursion
<1>4. f \in [D -> Int]
  BY <1>3 DEF Solves
<1>5. ASSUME NEW i \in D
      PROVE  f[i] = IF i > n THEN End(i) ELSE Body(i, f[i + Len8(src, i)])
  <2>1. f[i] = IF i \in T THEN base[i] ELSE step[i][f[next[i]]]
    BY <1>3 DEF Solves
  <2>2. CASE i > n
    BY <2>1, <2>2
  <2>3. CASE ~(i > n)
    <3>1. i \notin T /\ next[i] = i + Len8(src, i) /\ f[next[i]] \in Int
      BY <1>1, <1>4, <2>3
    <3>2. \A r \in Int : step[i][r] = Body(i, r)
      BY <2>3
    <3> HIDE DEF T, next, step, D, Body
    <3> QED BY <2>1, <2>3, <3>1, <3>2
  <2> QED BY <2>2, <2>3
<1>6. from = [i \in D |-> IF i > n THEN End(i) ELSE Body(i, from[i + Len8(src, i)])]
  <2>1. f = [i \in D |-> IF i > n THEN End(i) ELSE Body(i, f[i + Len8(src, i)])]
    <3> HIDE DEF D, Body, End
    <3> QED BY <1>4, <1>5
  <2> HIDE DEF D, Body, End
  <2> QED BY <2>1
<1>7. utf8_to_utf16_length(src, n, FALSE) = from[1]
  BY DEF utf8_to_utf16_length, Len8, Units8, Point8
<1> HIDE DEF from
<1>8. \A i \in D : f[i] = from[i]
  <2>1. ASSUME NEW i \in D, i \in T \/ f[next[i]] = from[next[i]] PROVE f[i] = from[i]
    <3>1. from[i] = IF i > n THEN End(i) ELSE Body(i, from[i + Len8(src, i)])
      <4> HIDE DEF D, Body, End
      <4> QED BY <1>6
    <3>2. CASE i > n
      BY <1>5, <3>1, <3>2
    <3>3. CASE ~(i > n)
      <4>1. f[i + Len8(src, i)] = from[i + Len8(src, i)]
        BY <2>1, <3>3
      <4> HIDE DEF D, Body, End
      <4> QED BY <1>5, <3>1, <3>3, <4>1
    <3> QED BY <3>2, <3>3
  <2> HIDE DEF T, next, step, base, rank, D
  <2> QED BY <1>2, <2>1, RecursionUnique
<1>9. 1 \in D /\ n + 1 \in D /\ n + 1 > n /\ (\A i \in (n + 2) .. (n + 4) : i \in D /\ i > n /\ i # n + 1)
      /\ \A i \in 1 .. n : i \in D /\ ~(i > n)
  OBVIOUS
<1> QED
  <2>1. \A i \in (n + 2) .. (n + 4) : f[i] = -1
    BY <1>5, <1>9
  <2>2. \A i \in 1 .. n : f[i] = Body(i, f[i + Len8(src, i)])
    <3> HIDE DEF D, Body
    <3> QED BY <1>5, <1>9
  <2>3. f[n + 1] = 0
    BY <1>5, <1>9
  <2>4. utf8_to_utf16_length(src, n, FALSE) = f[1]
    <3> HIDE DEF D
    <3> QED BY <1>7, <1>8, <1>9
  <2> QED BY <1>4, <2>1, <2>2, <2>3, <2>4 DEF Measures

(* Units are numbers.                                                       *)
LEMMA UnitsAreNat ==
  ASSUME NEW c \in Nat
  PROVE  /\ UnitsOf(c) \in Seq(Nat)
         /\ Len(UnitsOf(c)) = IF c >= Plane THEN 2 ELSE 1
         /\ c >= Plane => UnitsOf(c) = Surrogates(c)
         /\ ~(c >= Plane) => UnitsOf(c) = <<c>>
<1>1. CASE c >= Plane
  <2>1. PICK q \in Nat, p \in Nat \ {0}, e \in Nat, l \in Nat :
          /\ p = Plane /\ e = kUnicodeSurrogateStart /\ l = kUnicodeSurrogateLowStart
          /\ c >= p /\ q = c - p
    BY <1>1, SMTT(15) DEF Plane, kUnicodeSurrogateStart, kUnicodeSurrogateLowStart
  <2>2. q \div 1024 \in Nat /\ q % 1024 \in Nat
    OBVIOUS
  <2>3. PICK k \in Nat : k = (q \div 1024) + e
    BY <2>2
  <2>4. k % p \in Nat
    OBVIOUS
  <2>5. Surrogates(c) = <<k % p, (q % 1024) + l>>
    BY <2>1, <2>3 DEF Surrogates
  <2>6. Surrogates(c) \in Seq(Nat) /\ Len(Surrogates(c)) = 2
    BY <2>2, <2>4, <2>5
  <2> QED BY <1>1, <2>6 DEF UnitsOf
<1>2. CASE ~(c >= Plane)
  BY <1>2 DEF UnitsOf
<1> QED BY <1>1, <1>2

Converts(f, src, n, d) ==
  /\ f \in [(1 .. (n + 4)) \X (0 .. d) -> Seq(Nat)]
  /\ utf8_to_utf16_no_null_terminator(src, n, d) = f[<<1, d>>]
  /\ \A i \in 1 .. (n + 4), r \in 0 .. d :
       f[<<i, r>>] = IF i > n \/ r < Units8(src, i) THEN <<>>
                     ELSE UnitsOf(Point8(src, i)) \o f[<<i + Len8(src, i), r - Units8(src, i)>>]

LEMMA Converted ==
  ASSUME NEW src \in Seq(Bytes), NEW n \in 0 .. Len(src), NEW d \in Nat
  PROVE  \E f : Converts(f, src, n, d)
<1> DEFINE D == (1 .. (n + 4)) \X (0 .. d)
           Stops(i, r) == i > n \/ r < Units8(src, i)
           Cased(g, i, r) ==
             CASE i > n \/ r = 0 -> <<>>
               [] i <= n /\ r > 0 /\ Point8(src, i) < Plane ->
                    <<Point8(src, i)>> \o g[<<i + Len8(src, i), r - 1>>]
               [] i <= n /\ r = 1 /\ Point8(src, i) >= Plane -> <<>>
               [] OTHER -> Surrogates(Point8(src, i)) \o g[<<i + Len8(src, i), r - 2>>]
           from[x \in D] == Cased(from, x[1], x[2])
           T == {x \in D : Stops(x[1], x[2])}
           rank == [x \in D |-> n + 4 - x[1]]
           base == [x \in D |-> <<>>]
           next == [x \in D |-> IF x \in T THEN x
                                ELSE <<x[1] + Len8(src, x[1]), x[2] - Units8(src, x[1])>>]
           step == [x \in D |-> [s \in Seq(Nat) |-> IF x \in T THEN <<>>
                                                    ELSE UnitsOf(Point8(src, x[1])) \o s]]
<1>1. ASSUME NEW i \in 1 .. (n + 4), NEW r \in 0 .. d, ~(i > n)
      PROVE  /\ i \in 1 .. Len(src) /\ Len8(src, i) \in 1 .. 4 /\ Units8(src, i) \in 1 .. 2
             /\ Point8(src, i) \in Nat
             /\ r >= Units8(src, i) => <<i + Len8(src, i), r - Units8(src, i)>> \in D
  <2>1. i \in 1 .. Len(src) /\ i <= n
    BY <1>1
  <2>2. Len8(src, i) \in 1 .. 4 /\ Units8(src, i) \in 1 .. 2 /\ Point8(src, i) \in Nat
    BY <2>1, PointRange
  <2>3. PICK l \in 1 .. 4, u \in 1 .. 2 : l = Len8(src, i) /\ u = Units8(src, i)
    BY <2>2
  <2>4. r >= u => i + l \in 1 .. (n + 4) /\ r - u \in 0 .. d
    BY <2>1
  <2> QED BY <2>1, <2>2, <2>3, <2>4
<1>2. Recursive(D, Seq(Nat), T, n + 4, rank, base, next, step)
  <2>1. n + 4 \in Nat /\ rank \in [D -> 0 .. (n + 4)] /\ base \in [D -> Seq(Nat)]
    OBVIOUS
  <2>2. ASSUME NEW x \in D PROVE next[x] \in D /\ (x \in T \/ rank[next[x]] < rank[x])
    <3>1. CASE x \in T
      BY <3>1
    <3>2. CASE x \notin T
      <4>1. PICK i \in 1 .. (n + 4), r \in 0 .. d : x = <<i, r>>
        OBVIOUS
      <4>2. ~(i > n) /\ ~(r < Units8(src, i))
        BY <3>2, <4>1
      <4>3. PICK l \in 1 .. 4, u \in 1 .. 2 : l = Len8(src, i) /\ u = Units8(src, i)
        BY <1>1, <4>2
      <4>4. next[x] = <<i + l, r - u>> /\ <<i + l, r - u>> \in D
        BY <1>1, <3>2, <4>1, <4>2, <4>3, SMTT(20)
      <4>5. rank[<<i + l, r - u>>] = n + 4 - (i + l) /\ rank[x] = n + 4 - i
        BY <4>1, <4>4
      <4> HIDE DEF next, rank, T, D
      <4> QED BY <4>4, <4>5
    <3> QED BY <3>1, <3>2
  <2>3. next \in [D -> D]
    BY <2>2
  <2>4. step \in [D -> [Seq(Nat) -> Seq(Nat)]]
    <3> SUFFICES ASSUME NEW x \in D, x \notin T, NEW s \in Seq(Nat)
                 PROVE  UnitsOf(Point8(src, x[1])) \o s \in Seq(Nat)
      OBVIOUS
    <3>1. PICK i \in 1 .. (n + 4), r \in 0 .. d : x = <<i, r>>
      OBVIOUS
    <3>2. Point8(src, i) \in Nat
      BY <1>1, <3>1
    <3>3. UnitsOf(Point8(src, i)) \in Seq(Nat)
      BY <3>2, UnitsAreNat
    <3> QED BY <3>1, <3>3
  <2> HIDE DEF D, T, rank, base, next, step
  <2> QED BY <2>1, <2>2, <2>3, <2>4 DEF Recursive
<1>3. PICK f : Solves(f, D, Seq(Nat), T, base, next, step)
  <2> HIDE DEF T, next, step, base, rank, D
  <2> QED BY <1>2, Recursion
<1>4. f \in [D -> Seq(Nat)]
  BY <1>3 DEF Solves
<1>5. ASSUME NEW i \in 1 .. (n + 4), NEW r \in 0 .. d
      PROVE  f[<<i, r>>] = IF Stops(i, r) THEN <<>>
                           ELSE UnitsOf(Point8(src, i)) \o f[<<i + Len8(src, i), r - Units8(src, i)>>]
  <2>1. PICK x \in D : x = <<i, r>>
    OBVIOUS
  <2>2. f[x] = IF x \in T THEN base[x] ELSE step[x][f[next[x]]]
    BY <1>3 DEF Solves
  <2>3. CASE Stops(i, r)
    BY <2>1, <2>2, <2>3
  <2>4. CASE ~Stops(i, r)
    <3>1. x \notin T
      BY <2>1, <2>4
    <3>2. next[x] = <<i + Len8(src, i), r - Units8(src, i)>> /\ next[x] \in D
      BY <1>1, <2>1, <2>4, <3>1
    <3>3. f[next[x]] \in Seq(Nat)
      BY <1>4, <3>2
    <3>4. \A s \in Seq(Nat) : step[x][s] = UnitsOf(Point8(src, i)) \o s
      BY <2>1, <3>1
    <3> HIDE DEF T, next, step, D, Stops
    <3> QED BY <2>1, <2>2, <2>4, <3>1, <3>2, <3>3, <3>4
  <2> QED BY <2>3, <2>4
(* The three cases of the code are those two.                               *)
<1>6. ASSUME NEW g, NEW i \in 1 .. (n + 4), NEW r \in 0 .. d
      PROVE  Cased(g, i, r) =
               IF Stops(i, r) THEN <<>>
               ELSE UnitsOf(Point8(src, i)) \o g[<<i + Len8(src, i), r - Units8(src, i)>>]
  <2>1. CASE i > n
    BY <2>1
  <2>2. CASE ~(i > n)
    <3>1. PICK c \in Nat, u \in 1 .. 2 : c = Point8(src, i) /\ u = Units8(src, i)
      BY <1>1, <2>2
    <3>2. PICK p \in Nat : p = Plane
      BY SMTT(15) DEF Plane
    <3>3. CASE c < p
      <4>1. u = 1 /\ ~(c >= p) /\ UnitsOf(c) = <<c>>
        BY <3>1, <3>2, <3>3, UnitsAreNat DEF Units8
      <4>2. CASE r = 0
        BY <2>2, <3>1, <3>2, <3>3, <4>1, <4>2
      <4>3. CASE r # 0
        <5>1. ~(r < u)
          BY <4>1, <4>3
        <5> QED BY <2>2, <3>1, <3>2, <3>3, <4>1, <4>3, <5>1
      <4> QED BY <4>2, <4>3
    <3>4. CASE ~(c < p)
      <4>1. u = 2 /\ c >= p /\ UnitsOf(c) = Surrogates(c)
        BY <3>1, <3>2, <3>4, UnitsAreNat DEF Units8
      <4>2. CASE r \in {0, 1}
        BY <2>2, <3>1, <3>2, <3>4, <4>1, <4>2
      <4>3. CASE r \notin {0, 1}
        <5>1. ~(r < u)
          BY <4>1, <4>3
        <5> QED BY <2>2, <3>1, <3>2, <3>4, <4>1, <4>3, <5>1
      <4> QED BY <4>2, <4>3
    <3> QED BY <3>3, <3>4
  <2> QED BY <2>1, <2>2
<1>7. from = [x \in D |-> Cased(from, x[1], x[2])]
  <2>1. f = [x \in D |-> Cased(f, x[1], x[2])]
    <3>1. ASSUME NEW x \in D PROVE f[x] = Cased(f, x[1], x[2])
      <4>1. PICK i \in 1 .. (n + 4), r \in 0 .. d : x = <<i, r>>
        OBVIOUS
      <4>2. f[<<i, r>>] = Cased(f, i, r)
        <5> HIDE DEF Cased, Stops, D
        <5> QED BY <1>5, <1>6
      <4> HIDE DEF Cased
      <4> QED BY <4>1, <4>2
    <3> HIDE DEF Cased, D
    <3> QED BY <1>4, <3>1
  <2> HIDE DEF Cased, D
  <2> QED BY <2>1
<1>8. utf8_to_utf16_no_null_terminator(src, n, d) = from[<<1, d>>]
  BY DEF utf8_to_utf16_no_null_terminator, Len8, Point8
<1> HIDE DEF from
<1>9. \A x \in D : f[x] = from[x]
  <2>1. ASSUME NEW x \in D, x \in T \/ f[next[x]] = from[next[x]] PROVE f[x] = from[x]
    <3>1. PICK i \in 1 .. (n + 4), r \in 0 .. d : x = <<i, r>>
      OBVIOUS
    <3>2. from[<<i, r>>] = Cased(from, i, r)
      <4>1. <<i, r>> \in D /\ <<i, r>>[1] = i /\ <<i, r>>[2] = r
        OBVIOUS
      <4> HIDE DEF Cased, D
      <4> QED BY <1>7, <4>1
    <3>3. from[<<i, r>>] = IF Stops(i, r) THEN <<>>
                ELSE UnitsOf(Point8(src, i)) \o from[<<i + Len8(src, i), r - Units8(src, i)>>]
      <4> HIDE DEF Cased, Stops
      <4> QED BY <1>6, <3>2
    <3>4. ~Stops(i, r) => next[x] = <<i + Len8(src, i), r - Units8(src, i)>> /\ x \notin T
      BY <3>1
    <3> HIDE DEF Cased, Stops, next, T, D
    <3> QED BY <1>5, <2>1, <3>1, <3>3, <3>4
  <2> HIDE DEF T, next, step, base, rank, D
  <2> QED BY <1>2, <2>1, RecursionUnique
<1>10. <<1, d>> \in D
  OBVIOUS
<1> QED
  <2>1. utf8_to_utf16_no_null_terminator(src, n, d) = f[<<1, d>>]
    <3> HIDE DEF D
    <3> QED BY <1>8, <1>9, <1>10
  <2> QED BY <1>4, <1>5, <2>1 DEF Converts

(* From the end of a text to its beginning.                                 *)
LEMMA Downward ==
  ASSUME NEW m \in Nat, NEW S,
         \A i \in 1 .. m : (\A j \in (i + 1) .. m : j \in S) => i \in S
  PROVE  \A i \in 1 .. m : i \in S
<1> DEFINE Bad == {m - i : i \in {j \in 1 .. m : j \notin S}}
<1> SUFFICES ASSUME Bad # {} PROVE FALSE
  OBVIOUS
<1>1. Bad \subseteq Nat
  OBVIOUS
<1>2. PICK k \in Bad : \A j \in Bad : k <= j
  <2> HIDE DEF Bad
  <2> QED BY <1>1, Least
<1>3. PICK i \in 1 .. m : i \notin S /\ k = m - i
  BY <1>2
<1>4. PICK j \in (i + 1) .. m : j \notin S
  BY <1>3
<1>5. m - j \in Bad /\ m - j < k
  BY <1>3, <1>4
<1>6. k \in Int /\ m - j \in Int /\ k <= m - j
  <2> HIDE DEF Bad
  <2> QED BY <1>1, <1>2, <1>5
<1> QED BY <1>5, <1>6

(* The beginning of a text, unit by unit.                                   *)
Begins(a, b) == Len(a) <= Len(b) /\ \A k \in 1 .. Len(a) : a[k] = b[k]

LEMMA BeginsIsPrefix ==
  ASSUME NEW S, NEW a \in Seq(S), NEW b \in Seq(S), Begins(a, b)
  PROVE  IsPrefix(a, b)
<1>1. Len(a) \in Nat /\ Len(b) \in Nat /\ Len(a) <= Len(b) /\ \A k \in 1 .. Len(a) : a[k] = b[k]
  BY DEF Begins
<1>2. SubSeq(a, 1, Len(a)) = [k \in 1 .. Len(a) |-> a[k]]
      /\ SubSeq(b, 1, Len(a)) = [k \in 1 .. Len(a) |-> b[k]]
  BY <1>1
<1>3. SubSeq(a, 1, Len(a)) = SubSeq(b, 1, Len(a))
  BY <1>1, <1>2
<1> QED BY <1>1, <1>3 DEF IsPrefix

LEMMA BeginsBehind ==
  ASSUME NEW S, NEW u \in Seq(S), NEW a \in Seq(S), NEW b \in Seq(S), Begins(a, b)
  PROVE  Begins(u \o a, u \o b)
<1>1. /\ Len(u) \in Nat /\ Len(a) \in Nat /\ Len(b) \in Nat
      /\ Len(u \o a) = Len(u) + Len(a) /\ Len(u \o b) = Len(u) + Len(b)
  OBVIOUS
<1>2. ASSUME NEW k \in 1 .. (Len(u) + Len(a)) PROVE (u \o a)[k] = (u \o b)[k]
  <2>1. k \in 1 .. (Len(u) + Len(b)) /\ Len(a) <= Len(b)
    BY <1>1 DEF Begins
  <2>2. /\ (u \o a)[k] = IF k <= Len(u) THEN u[k] ELSE a[k - Len(u)]
        /\ (u \o b)[k] = IF k <= Len(u) THEN u[k] ELSE b[k - Len(u)]
    BY <2>1, ConcatProperties
  <2>3. k > Len(u) => k - Len(u) \in 1 .. Len(a)
    BY <1>1
  <2> QED BY <1>1, <2>2, <2>3 DEF Begins
<1> QED BY <1>1, <1>2 DEF Begins

-----------------------------------------------------------------------------
(* What a text spells without an end of the room, and how room cuts it.     *)

Spelt(h, src, n) ==
  /\ h \in [1 .. (n + 4) -> Seq(Nat)]
  /\ \A i \in (n + 1) .. (n + 4) : h[i] = <<>>
  /\ \A i \in 1 .. n : h[i] = UnitsOf(Point8(src, i)) \o h[i + Len8(src, i)]

LEMMA SpeltExists ==
  ASSUME NEW src \in Seq(Bytes), NEW n \in 0 .. Len(src)
  PROVE  \E h : Spelt(h, src, n)
<1> DEFINE D == 1 .. (n + 4)
           T == {i \in D : i > n}
           rank == [i \in D |-> n + 4 - i]
           base == [i \in D |-> <<>>]
           next == [i \in D |-> IF i > n THEN i ELSE i + Len8(src, i)]
           step == [i \in D |-> [s \in Seq(Nat) |-> IF i > n THEN <<>> ELSE UnitsOf(Point8(src, i)) \o s]]
<1>1. ASSUME NEW i \in D, ~(i > n)
      PROVE  i + Len8(src, i) \in D /\ Len8(src, i) \in 1 .. 4 /\ UnitsOf(Point8(src, i)) \in Seq(Nat)
  <2>1. i \in 1 .. Len(src) /\ i <= n
    BY <1>1
  <2>2. Len8(src, i) \in 1 .. 4 /\ Point8(src, i) \in Nat
    BY <2>1, PointRange
  <2>3. UnitsOf(Point8(src, i)) \in Seq(Nat)
    BY <2>2, UnitsAreNat
  <2>4. PICK l \in 1 .. 4 : l = Len8(src, i)
    BY <2>2
  <2>5. i + l \in D
    BY <2>1
  <2> HIDE DEF D
  <2> QED BY <2>3, <2>4, <2>5
<1>2. Recursive(D, Seq(Nat), T, n + 4, rank, base, next, step)
  <2>1. n + 4 \in Nat /\ rank \in [D -> 0 .. (n + 4)] /\ base \in [D -> Seq(Nat)]
    OBVIOUS
  <2>2. next \in [D -> D]
    BY <1>1
  <2>3. \A i \in D : i \in T \/ rank[next[i]] < rank[i]
    <3> SUFFICES ASSUME NEW i \in D, ~(i > n) PROVE rank[next[i]] < rank[i]
      OBVIOUS
    <3>1. PICK l \in 1 .. 4 : l = Len8(src, i) /\ i + l \in D
      <4> HIDE DEF D
      <4> QED BY <1>1
    <3>2. next[i] = i + l
      BY <3>1
    <3>3. rank[i + l] = n + 4 - (i + l) /\ rank[i] = n + 4 - i
      BY <3>1
    <3> HIDE DEF next, rank
    <3> QED BY <3>2, <3>3
  <2>4. step \in [D -> [Seq(Nat) -> Seq(Nat)]]
    <3>1. \A i \in D, s \in Seq(Nat) : i > n \/ UnitsOf(Point8(src, i)) \o s \in Seq(Nat)
      BY <1>1, ConcatProperties
    <3> HIDE DEF D
    <3> QED BY <3>1
  <2> HIDE DEF D, T, rank, base, next, step
  <2> QED BY <2>1, <2>2, <2>3, <2>4 DEF Recursive
<1>3. PICK f : Solves(f, D, Seq(Nat), T, base, next, step)
  <2> HIDE DEF T, next, step, base, rank, D
  <2> QED BY <1>2, Recursion
<1>4. f \in [D -> Seq(Nat)]
  BY <1>3 DEF Solves
<1>5. ASSUME NEW i \in D
      PROVE  f[i] = IF i > n THEN <<>> ELSE UnitsOf(Point8(src, i)) \o f[i + Len8(src, i)]
  <2>1. f[i] = IF i \in T THEN base[i] ELSE step[i][f[next[i]]]
    BY <1>3 DEF Solves
  <2>2. CASE i > n
    BY <2>1, <2>2
  <2>3. CASE ~(i > n)
    <3>1. i \notin T /\ next[i] = i + Len8(src, i) /\ f[next[i]] \in Seq(Nat)
      BY <1>1, <1>4, <2>3
    <3>2. \A s \in Seq(Nat) : step[i][s] = UnitsOf(Point8(src, i)) \o s
      BY <2>3
    <3> HIDE DEF T, next, step, D
    <3> QED BY <2>1, <2>3, <3>1, <3>2
  <2> QED BY <2>2, <2>3
<1>6. \A i \in (n + 1) .. (n + 4) : i \in D /\ i > n
  OBVIOUS
<1>7. \A i \in 1 .. n : i \in D /\ ~(i > n)
  OBVIOUS
<1> QED
  <2>1. \A i \in (n + 1) .. (n + 4) : f[i] = <<>>
    <3> HIDE DEF D
    <3> QED BY <1>5, <1>6
  <2>2. \A i \in 1 .. n : f[i] = UnitsOf(Point8(src, i)) \o f[i + Len8(src, i)]
    <3> HIDE DEF D
    <3> QED BY <1>5, <1>7
  <2> QED BY <1>4, <2>1, <2>2 DEF Spelt

Cut(part, all, room) ==
  /\ Begins(part, all)
  /\ room >= Len(all) => part = all
  /\ room < Len(all) => \/ Len(part) = room
                        \/ Len(part) = room - 1 /\ all[room] >= kUnicodeSurrogateStart

(* The first unit of a pair is a surrogate: nothing is lost in 16 bits.     *)
LEMMA PairBegins ==
  ASSUME NEW c \in Nat, c >= Plane, c < Unspelled
  PROVE  UnitsOf(c)[1] \in Nat /\ UnitsOf(c)[1] >= kUnicodeSurrogateStart
<1>1. PICK q \in Nat, p \in Nat \ {0}, e \in Nat :
        /\ p = Plane /\ e = kUnicodeSurrogateStart /\ q = c - p
        /\ q < 1984 * 1024 /\ e + 1984 <= p
  BY SMTT(15) DEF Plane, kUnicodeSurrogateStart, Unspelled
<1>2. PICK d \in Nat : d = q \div 1024 /\ d < 1984
  <2>1. q \div 1024 \in Nat /\ q \div 1024 < 1984
    BY <1>1, SMTT(15)
  <2> QED BY <2>1
<1>3. PICK k \in Nat : k = d + e /\ k < p /\ k >= e
  BY <1>1, <1>2
<1>4. k % p = k
  BY <1>3
<1>5. UnitsOf(c) = <<k % p, (q % 1024) + kUnicodeSurrogateLowStart>>
  BY <1>1, <1>2, <1>3 DEF UnitsOf, Surrogates
<1>6. UnitsOf(c)[1] = k
  BY <1>4, <1>5
<1> QED BY <1>1, <1>3, <1>6

(* What is measured is spelt, and what is written is that, cut to the room. *)
LEMMA ConversionOf ==
  ASSUME NEW src \in Seq(Bytes), NEW n \in 0 .. Len(src), NEW d \in Nat,
         NEW f, Measures(f, src, n), NEW h, Spelt(h, src, n), NEW c, Converts(c, src, n, d)
  PROVE  \A i \in 1 .. (n + 4) : f[i] # -1 =>
           /\ f[i] \in Nat /\ f[i] <= n + 1 - i /\ Len(h[i]) = f[i]
           /\ \A r \in 0 .. d : Cut(c[<<i, r>>], h[i], r)
<1> DEFINE Good(i) == f[i] # -1 =>
             /\ f[i] \in Nat /\ f[i] <= n + 1 - i /\ Len(h[i]) = f[i]
             /\ \A r \in 0 .. d : Cut(c[<<i, r>>], h[i], r)
           S == {i \in 1 .. (n + 4) : Good(i)}
<1>1. ASSUME NEW i \in 1 .. (n + 4), \A j \in (i + 1) .. (n + 4) : j \in S PROVE i \in S
  <2>1. CASE i > n + 1
    <3>1. f[i] = -1
      BY <2>1 DEF Measures
    <3> QED BY <3>1
  <2>2. CASE i = n + 1
    <3>1. f[i] = 0 /\ h[i] = <<>>
      BY <2>2 DEF Measures, Spelt
    <3>2. \A r \in 0 .. d : c[<<i, r>>] = <<>>
      <4> SUFFICES ASSUME NEW r \in 0 .. d PROVE c[<<i, r>>] = <<>>
        OBVIOUS
      <4>1. c[<<i, r>>] = IF i > n \/ r < Units8(src, i) THEN <<>>
                          ELSE UnitsOf(Point8(src, i)) \o c[<<i + Len8(src, i), r - Units8(src, i)>>]
        BY DEF Converts
      <4>2. i > n
        BY <2>2
      <4> QED BY <4>1, <4>2
    <3>3. \A r \in 0 .. d : Cut(c[<<i, r>>], h[i], r)
      BY <3>1, <3>2 DEF Cut, Begins
    <3>4. 0 \in Nat /\ 0 <= n + 1 - i /\ Len(h[i]) = 0
      BY <2>2, <3>1
    <3> QED BY <3>1, <3>3, <3>4
  <2>3. CASE i <= n
    <3> SUFFICES ASSUME f[i] # -1
                 PROVE  /\ f[i] \in Nat /\ f[i] <= n + 1 - i /\ Len(h[i]) = f[i]
                        /\ \A r \in 0 .. d : Cut(c[<<i, r>>], h[i], r)
      OBVIOUS
    <3>1. i \in 1 .. n /\ i \in 1 .. Len(src)
      BY <2>3
    <3>2. PICK l \in 1 .. 4, p \in Nat : l = Len8(src, i) /\ p = Point8(src, i) /\ p < Unspelled
      BY <3>1, PointRange
    <3>3. PICK u \in Seq(Nat) : u = UnitsOf(p) /\ Len(u) = (IF p >= Plane THEN 2 ELSE 1)
      BY UnitsAreNat
    <3>4. Units8(src, i) = Len(u) /\ Len(u) \in 1 .. 2 /\ Len(u) <= l
      <4>1. Units8(src, i) = Len(u)
        BY <3>2, <3>3 DEF Units8
      <4>2. p >= Plane => l = 4
        BY <3>1, <3>2, PointRange
      <4> QED BY <3>3, <4>1, <4>2
    <3>5. i + l - 1 <= n /\ f[i + l] # -1 /\ f[i] = Len(u) + f[i + l]
      <4>1. f[i] = IF i + l - 1 > n \/ f[i + l] = -1 THEN -1 ELSE Len(u) + f[i + l]
        BY <3>1, <3>2, <3>4 DEF Measures
      <4> QED BY <3>2, <4>1
    <3>6. PICK j \in 1 .. (n + 4) : j = i + l /\ j \in (i + 1) .. (n + 4)
      BY <3>2, <3>5
    <3>7. Good(j)
      BY <1>1, <3>6
    <3>8. /\ f[j] \in Nat /\ f[j] <= n + 1 - j /\ Len(h[j]) = f[j]
          /\ \A r \in 0 .. d : Cut(c[<<j, r>>], h[j], r)
      BY <3>5, <3>6, <3>7
    <3>9. PICK a \in Seq(Nat) : a = h[j]
      BY DEF Spelt
    <3>10. h[i] = u \o a
      BY <3>1, <3>2, <3>3, <3>6, <3>9 DEF Spelt
    <3>11. Len(h[i]) = Len(u) + Len(a)
      BY <3>10
    <3>12. f[i] \in Nat /\ f[i] <= n + 1 - i /\ Len(h[i]) = f[i]
      <4>1. PICK m \in Nat : m = f[j] /\ m = Len(a) /\ m <= n + 1 - j
        BY <3>8, <3>9
      <4>2. f[i] = Len(u) + m /\ Len(u) \in 1 .. 2 /\ Len(u) <= l
        BY <3>4, <3>5, <3>6, <4>1
      <4> QED BY <3>6, <3>11, <4>1, <4>2
    <3>13. ASSUME NEW r \in 0 .. d PROVE Cut(c[<<i, r>>], h[i], r)
      <4>1. c[<<i, r>>] = IF r < Len(u) THEN <<>> ELSE u \o c[<<j, r - Len(u)>>]
        <5>1. c[<<i, r>>] = IF i > n \/ r < Units8(src, i) THEN <<>>
                            ELSE UnitsOf(Point8(src, i)) \o c[<<i + Len8(src, i), r - Units8(src, i)>>]
          BY DEF Converts
        <5>2. ~(i > n)
          BY <2>3
        <5> QED BY <3>2, <3>3, <3>4, <3>6, <5>1, <5>2
      <4>2. PICK v \in 1 .. 2, w \in Nat : v = Len(u) /\ w = Len(a) /\ Len(h[i]) = v + w
        <5>1. Len(u) \in 1 .. 2 /\ Len(a) \in Nat
          BY <3>4, SMTT(20)
        <5> QED BY <3>11, <5>1
      <4>3. CASE r < v
        <5>1. c[<<i, r>>] = <<>> /\ r < Len(h[i])
          BY <4>1, <4>2, <4>3
        <5>2. Begins(<<>>, h[i])
          BY <4>2 DEF Begins
        <5>3. r = 0 \/ (r = 1 /\ v = 2)
          BY <4>3
        <5>4. r = 1 => h[i][1] >= kUnicodeSurrogateStart
          <6> SUFFICES ASSUME r = 1 PROVE h[i][1] >= kUnicodeSurrogateStart
            OBVIOUS
          <6>1. p >= Plane
            BY <3>3, <4>2, <5>3
          <6>2. u[1] >= kUnicodeSurrogateStart
            BY <3>2, <3>3, <6>1, PairBegins
          <6>3. h[i][1] = u[1]
            BY <3>10, <4>2
          <6> QED BY <6>2, <6>3
        <5>5. Len(<<>>) = 0
          OBVIOUS
        <5>6. ~(r >= Len(h[i]))
          BY <4>2, <4>3
        <5> QED BY <5>1, <5>2, <5>3, <5>4, <5>5, <5>6 DEF Cut
      <4>4. CASE ~(r < v)
        <5>1. PICK q \in 0 .. d : q = r - v
          BY <4>4
        <5>2. c[<<i, r>>] = u \o c[<<j, q>>]
          BY <4>1, <4>2, <4>4, <5>1
        <5>3. PICK b \in Seq(Nat) : b = c[<<j, q>>]
          BY DEF Converts
        <5>4. Cut(b, a, q)
          BY <3>8, <3>9, <5>3
        <5>5. Begins(u \o b, u \o a)
          BY <5>4, BeginsBehind DEF Cut
        <5>6. r >= v + w => u \o b = u \o a
          <6>1. r >= v + w => q >= Len(a)
            BY <4>2, <5>1
          <6> QED BY <5>4, <6>1 DEF Cut
        <5>7. r < v + w => \/ Len(u \o b) = r
                           \/ Len(u \o b) = r - 1 /\ (u \o a)[r] >= kUnicodeSurrogateStart
          <6> SUFFICES ASSUME r < v + w
                       PROVE  \/ Len(u \o b) = r
                              \/ Len(u \o b) = r - 1 /\ (u \o a)[r] >= kUnicodeSurrogateStart
            OBVIOUS
          <6>1. q < Len(a) /\ Len(u \o b) = v + Len(b) /\ Len(b) \in Nat
            BY <4>2, <5>1
          <6>2. \/ Len(b) = q
                \/ Len(b) = q - 1 /\ a[q] >= kUnicodeSurrogateStart
            BY <5>4, <6>1 DEF Cut
          <6>3. Len(b) = q - 1 => (u \o a)[r] = a[q]
            <7> SUFFICES ASSUME Len(b) = q - 1 PROVE (u \o a)[r] = a[q]
              OBVIOUS
            <7>1. q >= 1 /\ r \in 1 .. (v + w) /\ ~(r <= v) /\ r - v = q
              <8>1. PICK e \in Nat : e = Len(b) /\ e = q - 1
                BY <6>1
              <8>2. q \in Nat /\ v \in Nat /\ w \in Nat /\ r \in Nat /\ q < w
                BY <4>2, <6>1
              <8> QED BY ONLY <5>1, <8>1, <8>2
            <7>2. \A k \in 1 .. (Len(u) + Len(a)) :
                    (u \o a)[k] = IF k <= Len(u) THEN u[k] ELSE a[k - Len(u)]
              BY ConcatProperties
            <7> QED BY <4>2, <7>1, <7>2
          <6>4. CASE Len(b) = q
            BY <5>1, <6>1, <6>4
          <6>5. CASE Len(b) = q - 1 /\ a[q] >= kUnicodeSurrogateStart
            <7>1. Len(u \o b) = r - 1
              BY <5>1, <6>1, <6>5
            <7> QED BY <6>3, <6>5, <7>1
          <6> QED BY <6>2, <6>4, <6>5
        <5> QED BY <3>10, <4>2, <5>2, <5>3, <5>5, <5>6, <5>7 DEF Cut
      <4> QED BY <4>3, <4>4
    <3> QED BY <3>12, <3>13
  <2> QED BY <2>1, <2>2, <2>3
<1>2. n + 4 \in Nat
  OBVIOUS
<1>3. \A i \in 1 .. (n + 4) : i \in S
  <2> HIDE DEF S
  <2> QED BY <1>1, <1>2, Downward
<1> QED BY <1>3

(* Two texts with the same first n bytes are measured and spelt alike.      *)
LEMMA SameSpelling ==
  ASSUME NEW s \in Seq(Bytes), NEW t \in Seq(Bytes), NEW n \in Nat, n <= Len(s), n <= Len(t),
         \A i \in 1 .. n : s[i] = t[i],
         NEW f, Measures(f, s, n), NEW g, Measures(g, t, n),
         NEW h, Spelt(h, s, n), NEW k, Spelt(k, t, n)
  PROVE  \A i \in 1 .. (n + 4) : f[i] = g[i] /\ (f[i] # -1 => h[i] = k[i])
<1> DEFINE S == {i \in 1 .. (n + 4) : f[i] = g[i] /\ (f[i] # -1 => h[i] = k[i])}
<1>1. ASSUME NEW i \in 1 .. (n + 4), \A j \in (i + 1) .. (n + 4) : j \in S PROVE i \in S
  <2>1. CASE i > n
    <3>1. i = n + 1 \/ i \in (n + 2) .. (n + 4)
      BY <2>1
    <3>2. f[i] = g[i]
      BY <3>1 DEF Measures
    <3>3. h[i] = <<>> /\ k[i] = <<>>
      BY <2>1 DEF Spelt
    <3> QED BY <3>2, <3>3
  <2>2. CASE ~(i > n)
    <3>1. i \in 1 .. n /\ i \in 1 .. Len(s) /\ i \in 1 .. Len(t) /\ s[i] = t[i]
      BY <2>2
    <3>2. PICK l \in 1 .. 4 : l = Len8(s, i) /\ l = Len8(t, i)
      <4>1. Len8(s, i) = Len8(t, i)
        BY <3>1 DEF Len8
      <4> QED BY <3>1, <4>1, PointRange
    <3>3. /\ f[i] = IF i + l - 1 > n \/ f[i + l] = -1 THEN -1 ELSE Units8(s, i) + f[i + l]
          /\ g[i] = IF i + l - 1 > n \/ g[i + l] = -1 THEN -1 ELSE Units8(t, i) + g[i + l]
      <4>1. f[i] = IF i + l - 1 > n \/ f[i + l] = -1 THEN -1 ELSE Units8(s, i) + f[i + l]
        <5>1. \A j \in 1 .. n :
                f[j] = IF j + Len8(s, j) - 1 > n \/ f[j + Len8(s, j)] = -1 THEN -1
                       ELSE Units8(s, j) + f[j + Len8(s, j)]
          BY DEF Measures
        <5> QED BY ONLY <3>1, <3>2, <5>1
      <4>2. g[i] = IF i + l - 1 > n \/ g[i + l] = -1 THEN -1 ELSE Units8(t, i) + g[i + l]
        <5>1. \A j \in 1 .. n :
                g[j] = IF j + Len8(t, j) - 1 > n \/ g[j + Len8(t, j)] = -1 THEN -1
                       ELSE Units8(t, j) + g[j + Len8(t, j)]
          BY DEF Measures
        <5> QED BY ONLY <3>1, <3>2, <5>1
      <4> QED BY ONLY <4>1, <4>2
    <3>4. CASE i + l - 1 > n
      BY <3>3, <3>4
    <3>5. CASE ~(i + l - 1 > n)
      <4>1. PICK j \in 1 .. (n + 4) : j = i + l /\ j \in (i + 1) .. (n + 4)
        BY <3>1, <3>5
      <4>2. f[j] = g[j] /\ (f[j] # -1 => h[j] = k[j])
        BY <1>1, <4>1
      <4>3. \A x \in 0 .. (l - 1) : Unit(t, i + x) = Unit(s, i + x)
        <5> SUFFICES ASSUME NEW x \in 0 .. (l - 1) PROVE Unit(t, i + x) = Unit(s, i + x)
          OBVIOUS
        <5>1. i + x \in 1 .. n /\ i + x <= Len(s) /\ i + x <= Len(t)
          BY <3>1, <3>5
        <5> QED BY <5>1 DEF Unit
      <4>4. Point8(t, i) = Point8(s, i) /\ Units8(t, i) = Units8(s, i)
        BY <3>1, <3>2, <4>3, SamePoint
      <4>5. /\ h[i] = UnitsOf(Point8(s, i)) \o h[j]
            /\ k[i] = UnitsOf(Point8(t, i)) \o k[j]
        BY <3>1, <3>2, <4>1 DEF Spelt
      <4> QED BY <3>3, <4>1, <4>2, <4>4, <4>5
    <3> QED BY <3>4, <3>5
  <2> QED BY <2>1, <2>2
<1>2. n + 4 \in Nat
  OBVIOUS
<1>3. \A i \in 1 .. (n + 4) : i \in S
  <2> HIDE DEF S
  <2> QED BY <1>1, <1>2, Downward
<1> QED BY <1>3

-----------------------------------------------------------------------------
(* The walk over code points, and utf8_length.                              *)

LEMMA ShiftedSame ==
  ASSUME NEW s \in Seq(Bytes), NEW t \in Seq(Bytes), NEW front \in Nat,
         NEW i \in Nat \ {0}, NEW j \in i .. (i + 2), \A k \in i .. j : Unit(s, k) = Unit(t, k)
  PROVE  ShiftedIn(front, s, i, j) = ShiftedIn(front, t, i, j)
<1>1. s \in Seq(Nat) /\ t \in Seq(Nat)
  BY BytesAreNat
<1>2. j = i \/ j = i + 1 \/ j = i + 2
  OBVIOUS
<1>3. CASE j = i
  <2>1. Unit(s, i) = Unit(t, i)
    BY <1>3
  <2> QED BY <1>1, <1>3, <2>1, ShiftedIs
<1>4. CASE j = i + 1
  <2>1. Unit(s, i) = Unit(t, i) /\ Unit(s, i + 1) = Unit(t, i + 1)
    BY <1>4
  <2> QED BY <1>1, <1>4, <2>1, ShiftedIs
<1>5. CASE j = i + 2
  <2>1. Unit(s, i) = Unit(t, i) /\ Unit(s, i + 1) = Unit(t, i + 1) /\ Unit(s, i + 2) = Unit(t, i + 2)
    BY <1>5
  <2> QED BY <1>1, <1>5, <2>1, ShiftedIs
<1> QED BY <1>2, <1>3, <1>4, <1>5

LEMMA LeadingRange ==
  ASSUME NEW b \in Bytes
  PROVE  /\ LeadingOnes(b) \in 0 .. 8
         /\ b < 128 => LeadingOnes(b) = 0
         /\ b >= 128 => LeadingOnes(b) >= 1
         /\ b >= 192 => LeadingOnes(b) >= 2
  BY DEF LeadingOnes, Bytes

Walks(w, src, n) ==
  /\ Walk(src, n) = w[0]
  /\ \A i \in 0 .. (n + 7) :
       w[i] = IF utf32_from_utf8_at(src, n, i).ret = -1 THEN <<>>
              ELSE <<utf32_from_utf8_at(src, n, i).ret>> \o w[utf32_from_utf8_at(src, n, i).next]

LEMMA Walked ==
  ASSUME NEW src \in Seq(Bytes), NEW n \in 0 .. Len(src)
  PROVE  \E w : Walks(w, src, n)
<1> DEFINE D == 0 .. (n + 7)
           Ret(i) == utf32_from_utf8_at(src, n, i).ret
           To(i) == utf32_from_utf8_at(src, n, i).next
           R == Seq({Ret(i) : i \in D})
           from[i \in D] == IF Ret(i) = -1 THEN <<>> ELSE <<Ret(i)>> \o from[To(i)]
           T == {i \in D : Ret(i) = -1}
           rank == [i \in D |-> n + 7 - i]
           base == [i \in D |-> <<>>]
           next == [i \in D |-> IF i \in T THEN i ELSE To(i)]
           step == [i \in D |-> [s \in R |-> <<Ret(i)>> \o s]]
<1>1. ASSUME NEW i \in D, i \notin T PROVE To(i) \in D /\ To(i) > i
  <2>1. ~(i >= n)
    BY <1>1 DEF utf32_from_utf8_at
  <2>2. i + 1 \in 1 .. Len(src)
    BY <2>1
  <2>3. PICK b \in Bytes : b = src[i + 1]
    BY <2>2
  <2>4. To(i) = i + IF b < 128 THEN 1 ELSE LeadingOnes(b)
    BY <2>1, <2>3 DEF utf32_from_utf8_at, utf32_at_internal
  <2>5. PICK l \in 1 .. 8 : l = IF b < 128 THEN 1 ELSE LeadingOnes(b)
    <3>1. LeadingOnes(b) \in 0 .. 8 /\ (b >= 128 => LeadingOnes(b) >= 1)
      BY LeadingRange
    <3>2. b \in Int
      BY DEF Bytes
    <3> QED BY <3>1, <3>2
  <2>6. i + l \in D /\ i + l > i
    BY <2>1
  <2> HIDE DEF D, To
  <2> QED BY <2>4, <2>5, <2>6
<1>2. Recursive(D, R, T, n + 7, rank, base, next, step)
  <2>1. n + 7 \in Nat /\ rank \in [D -> 0 .. (n + 7)]
    OBVIOUS
  <2>2. base \in [D -> R]
    <3> HIDE DEF D, Ret
    <3> QED OBVIOUS
  <2>3. next \in [D -> D]
    <3> HIDE DEF D, T, To
    <3> QED BY <1>1
  <2>4. \A i \in D : i \in T \/ rank[next[i]] < rank[i]
    <3> SUFFICES ASSUME NEW i \in D, i \notin T PROVE rank[next[i]] < rank[i]
      OBVIOUS
    <3>1. PICK j \in D : j = To(i) /\ j > i
      <4> HIDE DEF To, T, D
      <4> QED BY <1>1
    <3>2. next[i] = j
      <4> HIDE DEF To, T, D
      <4> QED BY <3>1
    <3>3. rank[j] = n + 7 - j /\ rank[i] = n + 7 - i
      OBVIOUS
    <3> HIDE DEF next, rank
    <3> QED BY <3>1, <3>2, <3>3
  <2>5. step \in [D -> [R -> R]]
    <3>1. ASSUME NEW i \in D, NEW s \in R PROVE <<Ret(i)>> \o s \in R
      <4>1. PICK E : E = {Ret(k) : k \in D}
        OBVIOUS
      <4>2. PICK e \in E : e = Ret(i)
        BY <4>1
      <4>3. s \in Seq(E)
        BY <4>1
      <4>4. <<e>> \o s \in Seq(E)
        BY <4>3
      <4> HIDE DEF Ret, D
      <4> QED BY <4>1, <4>2, <4>4
    <3> HIDE DEF R, D, Ret
    <3> QED BY <3>1
  <2> HIDE DEF D, T, rank, base, next, step, R
  <2> QED BY <2>1, <2>2, <2>3, <2>4, <2>5 DEF Recursive
<1>3. PICK f : Solves(f, D, R, T, base, next, step)
  <2> HIDE DEF T, next, step, base, rank, D, R
  <2> QED BY <1>2, Recursion
<1>4. f \in [D -> R]
  BY <1>3 DEF Solves
<1>5. ASSUME NEW i \in D
      PROVE  f[i] = IF Ret(i) = -1 THEN <<>> ELSE <<Ret(i)>> \o f[To(i)]
  <2>1. f[i] = IF i \in T THEN base[i] ELSE step[i][f[next[i]]]
    BY <1>3 DEF Solves
  <2>2. CASE Ret(i) = -1
    <3> HIDE DEF Ret, D
    <3> QED BY <2>1, <2>2
  <2>3. CASE Ret(i) # -1
    <3>1. i \notin T
      BY <2>3
    <3>2. next[i] = To(i) /\ f[next[i]] \in R
      <4> HIDE DEF Ret, To, D, R, T
      <4> QED BY <1>1, <1>4, <3>1
    <3>3. \A s \in R : step[i][s] = <<Ret(i)>> \o s
      <4> HIDE DEF Ret, D, R
      <4> QED OBVIOUS
    <3> HIDE DEF T, next, step, D, R, Ret, To
    <3> QED BY <2>1, <2>3, <3>1, <3>2, <3>3
  <2> QED BY <2>2, <2>3
<1>6. from = [i \in D |-> IF Ret(i) = -1 THEN <<>> ELSE <<Ret(i)>> \o from[To(i)]]
  <2>1. f = [i \in D |-> IF Ret(i) = -1 THEN <<>> ELSE <<Ret(i)>> \o f[To(i)]]
    <3> HIDE DEF D, R, Ret, To
    <3> QED BY <1>4, <1>5
  <2> HIDE DEF D, Ret, To
  <2> QED BY <2>1
<1>7. Walk(src, n) = from[0]
  BY DEF Walk
<1> HIDE DEF from
<1>8. \A i \in D : f[i] = from[i]
  <2>1. ASSUME NEW i \in D, i \in T \/ f[next[i]] = from[next[i]] PROVE f[i] = from[i]
    <3>1. from[i] = IF Ret(i) = -1 THEN <<>> ELSE <<Ret(i)>> \o from[To(i)]
      <4> HIDE DEF D, Ret, To
      <4> QED BY <1>6
    <3>2. Ret(i) # -1 => i \notin T /\ next[i] = To(i)
      <4> HIDE DEF D, Ret, To
      <4> QED OBVIOUS
    <3> HIDE DEF D, Ret, To, T, next
    <3> QED BY <1>5, <2>1, <3>1, <3>2
  <2> HIDE DEF T, next, step, base, rank, D, R
  <2> QED BY <1>2, <2>1, RecursionUnique
<1> QED
  <2>1. 0 \in D
    OBVIOUS
  <2>2. Walk(src, n) = f[0]
    <3> HIDE DEF D
    <3> QED BY <1>7, <1>8, <2>1
  <2> QED BY <1>5, <2>2 DEF Walks

(* The bytes that utf8_length takes at i, and what it does not accept.      *)
Lead8(src, i) == IF LeadingOnes(src[i]) = 0 THEN 1 ELSE LeadingOnes(src[i])

Bad8(src, i, charSigned) ==
  src[i] >= 128 /\ \/ src[i] < 192 \/ Lead8(src, i) >= 5
                   \/ ~(\A k \in 1 .. (Lead8(src, i) - 1) : Unit(src, i + k) \in 128 .. 191)
                   \/ charSigned
                   \/ ShiftedIn(FirstBits(src[i], Lead8(src, i)), src, i + 1, i + Lead8(src, i) - 1)
                        > kUnicodeMaxCodepoint

Lengths(u, src, charSigned) ==
  /\ u \in [1 .. (Len(src) + 1) -> Int]
  /\ utf8_length(src, charSigned) = u[1]
  /\ \A i \in 1 .. (Len(src) + 1) :
       u[i] = IF Unit(src, i) = 0 THEN 0
              ELSE IF Bad8(src, i, charSigned) \/ u[i + Lead8(src, i)] = -1 THEN -1
              ELSE Lead8(src, i) + u[i + Lead8(src, i)]

(* What it accepts ends in the text.                                        *)
LEMMA AcceptedEnds ==
  ASSUME NEW src \in Seq(Bytes), NEW i \in 1 .. (Len(src) + 1), NEW charSigned,
         Unit(src, i) # 0, ~Bad8(src, i, charSigned)
  PROVE  /\ i \in 1 .. Len(src) /\ src[i] \in Bytes
         /\ Lead8(src, i) \in 1 .. 4 /\ i + Lead8(src, i) \in 1 .. (Len(src) + 1)
         /\ Lead8(src, i) = IF src[i] < 128 THEN 1 ELSE LeadingOnes(src[i])
         /\ src[i] < 128 \/ src[i] >= 192
<1>1. i <= Len(src) /\ Len(src) \in Nat
  BY DEF Unit
<1>2. PICK b \in Bytes : b = src[i]
  BY <1>1
<1>3. PICK l : l = Lead8(src, i)
  OBVIOUS
<1>4. b \in 0 .. 255
  BY DEF Bytes
<1>5. CASE b < 128
  <2>1. l = 1
    BY <1>2, <1>3, <1>5, LeadingRange DEF Lead8
  <2> QED BY <1>1, <1>2, <1>3, <1>5, <2>1
<1>6. CASE b >= 128
  <2>1. b >= 192 /\ ~(l >= 5) /\ \A k \in 1 .. (l - 1) : Unit(src, i + k) \in 128 .. 191
    BY <1>2, <1>3, <1>4, <1>6 DEF Bad8
  <2>2. LeadingOnes(b) \in 0 .. 8 /\ LeadingOnes(b) >= 2
    BY <2>1, LeadingRange
  <2>3. l = LeadingOnes(b)
    BY <1>2, <1>3, <2>2 DEF Lead8
  <2>4. l \in 2 .. 4
    BY <2>1, <2>2, <2>3
  <2>5. Unit(src, i + (l - 1)) \in 128 .. 191
    <3>1. l - 1 \in 1 .. (l - 1)
      BY <2>4
    <3> QED BY <2>1, <3>1
  <2>6. i + (l - 1) <= Len(src)
    BY <2>5 DEF Unit
  <2>7. ~(b < 128)
    BY <1>4, <1>6
  <2> QED BY <1>1, <1>2, <1>3, <2>1, <2>3, <2>4, <2>6, <2>7
<1> QED BY <1>4, <1>5, <1>6

LEMMA LengthOf ==
  ASSUME NEW src \in Seq(Bytes), NEW charSigned
  PROVE  \E u : Lengths(u, src, charSigned)
<1> DEFINE D == 1 .. (Len(src) + 1)
           Bad(i) == Bad8(src, i, charSigned)
           from[i \in D] ==
             IF Unit(src, i) = 0 THEN 0
             ELSE IF Bad(i) \/ from[i + Lead8(src, i)] = -1 THEN -1
             ELSE Lead8(src, i) + from[i + Lead8(src, i)]
           T == {i \in D : Unit(src, i) = 0 \/ Bad(i)}
           N == Len(src) + 1
           rank == [i \in D |-> N - i]
           base == [i \in D |-> IF Unit(src, i) = 0 THEN 0 ELSE -1]
           next == [i \in D |-> IF i \in T THEN i ELSE i + Lead8(src, i)]
           step == [i \in D |-> [r \in Int |-> IF i \in T \/ r = -1 THEN -1 ELSE Lead8(src, i) + r]]
<1>1. ASSUME NEW i \in D, i \notin T
      PROVE  i + Lead8(src, i) \in D /\ Lead8(src, i) \in 1 .. 4
  <2> QED BY <1>1, AcceptedEnds
<1>2. Recursive(D, Int, T, N, rank, base, next, step)
  <2>1. N \in Nat /\ rank \in [D -> 0 .. N]
    OBVIOUS
  <2>2. base \in [D -> Int]
    OBVIOUS
  <2>3. next \in [D -> D]
    <3> HIDE DEF D, T
    <3> QED BY <1>1
  <2>4. \A i \in D : i \in T \/ rank[next[i]] < rank[i]
    <3> SUFFICES ASSUME NEW i \in D, i \notin T PROVE rank[next[i]] < rank[i]
      OBVIOUS
    <3>1. PICK l \in 1 .. 4 : l = Lead8(src, i) /\ i + l \in D
      <4> HIDE DEF T, D
      <4> QED BY <1>1
    <3>2. next[i] = i + l
      <4> HIDE DEF T, D
      <4> QED BY <3>1
    <3>3. rank[i + l] = N - (i + l) /\ rank[i] = N - i /\ N \in Int
      BY <3>1
    <3> HIDE DEF next, rank, N
    <3> QED BY <3>2, <3>3
  <2>5. step \in [D -> [Int -> Int]]
    <3>1. \A i \in D, r \in Int : i \in T \/ Lead8(src, i) + r \in Int
      <4> HIDE DEF D, T
      <4> QED BY <1>1
    <3> HIDE DEF T, D
    <3> QED BY <3>1
  <2> HIDE DEF D, T, rank, base, next, step, N
  <2> QED BY <2>1, <2>2, <2>3, <2>4, <2>5 DEF Recursive
<1>3. PICK f : Solves(f, D, Int, T, base, next, step)
  <2> HIDE DEF T, next, step, base, rank, D, N
  <2> QED BY <1>2, Recursion
<1>4. f \in [D -> Int]
  BY <1>3 DEF Solves
<1> DEFINE Body(i, r) == IF Unit(src, i) = 0 THEN 0
                         ELSE IF Bad(i) \/ r = -1 THEN -1 ELSE Lead8(src, i) + r
<1>5. ASSUME NEW i \in D PROVE f[i] = Body(i, f[i + Lead8(src, i)])
  <2>1. f[i] = IF i \in T THEN base[i] ELSE step[i][f[next[i]]]
    BY <1>3 DEF Solves
  <2>2. CASE i \in T
    <3> HIDE DEF Bad, D
    <3> QED BY <2>1, <2>2
  <2>3. CASE i \notin T
    <3>1. ~Bad(i) /\ Unit(src, i) # 0
      BY <2>3
    <3>2. next[i] = i + Lead8(src, i) /\ f[next[i]] \in Int
      <4> HIDE DEF T, D
      <4> QED BY <1>1, <1>4, <2>3
    <3>3. \A r \in Int : step[i][r] = IF r = -1 THEN -1 ELSE Lead8(src, i) + r
      <4> HIDE DEF T, D
      <4> QED BY <2>3
    <3> HIDE DEF T, next, step, D, Bad
    <3> QED BY <2>1, <2>3, <3>1, <3>2, <3>3
  <2> QED BY <2>2, <2>3
<1>6. from = [i \in D |-> Body(i, from[i + Lead8(src, i)])]
  <2>1. f = [i \in D |-> Body(i, f[i + Lead8(src, i)])]
    <3> HIDE DEF D, Body
    <3> QED BY <1>4, <1>5
  <2> HIDE DEF D, Bad
  <2> QED BY <2>1
<1>7. utf8_length(src, charSigned) = from[1]
  BY DEF utf8_length, Lead8, Bad8
<1> HIDE DEF from
<1>8. \A i \in D : f[i] = from[i]
  <2>1. ASSUME NEW i \in D, i \in T \/ f[next[i]] = from[next[i]] PROVE f[i] = from[i]
    <3>1. from[i] = Body(i, from[i + Lead8(src, i)])
      <4> HIDE DEF D, Body
      <4> QED BY <1>6
    <3>2. CASE i \in T
      <4> HIDE DEF D, Bad
      <4> QED BY <1>5, <3>1, <3>2
    <3>3. CASE i \notin T
      <4>1. f[i + Lead8(src, i)] = from[i + Lead8(src, i)]
        <5> HIDE DEF D, T
        <5> QED BY <2>1, <3>3
      <4> HIDE DEF D, Body
      <4> QED BY <1>5, <3>1, <4>1
    <3> QED BY <3>2, <3>3
  <2> HIDE DEF T, next, step, base, rank, D, N
  <2> QED BY <1>2, <2>1, RecursionUnique
<1> QED
  <2>1. 1 \in D
    OBVIOUS
  <2>2. utf8_length(src, charSigned) = f[1]
    <3> HIDE DEF D
    <3> QED BY <1>7, <1>8, <2>1
  <2> QED BY <1>4, <1>5, <2>2 DEF Lengths

(* A walk that utf8_length accepts up to the n-th byte sees no other bytes. *)
LEMMA WalkSame ==
  ASSUME NEW s \in Seq(Bytes), NEW t \in Seq(Bytes), Len(t) <= Len(s),
         \A i \in 1 .. Len(t) : s[i] = t[i], utf8_length(t, FALSE) = Len(t)
  PROVE  Walk(s, Len(t)) = Walk(t, Len(t))
<1>1. PICK n \in Nat : n = Len(t) /\ n \in 0 .. Len(s) /\ n \in 0 .. Len(t)
  <2>1. Len(s) \in Nat /\ Len(t) \in Nat
    OBVIOUS
  <2>2. Len(t) \in 0 .. Len(s) /\ Len(t) \in 0 .. Len(t)
    BY <2>1
  <2> QED BY <2>1, <2>2
<1>2. PICK u : Lengths(u, t, FALSE)
  BY LengthOf
<1>3. PICK v, w : Walks(v, s, n) /\ Walks(w, t, n)
  BY <1>1, Walked
<1> DEFINE S == {i \in 1 .. (n + 1) : u[i] = n + 1 - i => v[i - 1] = w[i - 1]}
<1>4. ASSUME NEW i \in 1 .. (n + 1), \A j \in (i + 1) .. (n + 1) : j \in S PROVE i \in S
  <2> SUFFICES ASSUME u[i] = n + 1 - i PROVE v[i - 1] = w[i - 1]
    OBVIOUS
  <2>1. i - 1 \in 0 .. (n + 7)
    OBVIOUS
  <2> DEFINE As == utf32_from_utf8_at(s, n, i - 1)
             At == utf32_from_utf8_at(t, n, i - 1)
  <2>2. /\ v[i - 1] = IF As.ret = -1 THEN <<>> ELSE <<As.ret>> \o v[As.next]
        /\ w[i - 1] = IF At.ret = -1 THEN <<>> ELSE <<At.ret>> \o w[At.next]
    BY <1>3, <2>1 DEF Walks
  <2>3. CASE i = n + 1
    <3>1. i - 1 >= n
      BY <2>3
    <3>2. As.ret = -1 /\ At.ret = -1
      BY <3>1 DEF utf32_from_utf8_at
    <3> HIDE DEF As, At
    <3> QED BY <2>2, <3>2
  <2>4. CASE i <= n
    <3>1. u[i] = IF Unit(t, i) = 0 THEN 0
                 ELSE IF Bad8(t, i, FALSE) \/ u[i + Lead8(t, i)] = -1 THEN -1
                 ELSE Lead8(t, i) + u[i + Lead8(t, i)]
      BY <1>1, <1>2 DEF Lengths
    <3>2. u[i] # 0 /\ u[i] # -1
      BY <2>4
    <3>3. /\ Unit(t, i) # 0 /\ ~Bad8(t, i, FALSE)
          /\ u[i] = Lead8(t, i) + u[i + Lead8(t, i)]
      BY <3>1, <3>2
    <3>4. /\ t[i] \in Bytes /\ Lead8(t, i) \in 1 .. 4 /\ i + Lead8(t, i) \in 1 .. (n + 1)
          /\ Lead8(t, i) = IF t[i] < 128 THEN 1 ELSE LeadingOnes(t[i])
          /\ t[i] < 128 \/ t[i] >= 192
      BY <1>1, <3>3, AcceptedEnds
    <3>5. PICK l \in 1 .. 4, b \in Bytes : l = Lead8(t, i) /\ b = t[i] /\ b = s[i]
      <4>1. s[i] = t[i]
        <5>1. i \in 1 .. Len(t)
          BY <1>1, <2>4
        <5> QED BY <5>1
      <4> QED BY <3>4, <4>1
    <3>6. i + l \in (i + 1) .. (n + 1) /\ u[i + l] = n + 1 - (i + l)
      <4>1. i + l \in 1 .. (n + 1) /\ u[i] = l + u[i + l]
        BY <3>3, <3>4, <3>5
      <4>2. u[i + l] \in Int
        BY <1>1, <1>2, <4>1 DEF Lengths
      <4> QED BY <4>1, <4>2
    <3>7. v[(i + l) - 1] = w[(i + l) - 1]
      BY <1>4, <3>6
    <3>8. ~(i - 1 >= n) /\ (i - 1) + 1 = i
      BY <2>4
    <3>9. /\ As = [ret |-> utf32_at_internal(s, i).point, next |-> (i - 1) + utf32_at_internal(s, i).num_read]
          /\ At = [ret |-> utf32_at_internal(t, i).point, next |-> (i - 1) + utf32_at_internal(t, i).num_read]
      BY <3>8 DEF utf32_from_utf8_at
    <3>10. utf32_at_internal(s, i).num_read = l /\ utf32_at_internal(t, i).num_read = l
      BY <3>4, <3>5 DEF utf32_at_internal
    <3>11. utf32_at_internal(s, i).point = utf32_at_internal(t, i).point
      <4>1. CASE b < 128
        BY <3>5, <4>1 DEF utf32_at_internal
      <4>2. CASE ~(b < 128)
        <5>1. LeadingOnes(b) = l /\ l >= 2
          <6>1. b \in Int /\ LeadingOnes(b) = l
            BY <3>4, <3>5, <4>2 DEF Bytes
          <6>2. b >= 192
            BY <3>4, <3>5, <4>2
          <6> QED BY <6>1, <6>2, LeadingRange
        <5>2. PICK x \in Nat : x = FirstBits(b, l)
          <6>1. l = 2 \/ l = 3 \/ l = 4
            BY <5>1
          <6>2. b % 32 \in Nat /\ b % 16 \in Nat /\ b % 8 \in Nat
            BY DEF Bytes
          <6> QED BY <6>1, <6>2, SMTT(20) DEF FirstBits
        <5>3. /\ utf32_at_internal(s, i).point = ShiftedIn(x, s, i + 1, i + l - 1)
              /\ utf32_at_internal(t, i).point = ShiftedIn(x, t, i + 1, i + l - 1)
          BY <3>5, <4>2, <5>1, <5>2 DEF utf32_at_internal
        <5>4. PICK a \in Nat \ {0}, z \in Nat : a = i + 1 /\ z = i + l - 1 /\ z \in a .. (a + 2)
          BY <5>1, SMTT(20)
        <5>5. \A k \in a .. z : Unit(s, k) = Unit(t, k)
          <6> SUFFICES ASSUME NEW k \in a .. z PROVE Unit(s, k) = Unit(t, k)
            OBVIOUS
          <6>1. k \in 1 .. n /\ k <= Len(t) /\ k <= Len(s)
            BY <1>1, <3>6, <5>4
          <6> QED BY <1>1, <6>1 DEF Unit
        <5> QED BY <5>3, <5>4, <5>5, ShiftedSame
      <4> QED BY <4>1, <4>2
    <3>12. As.ret = At.ret /\ As.next = (i + l) - 1 /\ At.next = (i + l) - 1
      <4>1. (i - 1) + l = (i + l) - 1
        OBVIOUS
      <4> HIDE DEF As, At
      <4> QED BY <3>9, <3>10, <3>11, <4>1
    <3> HIDE DEF As, At
    <3> QED BY <2>2, <3>7, <3>12
  <2> QED BY <2>3, <2>4
<1>5. \A i \in 1 .. (n + 1) : i \in S
  <2> HIDE DEF S
  <2>1. n + 1 \in Nat
    OBVIOUS
  <2> QED BY <1>4, <2>1, Downward
<1>6. u[1] = n /\ 1 \in 1 .. (n + 1) /\ n + 1 - 1 = n /\ 1 - 1 = 0
  <2>1. u[1] = n
    BY <1>1, <1>2 DEF Lengths
  <2> QED BY <2>1
<1>7. v[0] = w[0]
  BY <1>5, <1>6
<1> QED BY <1>1, <1>3, <1>7 DEF Walks

(* The conversion of the first n bytes of a text.                           *)
Fits(s, t, n, units, all) ==
  /\ utf8_to_utf16_length(s, n, FALSE) = units
  /\ units >= 0 =>
       /\ Len(all) = units /\ all \in Seq(Nat)
       /\ \A room \in 0 .. units :
            LET part == utf8_to_utf16_no_null_terminator(s, n, room)
            IN  /\ IsPrefix(part, all) /\ part \in Seq(Nat)
                /\ \/ Len(part) = room
                   \/ Len(part) = room - 1 /\ all[room] >= kUnicodeSurrogateStart
  /\ utf8_length(t, FALSE) = n => Walk(s, n) = Walk(t, n)

LEMMA FitsAt ==
  ASSUME NEW s \in Seq(Bytes), NEW n \in 0 .. Len(s), NEW t, t = SubSeq(s, 1, n),
         NEW units, units = utf8_to_utf16_length(t, n, FALSE),
         NEW all, all = utf8_to_utf16_no_null_terminator(t, n, 2 * n)
  PROVE  Fits(s, t, n, units, all)
<1>1. /\ t \in Seq(Bytes) /\ Len(t) = n /\ n \in Nat /\ n <= Len(s) /\ n <= Len(t) /\ n \in 0 .. Len(t)
      /\ \A i \in 1 .. n : s[i] = t[i]
  <2>1. Len(s) \in Nat /\ n \in Nat /\ n <= Len(s)
    OBVIOUS
  <2>2. t \in Seq(Bytes) /\ Len(t) = n /\ \A i \in 1 .. n : t[i] = s[i]
    BY <2>1
  <2> QED BY <2>1, <2>2
<1>2. PICK f, g, h, k : Measures(f, s, n) /\ Measures(g, t, n) /\ Spelt(h, s, n) /\ Spelt(k, t, n)
  BY <1>1, Measured, SpeltExists
<1>3. 1 \in 1 .. (n + 4)
  BY <1>1
<1>4. f[1] = g[1] /\ (f[1] # -1 => h[1] = k[1])
  <2>1. \A i \in 1 .. (n + 4) : f[i] = g[i] /\ (f[i] # -1 => h[i] = k[i])
    BY ONLY <1>1, <1>2, s \in Seq(Bytes), SameSpelling
  <2> QED BY <1>3, <2>1
<1>5. utf8_to_utf16_length(s, n, FALSE) = units /\ f[1] = units /\ g[1] = units
  BY <1>2, <1>4 DEF Measures
<1>6. ASSUME units >= 0
      PROVE  /\ Len(all) = units /\ all \in Seq(Nat)
             /\ \A room \in 0 .. units :
                  LET part == utf8_to_utf16_no_null_terminator(s, n, room)
                  IN  /\ IsPrefix(part, all) /\ part \in Seq(Nat)
                      /\ \/ Len(part) = room
                         \/ Len(part) = room - 1 /\ all[room] >= kUnicodeSurrogateStart
  <2>1. units \in Int /\ units # -1
    <3>1. units \in Int
      BY <1>2, <1>3, <1>5 DEF Measures
    <3>2. \A m \in Int : m >= 0 => m # -1
      OBVIOUS
    <3> QED BY ONLY <1>6, <3>1, <3>2
  <2>2. PICK d \in Nat : d = 2 * n
    BY <1>1
  <2>3. PICK c : Converts(c, t, n, d)
    BY <1>1, Converted
  <2>4. /\ g[1] \in Nat /\ g[1] <= n + 1 - 1 /\ Len(k[1]) = g[1]
        /\ \A r \in 0 .. d : Cut(c[<<1, r>>], k[1], r)
    <3>1. \A i \in 1 .. (n + 4) : g[i] # -1 =>
            /\ g[i] \in Nat /\ g[i] <= n + 1 - i /\ Len(k[i]) = g[i]
            /\ \A r \in 0 .. d : Cut(c[<<i, r>>], k[i], r)
      BY ONLY <1>1, <1>2, <2>3, d \in Nat, ConversionOf
    <3> QED BY <1>3, <1>5, <2>1, <3>1
  <2>5. Cut(c[<<1, d>>], k[1], d) /\ all = c[<<1, d>>]
    BY <2>2, <2>3, <2>4 DEF Converts
  <2>6. d >= Len(k[1])
    BY <1>1, <2>2, <2>4
  <2>7. all = k[1] /\ Len(all) = units
    BY <1>5, <2>4, <2>5, <2>6 DEF Cut
  <2>8. all \in Seq(Nat)
    BY <1>2, <1>3, <2>7 DEF Spelt
  <2>9. ASSUME NEW room \in 0 .. units, NEW part, part = utf8_to_utf16_no_null_terminator(s, n, room)
        PROVE  /\ IsPrefix(part, all) /\ part \in Seq(Nat)
               /\ \/ Len(part) = room
                  \/ Len(part) = room - 1 /\ all[room] >= kUnicodeSurrogateStart
    <3>1. room \in Nat /\ room <= Len(all)
      BY ONLY <2>1, <2>7, room \in 0 .. units
    <3>2. PICK e : Converts(e, s, n, room)
      BY <1>1, <3>1, Converted
    <3>3. \A r \in 0 .. room : Cut(e[<<1, r>>], h[1], r)
      <4>1. \A i \in 1 .. (n + 4) : f[i] # -1 =>
              /\ f[i] \in Nat /\ f[i] <= n + 1 - i /\ Len(h[i]) = f[i]
              /\ \A r \in 0 .. room : Cut(e[<<i, r>>], h[i], r)
        <5>1. s \in Seq(Bytes) /\ n \in 0 .. Len(s)
          OBVIOUS
        <5>2. PICK x \in Nat : x = room
          BY <3>1
        <5>3. \A i \in 1 .. (n + 4) : f[i] # -1 =>
                /\ f[i] \in Nat /\ f[i] <= n + 1 - i /\ Len(h[i]) = f[i]
                /\ \A r \in 0 .. x : Cut(e[<<i, r>>], h[i], r)
          BY ONLY <1>2, <3>2, <5>1, <5>2, ConversionOf
        <5> QED BY <5>2, <5>3
      <4> QED BY <1>3, <1>5, <2>1, <4>1
    <3>4. Cut(part, all, room) /\ part \in Seq(Nat)
      <4>1. part = e[<<1, room>>] /\ h[1] = all /\ room \in 0 .. room
        BY <1>4, <1>5, <2>1, <2>7, <2>9, <3>1, <3>2 DEF Converts
      <4>2. e[<<1, room>>] \in Seq(Nat)
        BY <1>3, <3>2, <4>1 DEF Converts
      <4> QED BY <3>3, <4>1, <4>2
    <3>5. IsPrefix(part, all)
      BY <2>8, <3>4, BeginsIsPrefix DEF Cut
    <3>6. CASE room < Len(all)
      BY <3>4, <3>5, <3>6 DEF Cut
    <3>7. CASE room = Len(all)
      <4>1. room >= Len(all)
        BY <3>1, <3>7
      <4>2. part = all
        BY <3>4, <4>1 DEF Cut
      <4> QED BY <3>4, <3>5, <3>7, <4>2
    <3>8. room < Len(all) \/ room = Len(all)
      BY <2>8, <3>1
    <3> QED BY <3>6, <3>7, <3>8
  <2> QED BY <2>7, <2>8, <2>9
<1>7. utf8_length(t, FALSE) = n => Walk(s, n) = Walk(t, n)
  BY <1>1, WalkSame
<1> QED BY <1>5, <1>6, <1>7 DEF Fits

LEMMA FitsHolds ==
  ASSUME width = 8 => text \in Seq(Bytes)
  PROVE  ConversionFits
<1> SUFFICES ASSUME width = 8, NEW n \in 0 .. Len(text)
             PROVE  Fits(text, SubSeq(text, 1, n), n,
                         utf8_to_utf16_length(SubSeq(text, 1, n), n, FALSE),
                         utf8_to_utf16_no_null_terminator(SubSeq(text, 1, n), n, 2 * n))
  BY DEF ConversionFits, Fits
<1>1. text \in Seq(Bytes)
  OBVIOUS
<1> QED BY <1>1, FitsAt

-----------------------------------------------------------------------------
(* A loop over the n units of a text: next is the unit behind the one at i, *)
(* step what it adds to what comes behind, last what stands behind all.     *)

Loops(f, n, R, next, last, step) ==
  /\ f \in [1 .. (n + 1) -> R] /\ f[n + 1] = last
  /\ \A i \in 1 .. n : f[i] = step[i][f[next[i]]]

Forward(next, n) == next \in [1 .. n -> 1 .. (n + 1)] /\ \A i \in 1 .. n : next[i] > i

Agree(f, g, n, next) ==
  f[n + 1] = g[n + 1] /\ \A i \in 1 .. n : f[next[i]] = g[next[i]] => f[i] = g[i]

LEMMA LoopExists ==
  ASSUME NEW n \in Nat, NEW R, NEW next, Forward(next, n), NEW last \in R, NEW step \in [1 .. n -> [R -> R]]
  PROVE  \E f : Loops(f, n, R, next, last, step)
<1> DEFINE D == 1 .. (n + 1)
           T == {n + 1}
           rank == [i \in D |-> n + 1 - i]
           base == [i \in D |-> last]
           to == [i \in D |-> IF i = n + 1 THEN i ELSE next[i]]
           add == [i \in D |-> [r \in R |-> IF i = n + 1 THEN r ELSE step[i][r]]]
<1> USE DEF Forward
<1>1. \A i \in D : i = n + 1 \/ i \in 1 .. n
  OBVIOUS
<1>2. Recursive(D, R, T, n + 1, rank, base, to, add)
  <2>1. n + 1 \in Nat /\ rank \in [D -> 0 .. (n + 1)] /\ base \in [D -> R]
    OBVIOUS
  <2>2. to \in [D -> D]
    BY <1>1
  <2>3. \A i \in D : i \in T \/ rank[to[i]] < rank[i]
    <3> SUFFICES ASSUME NEW i \in D, i # n + 1 PROVE rank[to[i]] < rank[i]
      OBVIOUS
    <3>1. PICK j \in D : j = next[i] /\ j > i /\ to[i] = j
      BY <1>1
    <3>2. rank[j] = n + 1 - j /\ rank[i] = n + 1 - i
      OBVIOUS
    <3> HIDE DEF to, rank
    <3> QED BY <3>1, <3>2
  <2>4. add \in [D -> [R -> R]]
    <3>1. \A i \in D, r \in R : i = n + 1 \/ step[i][r] \in R
      BY <1>1
    <3> HIDE DEF D
    <3> QED BY <3>1
  <2> HIDE DEF D, T, rank, base, to, add
  <2> QED BY <2>1, <2>2, <2>3, <2>4 DEF Recursive
<1>3. PICK f : Solves(f, D, R, T, base, to, add)
  <2> HIDE DEF T, to, add, base, rank, D
  <2> QED BY <1>2, Recursion
<1>4. f \in [D -> R]
  BY <1>3 DEF Solves
<1>5. \A i \in D : f[i] = IF i \in T THEN base[i] ELSE add[i][f[to[i]]]
  BY <1>3 DEF Solves
<1>6. f[n + 1] = last
  <2>1. n + 1 \in D /\ n + 1 \in T /\ base[n + 1] = last
    OBVIOUS
  <2> HIDE DEF D, T, base, add, to
  <2> QED BY <1>5, <2>1
<1>7. ASSUME NEW i \in 1 .. n PROVE f[i] = step[i][f[next[i]]]
  <2>1. i \in D /\ i \notin T /\ to[i] = next[i] /\ next[i] \in D
    OBVIOUS
  <2>2. f[next[i]] \in R
    BY <1>4, <2>1
  <2>3. \A r \in R : add[i][r] = step[i][r]
    OBVIOUS
  <2> HIDE DEF D, T, base, add, to
  <2> QED BY <1>5, <2>1, <2>2, <2>3
<1> QED BY <1>4, <1>6, <1>7 DEF Loops

LEMMA LoopUnique ==
  ASSUME NEW n \in Nat, NEW next, Forward(next, n), NEW f, NEW g, Agree(f, g, n, next)
  PROVE  \A i \in 1 .. (n + 1) : f[i] = g[i]
<1> USE DEF Forward, Agree
<1> DEFINE S == {i \in 1 .. (n + 1) : f[i] = g[i]}
<1>1. ASSUME NEW i \in 1 .. (n + 1), \A j \in (i + 1) .. (n + 1) : j \in S PROVE i \in S
  <2>1. CASE i = n + 1
    BY <2>1
  <2>2. CASE i # n + 1
    <3>1. i \in 1 .. n
      BY <2>2
    <3>2. next[i] \in (i + 1) .. (n + 1)
      BY <3>1
    <3> QED BY <1>1, <3>1, <3>2
  <2> QED BY <2>1, <2>2
<1>2. n + 1 \in Nat
  OBVIOUS
<1>3. \A i \in 1 .. (n + 1) : i \in S
  <2> HIDE DEF S
  <2> QED BY <1>1, <1>2, Downward
<1> QED BY <1>3

-----------------------------------------------------------------------------
(* The bytes of a code point.                                               *)

Spelling(c, n, b) ==
  CASE n = 0 -> b = <<>>
    [] n = 1 -> c < 128 /\ b = <<c>>
    [] n = 2 -> c \in 128 .. 2047 /\ b = <<(c \div 64) + 192, 128 + (c % 64)>>
    [] n = 3 -> /\ c >= 2048 /\ c < Plane
                /\ b = <<(c \div 4096) + 224, 128 + ((c \div 64) % 64), 128 + (c % 64)>>
    [] n = 4 -> /\ c >= Plane /\ c <= kUnicodeMaxCodepoint
                /\ b = <<(c \div (64 * 4096)) + 240, 128 + ((c \div 4096) % 64),
                         128 + ((c \div 64) % 64), 128 + (c % 64)>>

LEMMA Tuples ==
  ASSUME NEW f, NEW n \in Nat, f = [k \in 1 .. n |-> f[k]]
  PROVE  /\ n = 2 => f = <<f[1], f[2]>>
         /\ n = 3 => f = <<f[1], f[2], f[3]>>
         /\ n = 4 => f = <<f[1], f[2], f[3], f[4]>>
  OBVIOUS

LEMMA EncodedIs ==
  ASSUME NEW c \in Nat
  PROVE  /\ utf32_codepoint_utf8_length(c) \in 0 .. 4
         /\ utf32_codepoint_utf8_length(c) = 0 <=> ~Valid(c)
         /\ Spelling(c, utf32_codepoint_utf8_length(c), Encoded(c))
<1>1. PICK p \in Nat, m \in Nat, a \in Nat, e \in Nat :
        /\ p = Plane /\ m = kUnicodeMaxCodepoint
        /\ a = kUnicodeSurrogateStart /\ e = kUnicodeSurrogateEnd
        /\ 2048 < a /\ a < e /\ e < p /\ p < m
  BY SMTT(15) DEF Plane, kUnicodeMaxCodepoint, kUnicodeSurrogateStart, kUnicodeSurrogateEnd
<1>2. PICK n : n = utf32_codepoint_utf8_length(c)
  OBVIOUS
<1>3. n = (CASE c < 128 -> 1 [] c \in 128 .. 2047 -> 2
             [] c \in 2048 .. (p - 1) -> IF c \in a .. e THEN 0 ELSE 3
             [] c \in p .. m -> 4 [] OTHER -> 0)
  BY <1>1, <1>2 DEF utf32_codepoint_utf8_length
<1>4. \/ c < 128 /\ n = 1
      \/ c \in 128 .. 2047 /\ n = 2
      \/ c >= 2048 /\ c < p /\ c \in a .. e /\ n = 0
      \/ c >= 2048 /\ c < p /\ c \notin a .. e /\ n = 3
      \/ c >= p /\ c <= m /\ n = 4
      \/ c > m /\ n = 0
  <2>1. c < 128 \/ c \in 128 .. 2047 \/ c \in 2048 .. (p - 1) \/ c \in p .. m \/ c > m
    BY <1>1
  <2>2. CASE c < 128
    BY <1>1, <1>3, <2>2
  <2>3. CASE c \in 128 .. 2047
    BY <1>1, <1>3, <2>3
  <2>4. CASE c \in 2048 .. (p - 1)
    BY <1>1, <1>3, <2>4
  <2>5. CASE c \in p .. m
    BY <1>1, <1>3, <2>5
  <2>6. CASE c > m
    BY <1>1, <1>3, <2>6
  <2> QED BY <2>1, <2>2, <2>3, <2>4, <2>5, <2>6
<1>5. Valid(c) <=> c <= m /\ c \notin a .. e
  BY <1>1 DEF Valid
<1>6. n \in 0 .. 4 /\ (n = 0 <=> ~Valid(c))
  BY <1>1, <1>4, <1>5
<1>7. Encoded(c) = [k \in 1 .. n |->
                      IF k = 1 THEN (c \div Sixes(n - 1)) + kFirstByteMark[n]
                      ELSE 128 + Low6(c \div Sixes(n - k))]
  BY <1>2 DEF Encoded, utf32_codepoint_to_utf8
<1>8. c \div 1 = c
  OBVIOUS
<1>9. Sixes(0) = 1 /\ Sixes(1) = 64 /\ Sixes(2) = 4096 /\ Sixes(3) = 64 * 4096
  BY SMTT(15) DEF Sixes
<1>10. Spelling(c, n, Encoded(c))
  <2>1. CASE n = 0
    <3>1. Encoded(c) = <<>>
      BY <1>7, <2>1
    <3> QED BY <2>1, <3>1 DEF Spelling
  <2>2. CASE n = 1
    <3>1. c < 128
      BY <1>1, <1>4, <2>2
    <3>2. Encoded(c) = <<c>>
      BY <1>7, <1>8, <1>9, <2>2 DEF kFirstByteMark
    <3> QED BY <2>2, <3>1, <3>2 DEF Spelling
  <2>3. CASE n = 2
    <3>1. c \in 128 .. 2047
      BY <1>1, <1>4, <2>3
    <3>2. Encoded(c) = <<(c \div 64) + 192, 128 + (c % 64)>>
      <4>1. /\ Encoded(c)[1] = (c \div 64) + 192
            /\ Encoded(c)[2] = 128 + (c % 64)
        BY <1>7, <1>8, <1>9, <2>3 DEF kFirstByteMark, Low6
      <4>2. Encoded(c) = [k \in 1 .. 2 |-> Encoded(c)[k]] /\ 2 \in Nat
        BY <1>7, <2>3
      <4>3. Encoded(c) = <<Encoded(c)[1], Encoded(c)[2]>>
        BY <4>2, Tuples
      <4> QED BY <4>1, <4>3
    <3> QED BY <2>3, <3>1, <3>2 DEF Spelling
  <2>4. CASE n = 3
    <3>1. c >= 2048 /\ c < p
      BY <1>1, <1>4, <2>4
    <3>2. Encoded(c) = <<(c \div 4096) + 224, 128 + ((c \div 64) % 64), 128 + (c % 64)>>
      <4>1. /\ Encoded(c)[1] = (c \div 4096) + 224
            /\ Encoded(c)[2] = 128 + ((c \div 64) % 64)
            /\ Encoded(c)[3] = 128 + (c % 64)
        BY <1>7, <1>8, <1>9, <2>4 DEF kFirstByteMark, Low6
      <4>2. Encoded(c) = [k \in 1 .. 3 |-> Encoded(c)[k]] /\ 3 \in Nat
        BY <1>7, <2>4
      <4>3. Encoded(c) = <<Encoded(c)[1], Encoded(c)[2], Encoded(c)[3]>>
        BY <4>2, Tuples
      <4> QED BY <4>1, <4>3
    <3> QED BY <1>1, <2>4, <3>1, <3>2 DEF Spelling
  <2>5. CASE n = 4
    <3>1. c >= p /\ c <= m
      BY <1>1, <1>4, <2>5
    <3>2. Encoded(c) = <<(c \div (64 * 4096)) + 240, 128 + ((c \div 4096) % 64),
                         128 + ((c \div 64) % 64), 128 + (c % 64)>>
      <4>1. /\ Encoded(c)[1] = (c \div (64 * 4096)) + 240
            /\ Encoded(c)[2] = 128 + ((c \div 4096) % 64)
            /\ Encoded(c)[3] = 128 + ((c \div 64) % 64)
            /\ Encoded(c)[4] = 128 + (c % 64)
        BY <1>7, <1>8, <1>9, <2>5 DEF kFirstByteMark, Low6
      <4>2. Encoded(c) = [k \in 1 .. 4 |-> Encoded(c)[k]] /\ 4 \in Nat
        BY <1>7, <2>5
      <4>3. Encoded(c) = <<Encoded(c)[1], Encoded(c)[2], Encoded(c)[3], Encoded(c)[4]>>
        BY <4>2, Tuples
      <4> QED BY <4>1, <4>3
    <3> QED BY <1>1, <2>5, <3>1, <3>2 DEF Spelling
  <2> QED BY <1>6, <2>1, <2>2, <2>3, <2>4, <2>5
<1> QED BY <1>2, <1>6, <1>10

LEMMA EncodedBytes ==
  ASSUME NEW c \in Nat
  PROVE  Encoded(c) \in Seq(Bytes) /\ Len(Encoded(c)) = utf32_codepoint_utf8_length(c)
<1>1. PICK n \in 0 .. 4 : n = utf32_codepoint_utf8_length(c)
  BY EncodedIs
<1>2. PICK b : b = Encoded(c) /\ Spelling(c, n, b)
  BY <1>1, EncodedIs
<1>3. PICK x, y, z : /\ x = c % 64 /\ y = (c \div 64) % 64 /\ z = (c \div 4096) % 64
                     /\ x \in 0 .. 63 /\ y \in 0 .. 63 /\ z \in 0 .. 63
  <2>1. \A k \in Nat : k % 64 \in 0 .. 63
    OBVIOUS
  <2>2. c \div 64 \in Nat /\ c \div 4096 \in Nat
    OBVIOUS
  <2>3. c % 64 \in 0 .. 63 /\ (c \div 64) % 64 \in 0 .. 63 /\ (c \div 4096) % 64 \in 0 .. 63
    BY <2>1, <2>2
  <2> QED BY <2>3
<1>4. CASE n = 0
  <2>1. b = <<>>
    BY <1>2, <1>4 DEF Spelling
  <2> QED BY <1>1, <1>2, <1>4, <2>1
<1>5. CASE n = 1
  <2>1. b = <<c>> /\ c < 128
    BY <1>2, <1>5 DEF Spelling
  <2>2. c \in Bytes
    BY <2>1 DEF Bytes
  <2> QED BY <1>1, <1>2, <1>5, <2>1, <2>2
<1>6. CASE n = 2
  <2>1. b = <<(c \div 64) + 192, 128 + x>> /\ c \in 128 .. 2047
    BY <1>2, <1>3, <1>6 DEF Spelling
  <2>2. (c \div 64) + 192 \in Bytes /\ 128 + x \in Bytes
    BY <1>3, <2>1 DEF Bytes
  <2> QED BY <1>1, <1>2, <1>6, <2>1, <2>2
<1>7. CASE n = 3
  <2>1. b = <<(c \div 4096) + 224, 128 + y, 128 + x>> /\ c < Plane
    BY <1>2, <1>3, <1>7 DEF Spelling
  <2>2. c \div 4096 \in 0 .. 15
    BY <2>1, SMTT(15) DEF Plane
  <2>3. (c \div 4096) + 224 \in Bytes /\ 128 + x \in Bytes /\ 128 + y \in Bytes
    BY <1>3, <2>2 DEF Bytes
  <2> QED BY <1>1, <1>2, <1>7, <2>1, <2>3
<1>8. CASE n = 4
  <2>1. b = <<(c \div (64 * 4096)) + 240, 128 + z, 128 + y, 128 + x>> /\ c <= kUnicodeMaxCodepoint
    BY <1>2, <1>3, <1>8 DEF Spelling
  <2>2. PICK q \in 0 .. 4 : q = c \div (64 * 4096)
    <3>1. c \div (64 * 4096) \in 0 .. 4
      BY <2>1, SMTT(15) DEF kUnicodeMaxCodepoint
    <3> QED BY <3>1
  <2>3. q + 240 \in Bytes /\ 128 + x \in Bytes /\ 128 + y \in Bytes /\ 128 + z \in Bytes
    BY <1>3 DEF Bytes
  <2>4. b = <<q + 240, 128 + z, 128 + y, 128 + x>>
    BY <2>1, <2>2
  <2> QED BY <1>1, <1>2, <1>8, <2>3, <2>4
<1> QED BY <1>4, <1>5, <1>6, <1>7, <1>8

-----------------------------------------------------------------------------
(* The conversions to UTF-8 unfolded.                                       *)

Narrows(f, src) ==
  /\ f \in [1 .. (Len(src) + 1) -> Seq(Bytes)]
  /\ src # <<>> => utf16_to_utf8(src) = f[1]
  /\ f[Len(src) + 1] = << 0 >>
  /\ \A i \in 1 .. Len(src) : f[i] = Encoded(Point16(src, i)) \o f[Next16(src, i)]

NarrowLengths(g, src) ==
  /\ g \in [1 .. (Len(src) + 1) -> Nat]
  /\ src # <<>> => utf16_to_utf8_length(src) = g[1]
  /\ g[Len(src) + 1] = 0
  /\ \A i \in 1 .. Len(src) : g[i] = Len(Encoded(Point16(src, i))) + g[Next16(src, i)]

LEMMA Div1024 ==
  ASSUME NEW x \in Nat
  PROVE  \E h \in 0 .. 1023 : x = (x \div 1024) * 1024 + h
<1>1. x % 1024 \in 0 .. 1023 /\ x = (x \div 1024) * 1024 + (x % 1024)
  BY SMTT(15)
<1> QED BY <1>1

LEMMA FourBytes ==
  ASSUME NEW c \in Nat, c >= Plane, c <= kUnicodeMaxCodepoint
  PROVE  utf32_codepoint_utf8_length(c) = 4
<1>1. PICK p \in Nat, m \in Nat : p = Plane /\ m = kUnicodeMaxCodepoint /\ p > 2048
  BY SMTT(15) DEF Plane, kUnicodeMaxCodepoint
<1>2. c >= p /\ c <= m /\ p > 2048
  BY <1>1
<1>3. c \in p .. m /\ ~(c < 128) /\ c \notin 128 .. 2047 /\ c \notin 2048 .. (p - 1)
  BY ONLY <1>2, c \in Nat, p \in Nat, m \in Nat, SMTT(20)
<1> QED BY <1>1, <1>3 DEF utf32_codepoint_utf8_length

(* A pair is a code point of four bytes.                                    *)
LEMMA PairValue ==
  ASSUME NEW x \in Nat, NEW y \in Nat, x \div 1024 = 54, y \div 1024 = 55
  PROVE  \E c \in Nat :
           /\ c = Plane + (x - kUnicodeSurrogateStart) * 1024 + (y - kUnicodeSurrogateLowStart)
           /\ c >= Plane /\ c <= kUnicodeMaxCodepoint
<1>1. PICK h \in 0 .. 1023 : x = 54 * 1024 + h
  BY Div1024
<1>2. PICK l \in 0 .. 1023 : y = 55 * 1024 + l
  BY Div1024
<1>3. PICK c \in Nat : c = 64 * 1024 + h * 1024 + l
  <2>1. 64 * 1024 + h * 1024 + l \in Nat
    BY SMTT(15)
  <2> QED BY <2>1
<1>4. x - kUnicodeSurrogateStart = h /\ y - kUnicodeSurrogateLowStart = l /\ Plane = 64 * 1024
  BY <1>1, <1>2, SMTT(15) DEF Plane, kUnicodeSurrogateStart, kUnicodeSurrogateLowStart
<1>5. c >= Plane /\ c <= kUnicodeMaxCodepoint
  BY <1>3, SMTT(15) DEF Plane, kUnicodeMaxCodepoint
<1> QED BY <1>3, <1>4, <1>5

LEMMA PairPoint ==
  ASSUME NEW src \in Seq(Nat), NEW i \in 1 .. Len(src)
  PROVE  /\ Point16(src, i) \in Nat
         /\ Next16(src, i) \in 1 .. (Len(src) + 1) /\ Next16(src, i) > i
         /\ Pair(src, i) => /\ Point16(src, i) >= Plane /\ Point16(src, i) <= kUnicodeMaxCodepoint
                            /\ utf32_codepoint_utf8_length(Point16(src, i)) = 4
<1>1. Len(src) \in Nat /\ src[i] \in Nat
  OBVIOUS
<1>2. Next16(src, i) \in 1 .. (Len(src) + 1) /\ Next16(src, i) > i
  BY <1>1 DEF Next16, Pair
<1>3. CASE ~Pair(src, i)
  BY <1>1, <1>2, <1>3 DEF Point16
<1>4. CASE Pair(src, i)
  <2>1. i + 1 \in 1 .. Len(src)
    BY <1>1, <1>4 DEF Pair
  <2>2. PICK x \in Nat, y \in Nat : /\ x = src[i] /\ y = src[i + 1]
                                    /\ x \div 1024 = 54 /\ y \div 1024 = 55
    BY <1>1, <1>4, <2>1 DEF Pair, High, Low
  <2>4. Point16(src, i) = Plane + (x - kUnicodeSurrogateStart) * 1024 + (y - kUnicodeSurrogateLowStart)
    BY <1>4, <2>2 DEF Point16
  <2>5. PICK c \in Nat : c = Point16(src, i) /\ c >= Plane /\ c <= kUnicodeMaxCodepoint
    BY <2>2, <2>4, PairValue, SMTT(20)
  <2> QED BY <1>2, <2>5, FourBytes
<1> QED BY <1>3, <1>4

LEMMA Narrowed ==
  ASSUME NEW src \in Seq(Nat)
  PROVE  \E f : Narrows(f, src)
<1> DEFINE Enc(i) == Encoded(Point16(src, i))
           To(i) == Next16(src, i)
           R == Seq(Bytes)
<1>1. PICK n \in Nat : n = Len(src)
  OBVIOUS
<1> DEFINE D == 1 .. (n + 1)
           from[i \in 1 .. (Len(src) + 1)] == IF i > Len(src) THEN << 0 >> ELSE Enc(i) \o from[To(i)]
           next == [i \in 1 .. n |-> To(i)]
           step == [i \in 1 .. n |-> [r \in R |-> Enc(i) \o r]]
<1>2. ASSUME NEW i \in 1 .. n PROVE To(i) \in D /\ To(i) > i /\ Enc(i) \in R
  <2>1. Point16(src, i) \in Nat /\ To(i) \in 1 .. (Len(src) + 1) /\ To(i) > i
    BY <1>1, PairPoint
  <2> QED BY <1>1, <2>1, EncodedBytes
<1>3. next \in [1 .. n -> D] /\ \A i \in 1 .. n : next[i] > i
  <2> HIDE DEF To, D
  <2> QED BY <1>2
<1>4. step \in [1 .. n -> [R -> R]] /\ << 0 >> \in R
  <2>1. \A i \in 1 .. n, r \in R : Enc(i) \o r \in R
    <3> HIDE DEF Enc
    <3> QED BY <1>2, ConcatProperties
  <2>2. 0 \in Bytes
    BY DEF Bytes
  <2>3. << 0 >> \in R
    BY <2>2
  <2> HIDE DEF Enc, R
  <2> QED BY <2>1, <2>3
<1>5. PICK f : Loops(f, n, R, next, << 0 >>, step)
  <2>1. Forward(next, n)
    BY <1>3 DEF Forward
  <2> HIDE DEF next, step, R
  <2> QED BY <1>4, <2>1, LoopExists
<1>6. f \in [D -> R] /\ f[n + 1] = << 0 >> /\ \A i \in 1 .. n : f[i] = Enc(i) \o f[To(i)]
  <2>1. f \in [D -> R] /\ f[n + 1] = << 0 >> /\ \A i \in 1 .. n : f[i] = step[i][f[next[i]]]
    BY <1>5 DEF Loops
  <2>2. \A i \in 1 .. n : next[i] = To(i) /\ f[To(i)] \in R
    <3> HIDE DEF R, To, D
    <3> QED BY <1>2, <2>1
  <2>3. \A i \in 1 .. n : \A r \in R : step[i][r] = Enc(i) \o r
    <3> HIDE DEF R, Enc
    <3> QED OBVIOUS
  <2> HIDE DEF R, Enc, To, step, next, D
  <2> QED BY <2>1, <2>2, <2>3
<1>7. \A i \in D : f[i] = IF i > n THEN << 0 >> ELSE Enc(i) \o f[To(i)]
  <2>1. \A i \in D : (i > n => i = n + 1) /\ (~(i > n) => i \in 1 .. n)
    OBVIOUS
  <2> HIDE DEF R, Enc, To, D
  <2> QED BY <1>6, <2>1
<1>8. from = [i \in 1 .. (Len(src) + 1) |-> IF i > Len(src) THEN << 0 >> ELSE Enc(i) \o from[To(i)]]
  <2>1. f = [i \in 1 .. (Len(src) + 1) |-> IF i > Len(src) THEN << 0 >> ELSE Enc(i) \o f[To(i)]]
    <3> HIDE DEF R, Enc, To
    <3> QED BY <1>1, <1>6, <1>7
  <2> HIDE DEF Enc, To
  <2> QED BY <2>1
<1>9. src # <<>> => utf16_to_utf8(src) = from[1]
  BY DEF utf16_to_utf8
<1> HIDE DEF from
<1>10. \A i \in D : f[i] = from[i]
  <2>1. f[n + 1] = from[n + 1]
    <3>1. n + 1 \in D /\ n + 1 > n
      OBVIOUS
    <3> HIDE DEF Enc, To
    <3> QED BY <1>1, <1>6, <1>8, <3>1
  <2>2. \A i \in 1 .. n : f[next[i]] = from[next[i]] => f[i] = from[i]
    <3>1. \A i \in 1 .. n : i \in 1 .. (Len(src) + 1) /\ ~(i > Len(src)) /\ next[i] = To(i)
      BY <1>1
    <3>2. \A i \in 1 .. n : from[i] = Enc(i) \o from[To(i)]
      <4> HIDE DEF Enc, To, next
      <4> QED BY <1>8, <3>1
    <3> HIDE DEF Enc, To, next
    <3> QED BY <1>6, <3>1, <3>2
  <2>3. Forward(next, n) /\ Agree(f, from, n, next)
    BY <1>3, <2>1, <2>2 DEF Forward, Agree
  <2> HIDE DEF next
  <2> QED BY <2>3, LoopUnique
<1> QED
  <2>1. 1 \in D
    OBVIOUS
  <2>2. src # <<>> => utf16_to_utf8(src) = f[1]
    <3> HIDE DEF D
    <3> QED BY <1>9, <1>10, <2>1
  <2> QED BY <1>1, <1>6, <2>2 DEF Narrows

LEMMA NarrowMeasured ==
  ASSUME NEW src \in Seq(Nat)
  PROVE  \E g : NarrowLengths(g, src)
<1> DEFINE Enc(i) == IF Pair(src, i) THEN 4 ELSE utf32_codepoint_utf8_length(src[i])
           To(i) == Next16(src, i)
<1>1. PICK n \in Nat : n = Len(src)
  OBVIOUS
<1> DEFINE D == 1 .. (n + 1)
           from[i \in 1 .. (Len(src) + 1)] == IF i > Len(src) THEN 0 ELSE Enc(i) + from[To(i)]
           next == [i \in 1 .. n |-> To(i)]
           step == [i \in 1 .. n |-> [r \in Nat |-> Enc(i) + r]]
<1>2. ASSUME NEW i \in 1 .. n
      PROVE  To(i) \in D /\ To(i) > i /\ Enc(i) \in Nat /\ Enc(i) = Len(Encoded(Point16(src, i)))
  <2>1. Point16(src, i) \in Nat /\ To(i) \in 1 .. (Len(src) + 1) /\ To(i) > i
    BY <1>1, PairPoint
  <2>2. Enc(i) = utf32_codepoint_utf8_length(Point16(src, i))
    <3>1. CASE Pair(src, i)
      BY <1>1, <3>1, PairPoint
    <3>2. CASE ~Pair(src, i)
      BY <3>2 DEF Point16
    <3> QED BY <3>1, <3>2
  <2>3. Len(Encoded(Point16(src, i))) = utf32_codepoint_utf8_length(Point16(src, i))
    BY <2>1, EncodedBytes
  <2>4. utf32_codepoint_utf8_length(Point16(src, i)) \in 0 .. 4
    BY <2>1, EncodedIs
  <2>5. Enc(i) \in Nat
    BY <2>2, <2>4
  <2> HIDE DEF Enc
  <2> QED BY <1>1, <2>1, <2>2, <2>3, <2>5
<1>3. next \in [1 .. n -> D] /\ \A i \in 1 .. n : next[i] > i
  <2> HIDE DEF To, D
  <2> QED BY <1>2
<1>4. step \in [1 .. n -> [Nat -> Nat]]
  <2>1. \A i \in 1 .. n, r \in Nat : Enc(i) + r \in Nat
    <3> HIDE DEF Enc
    <3> QED BY <1>2
  <2> HIDE DEF Enc
  <2> QED BY <2>1
<1>5. PICK f : Loops(f, n, Nat, next, 0, step)
  <2>1. Forward(next, n)
    BY <1>3 DEF Forward
  <2> HIDE DEF next, step
  <2> QED BY <1>4, <2>1, LoopExists
<1>6. f \in [D -> Nat] /\ f[n + 1] = 0 /\ \A i \in 1 .. n : f[i] = Enc(i) + f[To(i)]
  <2>1. f \in [D -> Nat] /\ f[n + 1] = 0 /\ \A i \in 1 .. n : f[i] = step[i][f[next[i]]]
    BY <1>5 DEF Loops
  <2>2. \A i \in 1 .. n : next[i] = To(i) /\ f[To(i)] \in Nat
    <3> HIDE DEF To, D
    <3> QED BY <1>2, <2>1
  <2>3. \A i \in 1 .. n : \A r \in Nat : step[i][r] = Enc(i) + r
    <3> HIDE DEF Enc
    <3> QED OBVIOUS
  <2> HIDE DEF Enc, To, step, next, D
  <2> QED BY <2>1, <2>2, <2>3
<1>7. \A i \in D : f[i] = IF i > n THEN 0 ELSE Enc(i) + f[To(i)]
  <2>1. \A i \in D : (i > n => i = n + 1) /\ (~(i > n) => i \in 1 .. n)
    OBVIOUS
  <2> HIDE DEF Enc, To, D
  <2> QED BY <1>6, <2>1
<1>8. from = [i \in 1 .. (Len(src) + 1) |-> IF i > Len(src) THEN 0 ELSE Enc(i) + from[To(i)]]
  <2>1. f = [i \in 1 .. (Len(src) + 1) |-> IF i > Len(src) THEN 0 ELSE Enc(i) + f[To(i)]]
    <3> HIDE DEF Enc, To
    <3> QED BY <1>1, <1>6, <1>7
  <2> HIDE DEF Enc, To
  <2> QED BY <2>1
<1>9. src # <<>> => utf16_to_utf8_length(src) = from[1]
  BY DEF utf16_to_utf8_length
<1> HIDE DEF from
<1>10. \A i \in D : f[i] = from[i]
  <2>1. f[n + 1] = from[n + 1]
    <3>1. n + 1 \in D /\ n + 1 > n
      OBVIOUS
    <3> HIDE DEF Enc, To
    <3> QED BY <1>1, <1>6, <1>8, <3>1
  <2>2. \A i \in 1 .. n : f[next[i]] = from[next[i]] => f[i] = from[i]
    <3>1. \A i \in 1 .. n : i \in 1 .. (Len(src) + 1) /\ ~(i > Len(src)) /\ next[i] = To(i)
      BY <1>1
    <3>2. \A i \in 1 .. n : from[i] = Enc(i) + from[To(i)]
      <4> HIDE DEF Enc, To, next
      <4> QED BY <1>8, <3>1
    <3> HIDE DEF Enc, To, next
    <3> QED BY <1>6, <3>1, <3>2
  <2>3. Forward(next, n) /\ Agree(f, from, n, next)
    BY <1>3, <2>1, <2>2 DEF Forward, Agree
  <2> HIDE DEF next
  <2> QED BY <2>3, LoopUnique
<1> QED
  <2>1. 1 \in D
    OBVIOUS
  <2>2. src # <<>> => utf16_to_utf8_length(src) = f[1]
    <3> HIDE DEF D
    <3> QED BY <1>9, <1>10, <2>1
  <2>3. \A i \in 1 .. Len(src) : f[i] = Len(Encoded(Point16(src, i))) + f[Next16(src, i)]
    <3> HIDE DEF Enc
    <3> QED BY <1>1, <1>2, <1>6
  <2> HIDE DEF Enc
  <2> QED BY <1>1, <1>6, <2>2, <2>3 DEF NarrowLengths

(* A String16 is a text of numbers, whatever the bytes it is made of.       *)
LEMMA WideIsNat ==
  ASSUME NEW s \in Seq(Bytes)
  PROVE  String16(s) \in Seq(Nat)
<1>1. PICK n \in 0 .. Len(s) : n = Len(s) /\ n \in Nat
  <2>1. Len(s) \in Nat
    OBVIOUS
  <2> QED BY <2>1
<1>2. SubSeq(s, 1, n) = s
  BY <1>1
<1>3. PICK units, all : /\ units = utf8_to_utf16_length(s, n, FALSE)
                        /\ all = utf8_to_utf16_no_null_terminator(s, n, 2 * n)
  OBVIOUS
<1>4. Fits(s, s, n, units, all)
  BY <1>2, <1>3, FitsAt
<1>5. units \in Int
  <2>1. PICK f : Measures(f, s, n)
    BY Measured
  <2>2. 1 \in 1 .. (n + 4)
    BY <1>1
  <2>3. f[1] \in Int
    BY <2>1, <2>2 DEF Measures
  <2>4. units = f[1]
    BY <1>3, <2>1 DEF Measures
  <2> QED BY ONLY <2>3, <2>4
<1>6. CASE s = <<>> \/ units < 0
  <2>1. s = <<>> \/ utf8_to_utf16_length(s, Len(s), FALSE) < 0
    BY <1>1, <1>3, <1>6
  <2>2. String16(s) = <<>>
    BY <2>1 DEF String16
  <2> QED BY <2>2
<1>7. CASE ~(s = <<>> \/ units < 0)
  <2>1. units >= 0 /\ units \in Nat
    BY <1>5, <1>7
  <2>2. PICK part : part = utf8_to_utf16_no_null_terminator(s, n, units)
    OBVIOUS
  <2>3. part \in Seq(Nat) /\ (Len(part) = units \/ Len(part) = units - 1)
    BY <1>4, <2>1, <2>2 DEF Fits
  <2>4. String16(s) = SubSeq(part \o << 0 >>, 1, units)
    <3>1. (units + 1) - 1 = units
      BY <1>5
    <3> QED BY <1>1, <1>3, <1>7, <2>2, <3>1 DEF String16, utf8_to_utf16
  <2>5. PICK w \in Seq(Nat) : w = part \o << 0 >> /\ units <= Len(w)
    <3>1. part \o << 0 >> \in Seq(Nat) /\ Len(part \o << 0 >>) = Len(part) + 1
      BY <2>3
    <3>2. units <= Len(part) + 1
      BY <2>1, <2>3
    <3> QED BY <3>1, <3>2
  <2>6. SubSeq(w, 1, units) \in Seq(Nat)
    BY <2>1, <2>5
  <2> QED BY <2>4, <2>5, <2>6
<1> QED BY <1>6, <1>7

(* What utf16_to_utf8 writes is what it measured, and a terminator.         *)
LEMMA NarrowEnds ==
  ASSUME NEW src \in Seq(Nat), src # <<>>
  PROVE  \E x \in Seq(Bytes) : utf16_to_utf8(src) = x \o << 0 >> /\ utf16_to_utf8_length(src) = Len(x)
<1>1. PICK n \in Nat : n = Len(src)
  OBVIOUS
<1>2. PICK f, g : Narrows(f, src) /\ NarrowLengths(g, src)
  BY Narrowed, NarrowMeasured
<1> DEFINE S == {i \in 1 .. (n + 1) : \E x \in Seq(Bytes) : f[i] = x \o << 0 >> /\ g[i] = Len(x)}
<1>3. ASSUME NEW i \in 1 .. (n + 1), \A j \in (i + 1) .. (n + 1) : j \in S PROVE i \in S
  <2>1. CASE i = n + 1
    <3>1. f[i] = << 0 >> /\ g[i] = 0
      BY <1>1, <1>2, <2>1 DEF Narrows, NarrowLengths
    <3>2. <<>> \in Seq(Bytes) /\ << 0 >> = <<>> \o << 0 >> /\ Len(<<>>) = 0
      OBVIOUS
    <3> QED BY <3>1, <3>2
  <2>2. CASE i # n + 1
    <3>1. i \in 1 .. Len(src)
      BY <1>1, <2>2
    <3>2. PICK j, e : j = Next16(src, i) /\ e = Encoded(Point16(src, i))
      OBVIOUS
    <3>3. Point16(src, i) \in Nat /\ j \in 1 .. (n + 1) /\ j > i
      BY <1>1, <3>1, <3>2, PairPoint
    <3>4. e \in Seq(Bytes)
      BY <3>2, <3>3, EncodedBytes
    <3>5. f[i] = e \o f[j] /\ g[i] = Len(e) + g[j]
      BY <1>2, <3>1, <3>2 DEF Narrows, NarrowLengths
    <3>6. j \in S
      <4>1. j \in (i + 1) .. (n + 1)
        BY <3>3
      <4> QED BY <1>3, <4>1
    <3>7. PICK x \in Seq(Bytes) : f[j] = x \o << 0 >> /\ g[j] = Len(x)
      BY <3>6
    <3>8. << 0 >> \in Seq(Bytes)
      BY DEF Bytes
    <3>9. f[i] = (e \o x) \o << 0 >> /\ e \o x \in Seq(Bytes) /\ Len(e \o x) = Len(e) + Len(x)
      <4>1. e \o (x \o << 0 >>) = (e \o x) \o << 0 >>
        BY <3>4, <3>8, ConcatAssociative
      <4>2. e \o x \in Seq(Bytes) /\ Len(e \o x) = Len(e) + Len(x)
        BY <3>4
      <4> QED BY <3>5, <3>7, <4>1, <4>2
    <3> QED BY <3>5, <3>7, <3>9
  <2> QED BY <2>1, <2>2
<1>4. \A i \in 1 .. (n + 1) : i \in S
  <2> HIDE DEF S
  <2>1. n + 1 \in Nat
    OBVIOUS
  <2> QED BY <1>3, <2>1, Downward
<1>5. 1 \in S
  <2>1. 1 \in 1 .. (n + 1)
    OBVIOUS
  <2> HIDE DEF S
  <2> QED BY <1>4, <2>1
<1>6. utf16_to_utf8(src) = f[1] /\ utf16_to_utf8_length(src) = g[1]
  BY <1>2 DEF Narrows, NarrowLengths
<1> QED BY <1>5, <1>6

-----------------------------------------------------------------------------
(* The strings.                                                             *)

Buf == [mRefs : Int, mSize : Int, data : Seq(Int), live : BOOLEAN, takers : 0 .. 2]

(* A buffer that is not freed has the size it says, and is not empty.       *)
Built(r) == r.live => r.mSize = Len(r.data) /\ r.data # <<>>

Sole(r, v) == r.takers # 0 /\ (r.takers = 1 => r.live /\ r.data = v \o << 0 >>)

(* Buffers h, the strings' buffers m and their values v: who holds a buffer *)
(* took it, alone or not, and nobody took the empty one before its first    *)
(* holder.                                                                  *)
Held(h, m, v) ==
  /\ h \in Seq(Buf) /\ Len(h) >= 1
  /\ m \in [Names -> 0 .. Len(h)] /\ v \in [Names -> Seq(Int)]
  /\ \A c \in 1 .. Len(h) : Built(h[c])
  /\ \A s \in Names : m[s] # 0 => Sole(h[m[s]], v[s])
  /\ \A s, t \in Names : s # t /\ m[s] = m[t] /\ m[s] # 0 => h[m[s]].takers = 2
  /\ h[1].takers = 0 => h[1].live /\ h[1].data = << 0 >>

TextInv ==
  /\ width \in {8, 16, 32} /\ text \in Seq(Nat)
  /\ width = 8 => text \in Seq(Bytes)
  /\ width = 16 => text \in Seq(0 .. (Plane - 1))

StrInv == TextInv /\ Held(heap, mString, value)

(* A step that gives s the buffer b and the value w leaves the others their *)
(* buffers.                                                                 *)
Gives(h, m, s, k, b, w) ==
  /\ k \in Seq(Buf) /\ Len(k) >= Len(h) /\ b \in 1 .. Len(k) /\ w \in Seq(Int)
  /\ \A c \in 1 .. Len(k) : Built(k[c])
  /\ \A c \in 1 .. Len(h) : /\ c # m[s] /\ c # b => k[c] = h[c]
                            /\ h[c].takers # 0 => k[c].takers # 0
                            /\ h[c].takers = 2 => k[c].takers = 2
  /\ Sole(k[b], w)
  /\ k[b].takers = 1 => \A t \in Names \ {s} : m[t] # b

LEMMA StaysHeld ==
  ASSUME NEW h, NEW m, NEW v, Held(h, m, v), NEW s \in Names, NEW k, NEW b, NEW w,
         Gives(h, m, s, k, b, w)
  PROVE  Held(k, [m EXCEPT ![s] = b], [v EXCEPT ![s] = w])
<1> DEFINE m1 == [m EXCEPT ![s] = b]
           v1 == [v EXCEPT ![s] = w]
<1>1. /\ h \in Seq(Buf) /\ Len(h) \in Nat /\ Len(h) >= 1
      /\ m \in [Names -> 0 .. Len(h)] /\ v \in [Names -> Seq(Int)]
  BY DEF Held
<1>2. k \in Seq(Buf) /\ Len(k) \in Nat /\ Len(k) >= Len(h) /\ b \in 1 .. Len(k) /\ w \in Seq(Int)
  BY DEF Gives
<1>3. m1 \in [Names -> 0 .. Len(k)] /\ v1 \in [Names -> Seq(Int)]
  <2>1. \A t \in Names : m[t] \in 0 .. Len(k)
    BY <1>1, <1>2
  <2> QED BY <1>1, <1>2, <2>1
<1>4. ASSUME NEW t \in Names, t # s, m[t] # 0
      PROVE  /\ m[t] \in 1 .. Len(h) /\ m1[t] = m[t] /\ v1[t] = v[t]
             /\ k[m[t]].takers # 0
             /\ (m[t] = b \/ m[t] = m[s]) => k[m[t]].takers = 2
             /\ Sole(k[m[t]], v[t])
  <2>1. m[t] \in 1 .. Len(h) /\ m[t] \in 1 .. Len(k) /\ m1[t] = m[t] /\ v1[t] = v[t]
    BY <1>1, <1>2, <1>4
  <2>2. PICK c \in 1 .. Len(h) : c = m[t] /\ c # 0
    BY <1>4, <2>1
  <2>3. Sole(h[c], v[t]) /\ h[c].takers # 0
    BY <2>2 DEF Held, Sole
  <2>4. k[c].takers # 0 /\ (h[c].takers = 2 => k[c].takers = 2) /\ (c # m[s] /\ c # b => k[c] = h[c])
    BY <2>3 DEF Gives
  <2>5. k[c].takers \in 0 .. 2
    <3>1. k[c] \in Buf
      BY <1>2, <2>1, <2>2
    <3> QED BY <3>1 DEF Buf
  <2>6. c = m[s] => k[c].takers = 2
    <3>1. c = m[s] => h[c].takers = 2
      BY <1>4, <2>2 DEF Held
    <3> QED BY <2>4, <3>1
  <2>7. c = b => k[c].takers = 2
    <3>1. c = b => k[c].takers # 1
      BY <1>4, <2>2 DEF Gives
    <3> QED BY <2>4, <2>5, <3>1
  <2>8. Sole(k[c], v[t])
    BY <2>3, <2>4, <2>6, <2>7 DEF Sole
  <2> QED BY <2>1, <2>2, <2>4, <2>6, <2>7, <2>8
<1>5. \A c \in 1 .. Len(k) : Built(k[c])
  BY DEF Gives
<1>6. ASSUME NEW t \in Names, m1[t] # 0 PROVE Sole(k[m1[t]], v1[t])
  <2>1. CASE t = s
    <3>1. m1[t] = b /\ v1[t] = w
      BY <1>1, <2>1
    <3> QED BY <3>1 DEF Gives
  <2>2. CASE t # s
    <3>1. m1[t] = m[t]
      BY <1>1, <2>2
    <3> QED BY <1>4, <1>6, <2>2, <3>1
  <2> QED BY <2>1, <2>2
<1>7. ASSUME NEW t \in Names, NEW u \in Names, t # u, m1[t] = m1[u], m1[t] # 0
      PROVE  k[m1[t]].takers = 2
  <2>1. CASE t = s
    <3>1. u # s /\ m1[t] = b /\ m1[u] = m[u]
      BY <1>1, <1>7, <2>1
    <3> QED BY <1>4, <1>7, <3>1
  <2>2. CASE u = s
    <3>1. t # s /\ m1[u] = b /\ m1[t] = m[t]
      BY <1>1, <1>7, <2>2
    <3> QED BY <1>4, <1>7, <3>1
  <2>3. CASE t # s /\ u # s
    <3>1. m1[t] = m[t] /\ m1[u] = m[u]
      BY <1>1, <2>3
    <3>2. h[m[t]].takers = 2 /\ m[t] \in 1 .. Len(h)
      BY <1>1, <1>7, <3>1 DEF Held
    <3> QED BY <3>1, <3>2 DEF Gives
  <2> QED BY <2>1, <2>2, <2>3
<1>8. k[1].takers = 0 => k[1].live /\ k[1].data = << 0 >>
  <2> SUFFICES ASSUME k[1].takers = 0 PROVE k[1].live /\ k[1].data = << 0 >>
    OBVIOUS
  <2>1. 1 \in 1 .. Len(h)
    BY <1>1
  <2>2. h[1].takers = 0
    BY <2>1 DEF Gives
  <2>3. 1 # b
    BY DEF Gives, Sole
  <2>4. 1 # m[s]
    BY <2>2 DEF Held, Sole
  <2>5. k[1] = h[1]
    BY <2>1, <2>3, <2>4 DEF Gives
  <2> QED BY <2>2, <2>5 DEF Held
<1>9. Len(k) >= 1
  BY <1>1, <1>2
<1> QED BY <1>2, <1>3, <1>5, <1>6, <1>7, <1>8, <1>9 DEF Held

(* Heaps that differ in the buffer b.                                       *)
Differ(h, k, b) ==
  k \in Seq(Buf) /\ Len(k) = Len(h) /\ \A c \in 1 .. Len(h) : c # b => k[c] = h[c]

Changed(h, k, b, r) == k = [h EXCEPT ![b] = r]

LEMMA ChangeOne ==
  ASSUME NEW h \in Seq(Buf), NEW b \in 1 .. Len(h), NEW r \in Buf,
         NEW k, Changed(h, k, b, r)
  PROVE  Differ(h, k, b) /\ k[b] = r
<1> USE DEF Changed
<1>1. Len(h) \in Nat /\ DOMAIN h = 1 .. Len(h)
  OBVIOUS
<1>2. k \in Seq(Buf) /\ Len(k) = Len(h)
  BY <1>1, ExceptSeq
<1> QED BY <1>1, <1>2 DEF Differ

LEMMA TakenIs ==
  ASSUME NEW h \in Seq(Buf), NEW b \in 1 .. Len(h)
  PROVE  /\ Differ(h, Taken(h, b), b)
         /\ Taken(h, b)[b].takers = IF h[b].takers = 0 THEN 1 ELSE 2
         /\ Taken(h, b)[b].live <=> h[b].live
         /\ Taken(h, b)[b].data = h[b].data
         /\ Taken(h, b)[b].mSize = h[b].mSize
<1>1. PICK x \in Buf : x = h[b]
  OBVIOUS
<1>2. PICK n \in 0 .. 2 : n = IF x.takers = 0 THEN 1 ELSE 2
  OBVIOUS
<1>3. PICK r : r = [x EXCEPT !.takers = n]
  OBVIOUS
<1>4. r \in Buf /\ r.takers = n /\ (r.live <=> x.live) /\ r.data = x.data /\ r.mSize = x.mSize
  BY <1>3 DEF Buf
<1>5. Changed(h, Taken(h, b), b, r)
  BY <1>1, <1>2, <1>3 DEF Taken, Changed
<1>6. Differ(h, Taken(h, b), b) /\ Taken(h, b)[b] = r
  BY <1>4, <1>5, ChangeOne
<1> QED BY <1>1, <1>2, <1>4, <1>6

LEMMA ReleaseIs ==
  ASSUME NEW h \in Seq(Buf), NEW b \in 1 .. Len(h)
  PROVE  /\ Differ(h, release(h, b), b)
         /\ release(h, b)[b].takers = h[b].takers
         /\ Built(h[b]) => Built(release(h, b)[b])
<1>1. PICK x \in Buf : x = h[b]
  OBVIOUS
<1>2. CASE onlyOwner(h, b)
  <2>1. PICK r : r = [x EXCEPT !.mRefs = 0, !.live = FALSE, !.data = <<>>]
    OBVIOUS
  <2>2. r \in Buf /\ r.takers = x.takers /\ ~r.live
    <3>1. r = [mRefs |-> 0, mSize |-> x.mSize, data |-> <<>>, live |-> FALSE, takers |-> x.takers]
      BY <2>1 DEF Buf
    <3>2. x.mSize \in Int /\ x.takers \in 0 .. 2 /\ <<>> \in Seq(Int)
      BY DEF Buf
    <3> QED BY <3>1, <3>2 DEF Buf
  <2>3. Changed(h, release(h, b), b, r)
    BY <1>1, <1>2, <2>1 DEF release, Changed
  <2>4. Differ(h, release(h, b), b) /\ release(h, b)[b] = r
    BY <2>2, <2>3, ChangeOne
  <2> QED BY <1>1, <2>2, <2>4 DEF Built
<1>3. CASE ~onlyOwner(h, b)
  <2>1. PICK r : r = [x EXCEPT !.mRefs = x.mRefs - 1]
    OBVIOUS
  <2>2. /\ r \in Buf /\ r.takers = x.takers
        /\ r.live = x.live /\ r.mSize = x.mSize /\ r.data = x.data
    <3>1. PICK z, n, d, l, e : /\ z = x.mRefs - 1 /\ n = x.mSize /\ d = x.data /\ l = x.live /\ e = x.takers
                               /\ z \in Int /\ n \in Int /\ d \in Seq(Int) /\ l \in BOOLEAN /\ e \in 0 .. 2
      BY DEF Buf
    <3>2. r = [mRefs |-> z, mSize |-> n, data |-> d, live |-> l, takers |-> e]
      BY <2>1, <3>1 DEF Buf
    <3>3. r \in Buf
      BY <3>1, <3>2 DEF Buf
    <3> QED BY <3>1, <3>2, <3>3
  <2>3. Changed(h, release(h, b), b, r)
    BY <1>1, <1>3, <2>1 DEF release, Changed
  <2>4. Differ(h, release(h, b), b) /\ release(h, b)[b] = r
    BY <2>2, <2>3, ChangeOne
  <2> QED BY <1>1, <2>2, <2>4 DEF Built
<1> QED BY <1>2, <1>3

LEMMA AppendIs ==
  ASSUME NEW h \in Seq(Buf), NEW r \in Buf
  PROVE  /\ Append(h, r) \in Seq(Buf) /\ Len(Append(h, r)) = Len(h) + 1
         /\ \A c \in 1 .. Len(h) : Append(h, r)[c] = h[c]
         /\ Append(h, r)[Len(h) + 1] = r
  BY AppendProperties

(* The ways to give s a buffer: the empty one, that of t, and a new one.    *)
LEMMA GivesEmpty ==
  ASSUME NEW h, NEW m, NEW v, Held(h, m, v), NEW s \in Names
  PROVE  Gives(h, m, s, Taken(h, Empty), Empty, <<>>)
<1>1. /\ h \in Seq(Buf) /\ Len(h) \in Nat /\ 1 \in 1 .. Len(h)
      /\ m \in [Names -> 0 .. Len(h)] /\ v \in [Names -> Seq(Int)]
  BY DEF Held
<1>2. PICK k : k = Taken(h, 1)
  OBVIOUS
<1>3. /\ Differ(h, k, 1) /\ k[1].takers = (IF h[1].takers = 0 THEN 1 ELSE 2)
      /\ (k[1].live <=> h[1].live) /\ k[1].data = h[1].data /\ k[1].mSize = h[1].mSize
  BY <1>1, <1>2, TakenIs
<1>4. \A c \in 1 .. Len(k) : Built(k[c])
  <2> SUFFICES ASSUME NEW c \in 1 .. Len(h) PROVE Built(k[c])
    BY <1>3 DEF Differ
  <2>1. Built(h[c])
    BY DEF Held
  <2> QED BY <1>3, <2>1 DEF Differ, Built
<1>5. Sole(k[1], <<>>)
  <2>1. k[1].takers # 0
    BY <1>3
  <2>2. ASSUME k[1].takers = 1 PROVE k[1].live /\ k[1].data = <<>> \o << 0 >>
    <3>1. h[1].takers = 0
      BY <1>3, <2>2
    <3>2. h[1].live /\ h[1].data = << 0 >>
      BY <3>1 DEF Held
    <3>3. <<>> \o << 0 >> = << 0 >>
      OBVIOUS
    <3> QED BY <1>3, <3>2, <3>3
  <2> QED BY <2>1, <2>2 DEF Sole
<1>6. ASSUME k[1].takers = 1, NEW t \in Names PROVE m[t] # 1
  <2>1. h[1].takers = 0
    BY <1>3, <1>6
  <2> QED BY <2>1 DEF Held, Sole
<1>7. ASSUME NEW c \in 1 .. Len(h)
      PROVE  /\ c # 1 => k[c] = h[c]
             /\ h[c].takers # 0 => k[c].takers # 0
             /\ h[c].takers = 2 => k[c].takers = 2
  BY <1>3 DEF Differ
<1>8. k \in Seq(Buf) /\ Len(k) = Len(h) /\ <<>> \in Seq(Int)
  BY <1>3 DEF Differ
<1> QED BY <1>1, <1>2, <1>4, <1>5, <1>6, <1>7, <1>8 DEF Gives, Empty

LEMMA GivesShared ==
  ASSUME NEW h, NEW m, NEW v, Held(h, m, v), NEW s \in Names, NEW t \in Names, m[t] # 0
  PROVE  Gives(h, m, s, Taken(h, m[t]), m[t], v[t])
<1>1. /\ h \in Seq(Buf) /\ Len(h) \in Nat
      /\ m \in [Names -> 0 .. Len(h)] /\ v \in [Names -> Seq(Int)]
  BY DEF Held
<1>2. PICK b, k : b = m[t] /\ k = Taken(h, b) /\ b \in 1 .. Len(h)
  BY <1>1
<1>3. h[b].takers # 0
  BY <1>2 DEF Held, Sole
<1>4. /\ Differ(h, k, b) /\ k[b].takers = 2
      /\ (k[b].live <=> h[b].live) /\ k[b].data = h[b].data /\ k[b].mSize = h[b].mSize
  BY <1>1, <1>2, <1>3, TakenIs
<1>5. \A c \in 1 .. Len(k) : Built(k[c])
  <2> SUFFICES ASSUME NEW c \in 1 .. Len(h) PROVE Built(k[c])
    BY <1>4 DEF Differ
  <2>1. Built(h[c])
    BY DEF Held
  <2> QED BY <1>4, <2>1 DEF Differ, Built
<1>6. Sole(k[b], v[t]) /\ k[b].takers # 1
  BY <1>4 DEF Sole
<1>7. ASSUME NEW c \in 1 .. Len(h)
      PROVE  /\ c # b => k[c] = h[c]
             /\ h[c].takers # 0 => k[c].takers # 0
             /\ h[c].takers = 2 => k[c].takers = 2
  BY <1>4 DEF Differ
<1>8. k \in Seq(Buf) /\ Len(k) = Len(h) /\ v[t] \in Seq(Int) /\ b \in 1 .. Len(k) /\ Len(k) >= Len(h)
  BY <1>1, <1>2, <1>4 DEF Differ
<1>9. Gives(h, m, s, k, b, v[t])
  BY <1>5, <1>6, <1>7, <1>8 DEF Gives
<1> QED BY <1>2, <1>9

LEMMA GivesNew ==
  ASSUME NEW h, NEW m, NEW v, Held(h, m, v), NEW s \in Names, NEW r \in Buf, Built(r),
         NEW w \in Seq(Int), Sole(r, w)
  PROVE  Gives(h, m, s, Append(h, r), Len(h) + 1, w)
<1>1. /\ h \in Seq(Buf) /\ Len(h) \in Nat
      /\ m \in [Names -> 0 .. Len(h)] /\ v \in [Names -> Seq(Int)]
  BY DEF Held
<1>2. PICK k, b : k = Append(h, r) /\ b = Len(h) + 1
  OBVIOUS
<1>3. k \in Seq(Buf) /\ Len(k) = Len(h) + 1 /\ (\A c \in 1 .. Len(h) : k[c] = h[c]) /\ k[b] = r
  BY <1>1, <1>2, AppendIs
<1>4. \A c \in 1 .. Len(k) : Built(k[c])
  <2> SUFFICES ASSUME NEW c \in 1 .. Len(k) PROVE Built(k[c])
    OBVIOUS
  <2>1. CASE c \in 1 .. Len(h)
    <3>1. Built(h[c])
      BY <2>1 DEF Held
    <3> QED BY <1>3, <2>1, <3>1
  <2>2. CASE c = b
    BY <1>3, <2>2
  <2> QED BY <1>1, <1>2, <1>3, <2>1, <2>2
<1>5. \A t \in Names : m[t] # b
  BY <1>1, <1>2
<1>6. b \in 1 .. Len(k) /\ Len(k) >= Len(h)
  BY <1>1, <1>2, <1>3
<1>7. Gives(h, m, s, k, b, w)
  BY <1>3, <1>4, <1>5, <1>6 DEF Gives
<1> QED BY <1>2, <1>7

(* The buffer that s had is released.                                       *)
LEMMA GivesReleased ==
  ASSUME NEW h, NEW m, NEW v, Held(h, m, v), NEW s \in Names, m[s] # 0, NEW k, NEW b, NEW w,
         Gives(h, m, s, k, b, w), m[s] = b => k[b].takers = 2
  PROVE  Gives(h, m, s, release(k, m[s]), b, w)
<1>1. /\ h \in Seq(Buf) /\ Len(h) \in Nat
      /\ m \in [Names -> 0 .. Len(h)]
  BY DEF Held
<1>2. k \in Seq(Buf) /\ Len(k) \in Nat /\ Len(k) >= Len(h) /\ b \in 1 .. Len(k) /\ w \in Seq(Int)
  BY DEF Gives
<1>3. PICK c, j : c = m[s] /\ j = release(k, c) /\ c \in 1 .. Len(h) /\ c \in 1 .. Len(k)
  BY <1>1, <1>2
<1>4. Differ(k, j, c) /\ j[c].takers = k[c].takers /\ (Built(k[c]) => Built(j[c]))
  BY <1>2, <1>3, ReleaseIs
<1>5. \A d \in 1 .. Len(j) : Built(j[d])
  <2> SUFFICES ASSUME NEW d \in 1 .. Len(k) PROVE Built(j[d])
    BY <1>4 DEF Differ
  <2>1. Built(k[d])
    BY DEF Gives
  <2> QED BY <1>4, <2>1 DEF Differ
<1>6. \A d \in 1 .. Len(k) : j[d].takers = k[d].takers /\ (d # c => j[d] = k[d])
  BY <1>4 DEF Differ
<1>7. ASSUME NEW d \in 1 .. Len(h)
      PROVE  /\ d # m[s] /\ d # b => j[d] = h[d]
             /\ h[d].takers # 0 => j[d].takers # 0
             /\ h[d].takers = 2 => j[d].takers = 2
  <2>1. d \in 1 .. Len(k)
    BY <1>1, <1>2
  <2> QED BY <1>3, <1>6, <2>1 DEF Gives
<1>8. Sole(j[b], w) /\ (j[b].takers = 1 => \A t \in Names \ {s} : m[t] # b)
  <2>1. CASE b = c
    <3>1. j[b].takers = 2
      BY <1>2, <1>3, <1>6, <2>1
    <3> QED BY <3>1 DEF Sole
  <2>2. CASE b # c
    <3>1. j[b] = k[b]
      BY <1>2, <1>6, <2>2
    <3> QED BY <3>1 DEF Gives
  <2> QED BY <2>1, <2>2
<1>9. j \in Seq(Buf) /\ Len(j) = Len(k)
  BY <1>4 DEF Differ
<1>10. Gives(h, m, s, j, b, w)
  BY <1>2, <1>5, <1>7, <1>8, <1>9 DEF Gives
<1> QED BY <1>3, <1>10

(* The buffer of the text w, with its terminator, that e took.              *)
IsBuffer(r, w, n, e) ==
  r = [mRefs |-> 1, mSize |-> n, data |-> w \o << 0 >>, live |-> TRUE, takers |-> e]

LEMMA BufferIs ==
  ASSUME NEW w \in Seq(Int), NEW n \in Int, n = Len(w) + 1, NEW e \in 1 .. 2,
         NEW r, IsBuffer(r, w, n, e)
  PROVE  r \in Buf /\ Built(r) /\ Sole(r, w) /\ r.takers = e
<1>1. PICK d \in Seq(Int) : d = w \o << 0 >> /\ Len(d) = Len(w) + 1 /\ d # <<>>
  <2>1. w \o << 0 >> \in Seq(Int) /\ Len(w \o << 0 >>) = Len(w) + 1 /\ Len(w) \in Nat
    BY ONLY w \in Seq(Int)
  <2>2. Len(w) + 1 # 0
    BY ONLY <2>1
  <2> QED BY ONLY <2>1, <2>2, Len(<<>>) = 0
<1>2. r = [mRefs |-> 1, mSize |-> n, data |-> d, live |-> TRUE, takers |-> e]
  BY <1>1 DEF IsBuffer
<1>3. r \in Buf
  <2>1. 1 \in Int /\ n \in Int /\ d \in Seq(Int) /\ TRUE \in BOOLEAN /\ e \in 0 .. 2
    BY <1>1
  <2> QED BY ONLY <1>2, <2>1 DEF Buf
<1>4. r.mSize = n /\ r.data = d /\ r.live = TRUE /\ r.takers = e
  BY <1>2
<1> QED BY <1>1, <1>3, <1>4 DEF Built, Sole

LEMMA BufferOf ==
  ASSUME NEW w \in Seq(Int), NEW n \in Int, n = Len(w) + 1, NEW e \in 1 .. 2,
         NEW r, r = [Buffer(n, w \o << 0 >>) EXCEPT !.takers = e]
  PROVE  r \in Buf /\ Built(r) /\ Sole(r, w) /\ r.takers = e
<1>1. PICK d : d = w \o << 0 >>
  OBVIOUS
<1>2. r = [mRefs |-> 1, mSize |-> n, data |-> d, live |-> TRUE, takers |-> e]
  BY <1>1 DEF Buffer
<1>3. IsBuffer(r, w, n, e)
  BY <1>1, <1>2 DEF IsBuffer
<1> QED BY <1>3, BufferIs

LEMMA BytesAreInt ==
  ASSUME NEW s \in Seq(Bytes)
  PROVE  s \in Seq(Int)
<1>1. Bytes \subseteq Int
  BY DEF Bytes
<1> QED BY <1>1, SeqMonotonic

LEMMA NewBuffer ==
  ASSUME NEW w \in Seq(Int), NEW n \in Int, n = Len(w) + 1, NEW r, r = Buffer(n, w \o << 0 >>)
  PROVE  r \in Buf /\ Built(r) /\ Sole(r, w)
<1>1. IsBuffer(r, w, n, 1)
  BY DEF Buffer, IsBuffer
<1> QED BY <1>1, BufferIs

LEMMA BecomesHeld ==
  ASSUME StrInv, NEW s \in Names, NEW h, NEW b, NEW w,
         Becomes(s, h, b, w), Gives(heap, mString, s, h, b, w)
  PROVE  StrInv'
<1>1. Held(h, [mString EXCEPT ![s] = b], [value EXCEPT ![s] = w])
  BY StaysHeld DEF StrInv
<1>2. heap' = h /\ mString' = [mString EXCEPT ![s] = b] /\ value' = [value EXCEPT ![s] = w]
  BY DEF Becomes
<1>3. width' = width /\ text' = text
  BY DEF Becomes
<1>4. Held(heap', mString', value')
  BY <1>1, <1>2
<1>5. TextInv'
  BY <1>3 DEF StrInv, TextInv
<1> QED BY <1>4, <1>5 DEF StrInv

LEMMA InitHeld ==
  ASSUME StrInit
  PROVE  StrInv
<1>1. PICK r : r = [Buffer(1, << 0 >>) EXCEPT !.takers = 0] /\ heap = <<r>>
  BY DEF StrInit
<1>2. r = [mRefs |-> 1, mSize |-> 1, data |-> << 0 >>, live |-> TRUE, takers |-> 0]
  BY <1>1 DEF Buffer
<1>3. r \in Buf /\ Built(r) /\ r.takers = 0 /\ r.live = TRUE /\ r.data = << 0 >>
  BY <1>2 DEF Buf, Built
<1>4. heap \in Seq(Buf) /\ Len(heap) = 1 /\ heap[1] = r
  BY <1>1, <1>3
<1>5. /\ mString \in [Names -> 0 .. Len(heap)] /\ value \in [Names -> Seq(Int)]
      /\ \A s \in Names : mString[s] = 0
  BY <1>4 DEF StrInit, NoString
<1>6. Held(heap, mString, value)
  BY <1>3, <1>4, <1>5 DEF Held
<1>7. TextInv
  BY DEF StrInit, TextInv
<1> QED BY <1>6, <1>7 DEF StrInv

LEMMA TypeKeeps ==
  ASSUME StrInv, NEW u \in Alphabet[width], Type(u)
  PROVE  StrInv'
<1>1. width' = width /\ heap' = heap /\ mString' = mString /\ value' = value /\ text' = Append(text, u)
  BY DEF Type
<1>2. width \in {8, 16, 32} /\ text \in Seq(Nat)
      /\ (width = 8 => text \in Seq(Bytes)) /\ (width = 16 => text \in Seq(0 .. (Plane - 1)))
  BY DEF StrInv, TextInv
<1>3. u \in Nat /\ (width = 8 => u \in Bytes) /\ (width = 16 => u \in 0 .. (Plane - 1))
  <2>1. 0 .. (Plane - 1) \subseteq Nat
    BY SMTT(15) DEF Plane
  <2>2. Bytes \subseteq Nat
    BY DEF Bytes
  <2>3. CASE width = 8
    BY <2>2, <2>3, AlphabetAssumption DEF Bytes
  <2>4. CASE width = 16
    BY <2>1, <2>4, AlphabetAssumption
  <2>5. CASE width = 32
    BY <2>5, AlphabetAssumption
  <2> QED BY <1>2, <2>3, <2>4, <2>5
<1>4. TextInv'
  BY <1>1, <1>2, <1>3 DEF TextInv
<1>5. Held(heap', mString', value')
  BY <1>1 DEF StrInv
<1> QED BY <1>4, <1>5 DEF StrInv

LEMMA TakesEmpty ==
  ASSUME StrInv, NEW s \in Names, Becomes(s, Taken(heap, Empty), Empty, <<>>)
  PROVE  StrInv'
<1>1. Gives(heap, mString, s, Taken(heap, Empty), Empty, <<>>)
  BY GivesEmpty DEF StrInv
<1> QED BY <1>1, BecomesHeld

(* A new buffer of the text w, with its terminator.                         *)
LEMMA TakesNew ==
  ASSUME StrInv, NEW s \in Names, NEW w \in Seq(Int), NEW n \in Int, n = Len(w) + 1,
         Becomes(s, Append(heap, Buffer(n, w \o << 0 >>)), Len(heap) + 1, w)
  PROVE  StrInv'
<1>1. PICK r : r = Buffer(n, w \o << 0 >>)
  OBVIOUS
<1>2. r \in Buf /\ Built(r) /\ Sole(r, w)
  BY <1>1, NewBuffer
<1>3. Gives(heap, mString, s, Append(heap, r), Len(heap) + 1, w)
  BY <1>2, GivesNew DEF StrInv
<1>4. Becomes(s, Append(heap, r), Len(heap) + 1, w)
  BY <1>1
<1> QED BY <1>3, <1>4, BecomesHeld

LEMMA ConstructKeeps ==
  ASSUME StrInv, NEW s \in Names, Construct(s)
  PROVE  StrInv'
  BY TakesEmpty DEF Construct

LEMMA ConstructCharsKeeps ==
  ASSUME StrInv, NEW s \in Names, NEW malloc, ConstructChars(s, malloc)
  PROVE  StrInv'
<1>1. text \in Seq(Int)
  BY BytesAreInt DEF StrInv, TextInv, ConstructChars
<1>2. CASE text # <<>> /\ malloc
  <2>1. Becomes(s, Append(heap, Buffer(Len(text) + 1, text \o << 0 >>)), Len(heap) + 1, text)
    BY <1>2 DEF ConstructChars
  <2>2. PICK n \in Int, w \in Seq(Int) : n = Len(text) + 1 /\ w = text
    BY <1>1
  <2>3. Becomes(s, Append(heap, Buffer(n, w \o << 0 >>)), Len(heap) + 1, w) /\ n = Len(w) + 1
    BY <2>1, <2>2
  <2> QED BY <2>3, TakesNew
<1>3. CASE ~(text # <<>> /\ malloc)
  <2>1. Becomes(s, Taken(heap, Empty), Empty, <<>>)
    BY <1>3 DEF ConstructChars
  <2> QED BY <2>1, TakesEmpty
<1> QED BY <1>2, <1>3

LEMMA ConstructWideKeeps ==
  ASSUME StrInv, NEW s \in Names, NEW malloc, ConstructWide(s, malloc)
  PROVE  StrInv'
<1>1. Wide \in Seq(Nat)
  <2>1. CASE width = 16
    BY <2>1 DEF Wide, StrInv, TextInv
  <2>2. CASE width # 16
    <3>1. width = 8
      BY <2>2 DEF ConstructWide
    <3> QED BY <2>2, <3>1, WideIsNat DEF Wide, StrInv, TextInv
  <2> QED BY <2>1, <2>2
<1>2. CASE Wide # <<>> /\ malloc
  <2>1. PICK x \in Seq(Bytes) : utf16_to_utf8(Wide) = x \o << 0 >> /\ utf16_to_utf8_length(Wide) = Len(x)
    BY <1>1, <1>2, NarrowEnds
  <2>2. PICK w \in Seq(Int) : w = x
    BY BytesAreInt
  <2>3. PICK n \in Int : n = Len(w) + 1
    OBVIOUS
  <2>4. Front(w \o << 0 >>) = w
    BY DEF Front
  <2>5. Becomes(s, Append(heap, Buffer(n, w \o << 0 >>)), Len(heap) + 1, w)
    BY <1>2, <2>1, <2>2, <2>3, <2>4 DEF ConstructWide
  <2> QED BY <2>3, <2>5, TakesNew
<1>3. CASE ~(Wide # <<>> /\ malloc)
  <2>1. Becomes(s, Taken(heap, Empty), Empty, <<>>)
    BY <1>3 DEF ConstructWide
  <2> QED BY <2>1, TakesEmpty
<1> QED BY <1>2, <1>3

LEMMA CopyKeeps ==
  ASSUME StrInv, NEW s \in Names, NEW t \in Names, Copy(s, t)
  PROVE  StrInv'
<1>1. mString[t] # 0 /\ Becomes(s, Taken(heap, mString[t]), mString[t], value[t])
  BY DEF Copy, Works, NoString
<1>2. Gives(heap, mString, s, Taken(heap, mString[t]), mString[t], value[t])
  BY <1>1, GivesShared DEF StrInv
<1> QED BY <1>1, <1>2, BecomesHeld

LEMMA ForgetKeeps ==
  ASSUME StrInv, NEW s \in Names, Forget(s)
  PROVE  StrInv'
<1>1. /\ mString' = [mString EXCEPT ![s] = 0] /\ value' = [value EXCEPT ![s] = <<>>]
      /\ heap' = heap /\ width' = width /\ text' = text
  BY DEF Forget, NoString
<1>2. PICK h, m, v, m1, v1 : /\ h = heap /\ m = mString /\ v = value /\ m1 = mString' /\ v1 = value'
                             /\ m1 = [m EXCEPT ![s] = 0] /\ v1 = [v EXCEPT ![s] = <<>>]
  BY <1>1
<1>3. Held(h, m, v)
  BY <1>2 DEF StrInv
<1>4. Held(h, m1, v1)
  <2>1. h \in Seq(Buf) /\ Len(h) \in Nat /\ m \in [Names -> 0 .. Len(h)] /\ v \in [Names -> Seq(Int)]
    BY <1>3 DEF Held
  <2>2. m1 \in [Names -> 0 .. Len(h)] /\ v1 \in [Names -> Seq(Int)] /\ m1[s] = 0
    BY <1>2, <2>1
  <2>3. \A t \in Names : m1[t] # 0 => t # s /\ m1[t] = m[t] /\ v1[t] = v[t]
    BY <1>2, <2>1, <2>2
  <2> QED BY <1>3, <2>2, <2>3 DEF Held
<1>5. Held(heap', mString', value')
  BY <1>1, <1>2, <1>4
<1>6. TextInv'
  BY <1>1 DEF StrInv, TextInv
<1> QED BY <1>5, <1>6 DEF StrInv

LEMMA ReplaceKeeps ==
  ASSUME StrInv, NEW s \in Names, mString[s] # 0, NEW chars \in Seq(Int), NEW malloc,
         Replace(s, chars, malloc)
  PROVE  StrInv'
<1>1. CASE chars # <<>> /\ malloc
  <2>1. PICK r : r = Buffer(Len(chars) + 1, chars \o << 0 >>)
    OBVIOUS
  <2>2. r \in Buf /\ Built(r) /\ Sole(r, chars)
    BY <2>1, NewBuffer
  <2>3. PICK k, b : k = Append(heap, r) /\ b = Len(heap) + 1
    OBVIOUS
  <2>4. Gives(heap, mString, s, k, b, chars)
    BY <2>2, <2>3, GivesNew DEF StrInv
  <2>5. mString[s] # b
    <3>1. Len(heap) \in Nat /\ mString[s] \in 0 .. Len(heap)
      BY DEF StrInv, Held
    <3> QED BY <2>3, <3>1
  <2>6. Gives(heap, mString, s, release(k, mString[s]), b, chars)
    BY <2>4, <2>5, GivesReleased DEF StrInv
  <2>7. Becomes(s, release(k, mString[s]), b, chars)
    BY <1>1, <2>1, <2>3 DEF Replace
  <2> QED BY <2>6, <2>7, BecomesHeld
<1>2. CASE ~(chars # <<>> /\ malloc)
  <2>1. PICK k : k = Taken(heap, Empty)
    OBVIOUS
  <2>2. Gives(heap, mString, s, k, Empty, <<>>)
    BY <2>1, GivesEmpty DEF StrInv
  <2>3. mString[s] = Empty => k[Empty].takers = 2
    <3> SUFFICES ASSUME mString[s] = Empty PROVE k[Empty].takers = 2
      OBVIOUS
    <3>1. heap \in Seq(Buf) /\ Empty \in 1 .. Len(heap) /\ heap[Empty].takers # 0
      BY DEF StrInv, Held, Sole, Empty
    <3> QED BY <2>1, <3>1, TakenIs
  <2>4. Gives(heap, mString, s, release(k, mString[s]), Empty, <<>>)
    BY <2>2, <2>3, GivesReleased DEF StrInv
  <2>5. Becomes(s, release(k, mString[s]), Empty, <<>>)
    BY <1>2, <2>1 DEF Replace
  <2> QED BY <2>4, <2>5, BecomesHeld
<1> QED BY <1>1, <1>2

(* The buffer that s has is changed, for as many as took it.                *)
LEMMA GivesChanged ==
  ASSUME NEW h, NEW m, NEW v, Held(h, m, v), NEW s \in Names, m[s] # 0, NEW r \in Buf, Built(r),
         NEW w \in Seq(Int), Sole(r, w), r.takers = h[m[s]].takers,
         NEW k, Changed(h, k, m[s], r)
  PROVE  Gives(h, m, s, k, m[s], w)
<1>1. h \in Seq(Buf) /\ Len(h) \in Nat /\ m \in [Names -> 0 .. Len(h)]
  BY DEF Held
<1>2. PICK b \in 1 .. Len(h) : b = m[s]
  BY <1>1
<1>3. Differ(h, k, b) /\ k[b] = r
  BY <1>1, <1>2, ChangeOne
<1>4. k \in Seq(Buf) /\ Len(k) = Len(h)
  BY <1>3 DEF Differ
<1>5. \A c \in 1 .. Len(k) : Built(k[c])
  <2> SUFFICES ASSUME NEW c \in 1 .. Len(h) PROVE Built(k[c])
    BY <1>4
  <2>1. Built(h[c])
    BY DEF Held
  <2> QED BY <1>3, <2>1 DEF Differ
<1>6. ASSUME NEW c \in 1 .. Len(h)
      PROVE  /\ c # b => k[c] = h[c]
             /\ k[c].takers = h[c].takers
  BY <1>2, <1>3 DEF Differ
<1>7. ASSUME k[b].takers = 1, NEW t \in Names \ {s} PROVE m[t] # b
  <2>1. h[m[s]].takers = 1
    BY <1>3, <1>7
  <2>2. ~(m[s] = m[t])
    BY <2>1 DEF Held
  <2> QED BY <1>2, <2>2
<1>8. b \in 1 .. Len(k) /\ Len(k) >= Len(h)
  BY <1>1, <1>4
<1>9. Gives(h, m, s, k, b, w)
  BY <1>3, <1>4, <1>5, <1>6, <1>7, <1>8 DEF Gives
<1> QED BY <1>2, <1>9

(* The buffer that s has is released, and a copy of it is made that as many *)
(* are counted for.                                                         *)
LEMMA GivesMoved ==
  ASSUME NEW h, NEW m, NEW v, Held(h, m, v), NEW s \in Names, m[s] # 0, NEW r \in Buf, Built(r),
         NEW w \in Seq(Int), Sole(r, w)
  PROVE  Gives(h, m, s, Append(release(h, m[s]), r), Len(h) + 1, w)
<1>1. h \in Seq(Buf) /\ Len(h) \in Nat /\ m \in [Names -> 0 .. Len(h)]
  BY DEF Held
<1>2. PICK c \in 1 .. Len(h) : c = m[s]
  BY <1>1
<1>3. PICK j : j = release(h, c)
  OBVIOUS
<1>4. Differ(h, j, c) /\ j[c].takers = h[c].takers /\ (Built(h[c]) => Built(j[c]))
  BY <1>1, <1>3, ReleaseIs
<1>5. j \in Seq(Buf) /\ Len(j) = Len(h) /\ \A d \in 1 .. Len(h) : d # c => j[d] = h[d]
  BY <1>4 DEF Differ
<1>6. PICK k, b : k = Append(j, r) /\ b = Len(h) + 1
  OBVIOUS
<1>7. k \in Seq(Buf) /\ Len(k) = Len(h) + 1 /\ (\A d \in 1 .. Len(h) : k[d] = j[d]) /\ k[b] = r
  <2>1. /\ k \in Seq(Buf) /\ Len(k) = Len(j) + 1
        /\ \A d \in 1 .. Len(j) : k[d] = j[d]
        /\ k[Len(j) + 1] = r
    BY <1>5, <1>6, AppendIs
  <2> QED BY <1>5, <1>6, <2>1
<1>8. \A d \in 1 .. Len(k) : Built(k[d])
  <2> SUFFICES ASSUME NEW d \in 1 .. Len(k) PROVE Built(k[d])
    OBVIOUS
  <2>1. CASE d \in 1 .. Len(h)
    <3>1. Built(h[d])
      BY <2>1 DEF Held
    <3> QED BY <1>4, <1>5, <1>7, <2>1, <3>1
  <2>2. CASE d = b
    BY <1>7, <2>2
  <2> QED BY <1>1, <1>6, <1>7, <2>1, <2>2
<1>9. ASSUME NEW d \in 1 .. Len(h)
      PROVE  /\ d # c => k[d] = h[d]
             /\ k[d].takers = h[d].takers
  BY <1>4, <1>5, <1>7
<1>10. \A t \in Names : m[t] # b
  BY <1>1, <1>6
<1>11. b \in 1 .. Len(k) /\ Len(k) >= Len(h)
  BY <1>1, <1>6, <1>7
<1>12. Gives(h, m, s, k, b, w)
  BY <1>2, <1>7, <1>8, <1>9, <1>10, <1>11 DEF Gives
<1> QED BY <1>2, <1>3, <1>6, <1>12

LEMMA FrontIs ==
  ASSUME NEW d \in Seq(Int), NEW v \in Seq(Int), d = v \o << 0 >>
  PROVE  SubSeq(d, 1, Len(d) - 1) = v
<1>1. Len(v) \in Nat /\ Len(d) = Len(v) + 1 /\ \A i \in 1 .. Len(v) : d[i] = v[i]
  OBVIOUS
<1>2. Len(d) - 1 = Len(v)
  BY ONLY <1>1
<1>3. PICK u : u = SubSeq(d, 1, Len(v))
  OBVIOUS
<1>4. u \in Seq(Int) /\ Len(u) = Len(v) /\ \A i \in 1 .. Len(v) : u[i] = d[i]
  <2>1. Len(v) <= Len(d)
    BY <1>1
  <2> QED BY <1>1, <1>3, <2>1
<1>5. u = v
  BY <1>1, <1>4, SeqEqual
<1> QED BY <1>2, <1>3, <1>5

(* What real_append makes of a buffer that is not freed.                    *)
LEMMA GrownIs ==
  ASSUME StrInv, NEW s \in Names, Works(s), NEW chars \in Seq(Int)
  PROVE  /\ Grown(s, chars) \in Buf /\ Built(Grown(s, chars))
         /\ Sole(Grown(s, chars), value[s] \o chars)
         /\ Grown(s, chars).takers = heap[mString[s]].takers
<1>1. PICK b \in 1 .. Len(heap) : b = mString[s]
  BY DEF Works, NoString, StrInv, Held
<1>2. PICK x \in Buf : x = heap[b]
  BY DEF StrInv, Held
<1>3. Built(x) /\ Sole(x, value[s]) /\ value[s] \in Seq(Int) /\ x.live
  BY <1>1, <1>2 DEF Works, NoString, StrInv, Held
<1>4. PICK d \in Seq(Int), e \in 1 .. 2 : d = x.data /\ e = x.takers
  <2>1. x.data \in Seq(Int) /\ x.takers \in 0 .. 2 /\ x.takers # 0
    BY <1>3 DEF Buf, Sole
  <2>2. x.takers \in 1 .. 2
    BY <2>1
  <2> QED BY <2>1, <2>2
<1>5. x.mSize = Len(d) /\ d # <<>>
  BY <1>3, <1>4 DEF Built
<1>6. PICK n \in Nat : n = Len(d) - 1 /\ length(s) = n
  <2>1. Len(d) \in Nat /\ Len(d) # 0
    BY <1>5
  <2>2. Len(d) - 1 \in Nat
    BY <2>1
  <2> QED BY <1>1, <1>2, <1>5, <2>2 DEF length
<1>7. PICK w0 \in Seq(Int) : w0 = SubSeq(d, 1, n) /\ Len(w0) = n
  <2>1. n <= Len(d)
    BY <1>6
  <2>2. SubSeq(d, 1, n) \in Seq(Int) /\ Len(SubSeq(d, 1, n)) = n
    BY <1>6, <2>1
  <2> QED BY <2>2
<1>8. PICK w1 \in Seq(Int) : w1 = w0 \o chars /\ Len(w1) = n + Len(chars)
  <2>1. w0 \o chars \in Seq(Int) /\ Len(w0 \o chars) = Len(w0) + Len(chars)
    OBVIOUS
  <2> QED BY <1>7, <2>1
<1>9. PICK l \in Int : l = Len(chars) + n + 1 /\ l = Len(w1) + 1
  <2>1. Len(chars) \in Nat
    OBVIOUS
  <2> QED BY <1>8, <2>1
<1>10. PICK r : r = Grown(s, chars)
  OBVIOUS
<1>11. r = [Buffer(l, w1 \o << 0 >>) EXCEPT !.takers = e]
  BY <1>1, <1>2, <1>4, <1>6, <1>7, <1>8, <1>9, <1>10 DEF Grown
<1>12. r \in Buf /\ Built(r) /\ Sole(r, w1) /\ r.takers = e
  BY <1>9, <1>11, BufferOf
<1>13. Sole(r, value[s] \o chars)
  <2>1. CASE e = 1
    <3>1. d = value[s] \o << 0 >>
      BY <1>3, <1>4, <2>1 DEF Sole
    <3>2. w0 = value[s]
      BY <1>3, <1>6, <1>7, <3>1, FrontIs
    <3> QED BY <1>8, <1>12, <3>2
  <2>2. CASE e # 1
    BY <1>12, <2>2 DEF Sole
  <2> QED BY <2>1, <2>2
<1> QED BY <1>1, <1>2, <1>4, <1>10, <1>12, <1>13

(* Nothing is done to s.                                                    *)
LEMMA SameKeeps ==
  ASSUME StrInv, NEW s \in Names, mString[s] # 0, Becomes(s, heap, mString[s], value[s])
  PROVE  StrInv'
<1>1. heap \in Seq(Buf) /\ mString \in [Names -> 0 .. Len(heap)] /\ value \in [Names -> Seq(Int)]
  BY DEF StrInv, Held
<1>2. heap' = heap /\ width' = width /\ text' = text /\ mString' = mString /\ value' = value
  BY <1>1 DEF Becomes
<1> QED BY <1>2 DEF StrInv, TextInv

LEMMA RealAppendKeeps ==
  ASSUME StrInv, NEW s \in Names, Works(s), NEW chars \in Seq(Int), RealAppend(s, chars)
  PROVE  StrInv'
<1>1. PICK r \in Buf : r = Grown(s, chars)
  BY GrownIs
<1>2. Built(r) /\ Sole(r, value[s] \o chars) /\ r.takers = heap[mString[s]].takers
  BY <1>1, GrownIs
<1>3. Held(heap, mString, value) /\ mString[s] # 0
  BY DEF StrInv, Works, NoString
<1>4. value[s] \in Seq(Int)
  BY <1>3 DEF Held
<1>5. PICK w \in Seq(Int) : w = value[s] \o chars
  <2>1. value[s] \o chars \in Seq(Int)
    BY <1>4
  <2> QED BY <2>1
<1>6. CASE Becomes(s, [heap EXCEPT ![mString[s]] = r], mString[s], w)
  <2>1. PICK k : k = [heap EXCEPT ![mString[s]] = r]
    OBVIOUS
  <2>2. Changed(heap, k, mString[s], r)
    BY <2>1 DEF Changed
  <2>3. Gives(heap, mString, s, k, mString[s], w)
    BY <1>2, <1>3, <1>5, <2>2, GivesChanged
  <2>4. Becomes(s, k, mString[s], w)
    BY <1>6, <2>1
  <2> QED BY <2>3, <2>4, BecomesHeld
<1>7. CASE Becomes(s, Append(release(heap, mString[s]), r), Len(heap) + 1, w)
  <2>1. Gives(heap, mString, s, Append(release(heap, mString[s]), r), Len(heap) + 1, w)
    BY <1>2, <1>3, <1>5, GivesMoved
  <2> QED BY <1>7, <2>1, BecomesHeld
<1>8. CASE Becomes(s, heap, mString[s], value[s])
  BY <1>3, <1>8, SameKeeps
<1> QED BY <1>1, <1>5, <1>6, <1>7, <1>8 DEF RealAppend

LEMMA SetToKeeps ==
  ASSUME StrInv, NEW s \in Names, NEW n \in DOMAIN text \cup {0}, NEW malloc, SetTo(s, n, malloc)
  PROVE  StrInv'
<1>1. text \in Seq(Int) /\ mString[s] # 0
  BY BytesAreInt DEF StrInv, TextInv, SetTo, Works, NoString
<1>2. n \in 0 .. Len(text)
  BY <1>1
<1>3. SubSeq(text, 1, n) \in Seq(Int)
  BY <1>1, <1>2
<1>4. Replace(s, SubSeq(text, 1, n), malloc)
  BY DEF SetTo
<1> QED BY <1>1, <1>3, <1>4, ReplaceKeeps

LEMMA AppendToKeeps ==
  ASSUME StrInv, NEW s \in Names, NEW malloc, AppendTo(s, malloc)
  PROVE  StrInv'
<1>1. text \in Seq(Int) /\ mString[s] # 0 /\ Works(s)
  BY BytesAreInt DEF StrInv, TextInv, AppendTo, Works, NoString
<1>2. CASE Replace(s, text, malloc)
  BY <1>1, <1>2, ReplaceKeeps
<1>3. CASE Becomes(s, heap, mString[s], value[s])
  BY <1>1, <1>3, SameKeeps
<1>4. CASE RealAppend(s, text)
  BY <1>1, <1>4, RealAppendKeeps
<1> QED BY <1>2, <1>3, <1>4 DEF AppendTo

LEMMA StrNextKeeps ==
  ASSUME StrInv, [StrNext]_strVars
  PROVE  StrInv'
<1>1. ASSUME NEW u \in Alphabet[width], Type(u) PROVE StrInv'
  BY <1>1, TypeKeeps
<1>2. ASSUME NEW s \in Names, Construct(s) \/ Forget(s) PROVE StrInv'
  BY <1>2, ConstructKeeps, ForgetKeeps
<1>3. ASSUME NEW s \in Names, NEW malloc \in BOOLEAN,
             ConstructChars(s, malloc) \/ ConstructWide(s, malloc) \/ AppendTo(s, malloc)
      PROVE  StrInv'
  BY <1>3, ConstructCharsKeeps, ConstructWideKeeps, AppendToKeeps
<1>4. ASSUME NEW s \in Names, NEW malloc \in BOOLEAN, NEW n \in DOMAIN text \cup {0}, SetTo(s, n, malloc)
      PROVE  StrInv'
  BY <1>4, SetToKeeps
<1>5. ASSUME NEW s \in Names, NEW t \in Names, Copy(s, t) PROVE StrInv'
  BY <1>5, CopyKeeps
<1>6. CASE UNCHANGED strVars
  BY <1>6 DEF strVars, StrInv, TextInv
<1> QED BY <1>1, <1>2, <1>3, <1>4, <1>5, <1>6 DEF StrNext

LEMMA StrInvHolds == StrSpec => []StrInv
<1>1. StrInit => StrInv
  BY InitHeld
<1>2. StrInv /\ [StrNext]_strVars => StrInv'
  BY StrNextKeeps
<1> QED BY <1>1, <1>2, PTL DEF StrSpec

(* A string whose buffer was only ever its own holds what it should, ends   *)
(* with a terminator and has the length it says, after any sequence of      *)
(* String8's operations and of failures of malloc and realloc, for any      *)
(* texts and any number of strings.                                         *)
THEOREM StringsHold == StrSpec => []StringHolds
<1>1. ASSUME StrInv PROVE StringHolds
  <2> SUFFICES ASSUME NEW s \in Names, mString[s] # NoString, heap[mString[s]].takers = 1
               PROVE  /\ heap[mString[s]].live /\ heap[mString[s]].data = value[s] \o << 0 >>
                      /\ heap[mString[s]].mSize = Len(heap[mString[s]].data)
    BY DEF StringHolds
  <2>1. PICK b \in 1 .. Len(heap) : b = mString[s]
    BY <1>1 DEF NoString, StrInv, Held
  <2>2. Built(heap[b]) /\ Sole(heap[b], value[s])
    BY <1>1, <2>1 DEF NoString, StrInv, Held
  <2>3. heap[b].takers = 1
    BY <2>1
  <2> QED BY <2>1, <2>2, <2>3 DEF Built, Sole
<1> QED BY <1>1, StrInvHolds, PTL

(* Any bytes, well-formed or not: utf8_to_utf16 gives as many units as      *)
(* utf8_to_utf16_length measured, never more than there is room for and no  *)
(* half of a pair, and neither, nor a walk with utf32_from_utf8_at over     *)
(* what utf8_length accepts, depends on what lies behind the bytes. For     *)
(* texts of any length.                                                     *)
THEOREM ConversionsFit == StrSpec => []ConversionFits
<1>1. ASSUME StrInv PROVE ConversionFits
  BY <1>1, FitsHolds DEF StrInv, TextInv
<1> QED BY <1>1, StrInvHolds, PTL

-----------------------------------------------------------------------------
(* Comparing and searching.                                                 *)

Compares(f, s, t, n) ==
  /\ f \in [1 .. (n + 1) -> Int] /\ f[n + 1] = 0
  /\ \A k \in 1 .. n :
       f[k] = IF Unit(s, k) - Unit(t, k) # 0 \/ Unit(s, k) = 0 THEN Unit(s, k) - Unit(t, k) ELSE f[k + 1]
  /\ strncmp16(s, t, n) = f[1]

LEMMA Compared ==
  ASSUME NEW s \in Seq(Nat), NEW t \in Seq(Nat), NEW n \in Nat
  PROVE  \E f : Compares(f, s, t, n)
<1> DEFINE d(k) == Unit(s, k) - Unit(t, k)
           Stop(k) == d(k) # 0 \/ Unit(s, k) = 0
           D == 1 .. (n + 1)
           from[k \in 1 .. (n + 1)] ==
             IF k > n THEN 0 ELSE IF Stop(k) THEN d(k) ELSE from[k + 1]
           next == [k \in 1 .. n |-> k + 1]
           step == [k \in 1 .. n |-> [r \in Int |-> IF Stop(k) THEN d(k) ELSE r]]
<1>1. \A k \in 1 .. n : d(k) \in Int
  <2> SUFFICES ASSUME NEW k \in 1 .. n PROVE d(k) \in Int
    OBVIOUS
  <2>1. k \in Nat \ {0}
    OBVIOUS
  <2>2. Unit(s, k) \in Nat /\ Unit(t, k) \in Nat
    BY <2>1, UnitIsNat
  <2> QED BY ONLY <2>2
<1>2. Forward(next, n)
  <2>1. \A k \in 1 .. n : k + 1 \in 1 .. (n + 1) /\ k + 1 > k
    OBVIOUS
  <2> QED BY <2>1 DEF Forward
<1>3. step \in [1 .. n -> [Int -> Int]] /\ 0 \in Int
  <2> HIDE DEF d, Stop
  <2> QED BY <1>1
<1>4. PICK f : Loops(f, n, Int, next, 0, step)
  <2> HIDE DEF next, step
  <2> QED BY <1>2, <1>3, LoopExists
<1>5. f \in [D -> Int] /\ f[n + 1] = 0 /\ \A k \in 1 .. n : f[k] = IF Stop(k) THEN d(k) ELSE f[k + 1]
  <2>1. f \in [D -> Int] /\ f[n + 1] = 0 /\ \A k \in 1 .. n : f[k] = step[k][f[next[k]]]
    BY <1>4 DEF Loops
  <2>2. \A k \in 1 .. n : next[k] = k + 1 /\ k + 1 \in D
    OBVIOUS
  <2>3. \A k \in 1 .. n : \A r \in Int : step[k][r] = IF Stop(k) THEN d(k) ELSE r
    <3> HIDE DEF d, Stop
    <3> QED OBVIOUS
  <2>4. \A k \in 1 .. n : f[k + 1] \in Int
    <3> HIDE DEF D
    <3> QED BY <2>1, <2>2
  <2>5. ASSUME NEW k \in 1 .. n PROVE f[k] = IF Stop(k) THEN d(k) ELSE f[k + 1]
    <3> HIDE DEF Stop, d, step, next, D
    <3>1. PICK r \in Int : r = f[k + 1]
      BY <2>4
    <3>2. f[k] = step[k][r]
      BY <2>1, <2>2, <3>1
    <3>3. step[k][r] = IF Stop(k) THEN d(k) ELSE r
      BY <2>3
    <3> QED BY <3>1, <3>2, <3>3
  <2> HIDE DEF Stop, d, step, next, D
  <2> QED BY <2>1, <2>5
<1>6. \A k \in D : f[k] = IF k > n THEN 0 ELSE IF Stop(k) THEN d(k) ELSE f[k + 1]
  <2>1. \A k \in D : (k > n => k = n + 1) /\ (~(k > n) => k \in 1 .. n)
    OBVIOUS
  <2> HIDE DEF Stop, d, D
  <2> QED BY <1>5, <2>1
<1>7. from = [k \in 1 .. (n + 1) |-> IF k > n THEN 0 ELSE IF Stop(k) THEN d(k) ELSE from[k + 1]]
  <2>1. f = [k \in 1 .. (n + 1) |-> IF k > n THEN 0 ELSE IF Stop(k) THEN d(k) ELSE f[k + 1]]
    <3> HIDE DEF Stop, d
    <3> QED BY <1>5, <1>6
  <2> HIDE DEF Stop, d
  <2> QED BY <2>1
<1>8. strncmp16(s, t, n) = from[1]
  BY DEF strncmp16
<1> HIDE DEF from
<1>9. \A k \in D : f[k] = from[k]
  <2>1. f[n + 1] = from[n + 1]
    <3>1. n + 1 \in 1 .. (n + 1) /\ n + 1 > n
      OBVIOUS
    <3> HIDE DEF Stop, d
    <3> QED BY <1>5, <1>7, <3>1
  <2>2. \A k \in 1 .. n : f[next[k]] = from[next[k]] => f[k] = from[k]
    <3>1. \A k \in 1 .. n : k \in 1 .. (n + 1) /\ ~(k > n) /\ next[k] = k + 1
      OBVIOUS
    <3>2. \A k \in 1 .. n : from[k] = IF Stop(k) THEN d(k) ELSE from[k + 1]
      <4> HIDE DEF Stop, d, next
      <4> QED BY <1>7, <3>1
    <3> HIDE DEF Stop, d, next
    <3> QED BY <1>5, <3>1, <3>2
  <2>3. Agree(f, from, n, next)
    BY <2>1, <2>2 DEF Agree
  <2> HIDE DEF next
  <2> QED BY <1>2, <2>3, LoopUnique
<1>10. strncmp16(s, t, n) = f[1]
  <2>1. 1 \in D
    OBVIOUS
  <2> HIDE DEF D
  <2> QED BY <1>8, <1>9, <2>1
<1> HIDE DEF from, next, step
<1> QED BY <1>5, <1>10 DEF Compares

(* Units that are the same, and no terminator, are passed over.             *)
Passed(s, t, k) == \A j \in 1 .. (k - 1) : Unit(s, j) = Unit(t, j) /\ Unit(s, j) # 0

LEMMA PassedOver ==
  ASSUME NEW s \in Seq(Nat), NEW t \in Seq(Nat), NEW n \in Nat, NEW k \in 1 .. (n + 1), Passed(s, t, k),
         NEW f, Compares(f, s, t, n)
  PROVE  f[1] = f[k]
<1> DEFINE S == {i \in 1 .. k : f[i] = f[k]}
<1>1. k \in Nat
  OBVIOUS
<1>2. ASSUME NEW i \in 1 .. k, \A j \in (i + 1) .. k : j \in S PROVE i \in S
  <2>1. CASE i = k
    BY <2>1
  <2>2. CASE i # k
    <3>1. i \in 1 .. (k - 1) /\ i \in 1 .. n /\ i + 1 \in (i + 1) .. k /\ i \in Nat \ {0}
      BY <2>2
    <3>2. f[i + 1] = f[k]
      BY <1>2, <3>1
    <3>3. Unit(s, i) = Unit(t, i) /\ Unit(s, i) # 0 /\ Unit(s, i) \in Nat
      BY <3>1, UnitIsNat DEF Passed
    <3>4. Unit(s, i) - Unit(t, i) = 0
      BY ONLY <3>3
    <3>5. f[i] = f[i + 1]
      BY <3>1, <3>3, <3>4 DEF Compares
    <3> QED BY <3>2, <3>5
  <2> QED BY <2>1, <2>2
<1>3. \A i \in 1 .. k : i \in S
  <2> HIDE DEF S
  <2> QED BY <1>1, <1>2, Downward
<1>4. 1 \in 1 .. k
  OBVIOUS
<1> QED BY <1>3, <1>4

(* The place up to which two texts are the same.                            *)
Shorter(s, t) == IF Len(s) < Len(t) THEN Len(s) ELSE Len(t)

FirstAt(s, t, k) ==
  /\ k \in 1 .. (Shorter(s, t) + 1)
  /\ \A j \in 1 .. (k - 1) : s[j] = t[j]
  /\ k <= Shorter(s, t) => s[k] # t[k]
  /\ strzcmp16(s, t) = Unit(s, k) - Unit(t, k)

LEMMA FirstExists ==
  ASSUME NEW s \in Seq(Nat), NEW t \in Seq(Nat)
  PROVE  \E k : FirstAt(s, t, k)
<1> DEFINE n == Shorter(s, t)
           differ == {k \in 1 .. n : s[k] # t[k]}
           k1 == CHOOSE k \in differ : \A j \in differ : k <= j
<1>1. n \in Nat /\ n <= Len(s) /\ n <= Len(t)
  <2>1. Len(s) \in Nat /\ Len(t) \in Nat
    OBVIOUS
  <2> QED BY <2>1 DEF Shorter
<1>2. strzcmp16(s, t) = IF differ # {} THEN s[k1] - t[k1] ELSE Unit(s, n + 1) - Unit(t, n + 1)
  BY DEF strzcmp16, Shorter
<1>3. CASE differ # {}
  <2>1. differ \subseteq Nat
    OBVIOUS
  <2>2. \E k \in differ : \A j \in differ : k <= j
    <3> HIDE DEF differ
    <3> QED BY <1>3, <2>1, Least
  <2>3. PICK k : k = k1 /\ k \in differ /\ \A j \in differ : k <= j
    <3> HIDE DEF differ
    <3> QED BY <2>2
  <2>4. strzcmp16(s, t) = s[k] - t[k]
    <3> HIDE DEF k1, differ, n
    <3> QED BY <1>2, <1>3, <2>3
  <2>5. k \in 1 .. n /\ s[k] # t[k] /\ k \in Nat
    BY <2>3
  <2>6. \A j \in 1 .. (k - 1) : s[j] = t[j]
    <3> SUFFICES ASSUME NEW j \in 1 .. (k - 1), s[j] # t[j] PROVE FALSE
      OBVIOUS
    <3>1. j \in 1 .. n /\ ~(k <= j)
      BY <1>1, <2>5
    <3> QED BY <2>3, <3>1
  <2>7. Unit(s, k) = s[k] /\ Unit(t, k) = t[k]
    <3>1. k <= Len(s) /\ k <= Len(t)
      BY <1>1, <2>5
    <3> QED BY <3>1 DEF Unit
  <2>8. k \in 1 .. (n + 1)
    BY <1>1, <2>5
  <2> HIDE DEF k1, differ
  <2> QED BY <2>4, <2>5, <2>6, <2>7, <2>8 DEF FirstAt
<1>4. CASE differ = {}
  <2>1. \A j \in 1 .. n : s[j] = t[j]
    BY <1>4
  <2>2. PICK k \in Nat : k = n + 1 /\ k \in 1 .. (n + 1) /\ k - 1 = n /\ ~(k <= n)
    <3> HIDE DEF n
    <3> QED BY <1>1
  <2>3. strzcmp16(s, t) = Unit(s, k) - Unit(t, k)
    <3> HIDE DEF k1, differ, n
    <3> QED BY <1>2, <1>4, <2>2
  <2> HIDE DEF k1, differ
  <2> QED BY <2>1, <2>2, <2>3 DEF FirstAt
<1> QED BY <1>3, <1>4

(* What stands at that place.                                               *)
LEMMA FirstCases ==
  ASSUME NEW s \in Seq(Nat), NEW t \in Seq(Nat), NEW k, FirstAt(s, t, k)
  PROVE  /\ k \in Nat \ {0} /\ k <= Len(s) + 1 /\ k <= Len(t) + 1
         /\ \/ k <= Len(s) /\ k <= Len(t) /\ Unit(s, k) = s[k] /\ Unit(t, k) = t[k] /\ s[k] # t[k]
            \/ k = Len(s) + 1 /\ k = Len(t) + 1 /\ Unit(s, k) = 0 /\ Unit(t, k) = 0
            \/ k = Len(s) + 1 /\ k <= Len(t) /\ Unit(s, k) = 0 /\ Unit(t, k) = t[k]
            \/ k <= Len(s) /\ k = Len(t) + 1 /\ Unit(s, k) = s[k] /\ Unit(t, k) = 0
<1>1. PICK a \in Nat, b \in Nat : a = Len(s) /\ b = Len(t)
  OBVIOUS
<1>2. PICK n \in Nat : n = Shorter(s, t) /\ n = IF a < b THEN a ELSE b
  BY <1>1 DEF Shorter
<1>3. k \in 1 .. (n + 1) /\ (k <= n => s[k] # t[k])
  BY <1>2 DEF FirstAt
<1>4. /\ k \in Nat \ {0} /\ k <= a + 1 /\ k <= b + 1
      /\ k <= n \/ k = n + 1
  BY ONLY <1>2, <1>3, a \in Nat, b \in Nat
<1>5. CASE k <= n
  <2>1. k <= a /\ k <= b
    BY ONLY <1>2, <1>3, <1>5, a \in Nat, b \in Nat
  <2> QED BY <1>1, <1>3, <1>4, <1>5, <2>1 DEF Unit
<1>6. CASE k = n + 1
  <2>1. \/ k = a + 1 /\ k = b + 1 /\ ~(k <= a) /\ ~(k <= b)
        \/ k = a + 1 /\ k <= b /\ ~(k <= a)
        \/ k <= a /\ k = b + 1 /\ ~(k <= b)
    BY ONLY <1>2, <1>6, a \in Nat, b \in Nat
  <2> QED BY <1>1, <1>4, <2>1 DEF Unit
<1> QED BY <1>4, <1>5, <1>6

(* The difference that strzcmp16 gives has the sign that dictionaries give. *)
LEMMA DifferenceIs ==
  ASSUME NEW s \in Seq(Nat), NEW t \in Seq(Nat), NEW d, d = strzcmp16(s, t)
  PROVE  /\ d \in Int
         /\ d = 0 <=> s = t \/ GoesOnWithNul(s, t) \/ GoesOnWithNul(t, s)
         /\ d # 0 => (d < 0 <=> Before(s, t))
<1>1. PICK k : FirstAt(s, t, k)
  BY FirstExists
<1>2. PICK a \in Nat, b \in Nat : a = Len(s) /\ b = Len(t)
  OBVIOUS
<1>3. k \in Nat \ {0} /\ k <= a + 1 /\ k <= b + 1
  BY <1>1, <1>2, FirstCases
<1>4. \/ k <= a /\ k <= b /\ Unit(s, k) = s[k] /\ Unit(t, k) = t[k] /\ s[k] # t[k]
      \/ k = a + 1 /\ k = b + 1 /\ Unit(s, k) = 0 /\ Unit(t, k) = 0
      \/ k = a + 1 /\ k <= b /\ Unit(s, k) = 0 /\ Unit(t, k) = t[k]
      \/ k <= a /\ k = b + 1 /\ Unit(s, k) = s[k] /\ Unit(t, k) = 0
  BY <1>1, <1>2, FirstCases
<1>5. /\ d = Unit(s, k) - Unit(t, k)
      /\ \A j \in 1 .. (k - 1) : s[j] = t[j]
  BY <1>1 DEF FirstAt
<1>6. PICK x \in Nat, y \in Nat : x = Unit(s, k) /\ y = Unit(t, k)
  BY <1>3, UnitIsNat
<1>7. d \in Int /\ d = x - y /\ (d = 0 <=> x = y) /\ (d < 0 <=> x < y)
  BY <1>5, <1>6
<1>8. ASSUME NEW n \in 0 .. a, n < b, \A j \in 1 .. n : s[j] = t[j], n = a \/ s[n + 1] < t[n + 1]
      PROVE  n + 1 >= k
  <2> SUFFICES ASSUME n + 1 < k PROVE FALSE
    BY <1>3
  <2>1. n + 1 \in 1 .. (k - 1) /\ n # a
    BY <1>2, <1>3, <1>8
  <2>2. n + 1 \in 1 .. Len(s)
    BY <1>2, <1>3, <2>1
  <2>3. s[n + 1] \in Nat /\ s[n + 1] = t[n + 1]
    BY <1>5, <2>1, <2>2
  <2> QED BY <1>8, <2>1, <2>3
<1>9. Before(s, t) <=> \E n \in 0 .. a : n < b /\ (\A j \in 1 .. n : s[j] = t[j])
                                         /\ (n = a \/ s[n + 1] < t[n + 1])
  BY <1>2 DEF Before
<1>10. CASE k <= a /\ k <= b /\ Unit(s, k) = s[k] /\ Unit(t, k) = t[k] /\ s[k] # t[k]
  <2>1. d # 0
    BY <1>6, <1>7, <1>10
  <2>2. s # t
    BY <1>10
  <2>3. ~GoesOnWithNul(s, t) /\ ~GoesOnWithNul(t, s)
    <3>1. k \in 1 .. Len(s) /\ k \in 1 .. Len(t)
      BY <1>2, <1>3, <1>10
    <3> QED BY <1>10, <3>1 DEF GoesOnWithNul
  <2>4. x < y => Before(s, t)
    <3> SUFFICES ASSUME x < y PROVE Before(s, t)
      OBVIOUS
    <3>1. PICK n \in 0 .. a : n = k - 1 /\ n < b /\ n + 1 = k
      BY <1>2, <1>3, <1>10
    <3>2. s[n + 1] < t[n + 1]
      BY <1>6, <1>10, <3>1
    <3>3. \A j \in 1 .. n : s[j] = t[j]
      BY <1>5, <3>1
    <3> QED BY <1>9, <3>1, <3>2, <3>3
  <2>5. Before(s, t) => x < y
    <3> SUFFICES ASSUME Before(s, t) PROVE x < y
      OBVIOUS
    <3>1. PICK n \in 0 .. a : n < b /\ (\A j \in 1 .. n : s[j] = t[j])
                              /\ (n = a \/ s[n + 1] < t[n + 1])
      BY <1>9
    <3>2. n + 1 >= k
      BY <1>8, <3>1
    <3>3. ~(k \in 1 .. n)
      BY <1>10, <3>1
    <3>4. n + 1 = k /\ n # a
      BY <1>3, <1>10, <3>2, <3>3
    <3> QED BY <1>6, <1>10, <3>1, <3>4
  <2> QED BY <1>7, <2>1, <2>2, <2>3, <2>4, <2>5
<1>11. CASE k = a + 1 /\ k = b + 1 /\ Unit(s, k) = 0 /\ Unit(t, k) = 0
  <2>1. d = 0
    BY <1>6, <1>7, <1>11
  <2>2. Len(s) = Len(t) /\ \A j \in 1 .. Len(s) : s[j] = t[j]
    <3>1. a = b /\ k - 1 = a
      BY <1>2, <1>11
    <3> QED BY <1>2, <1>5, <3>1
  <2>3. s = t
    BY <2>2, SeqEqual
  <2> QED BY <1>7, <2>1, <2>3
<1>12. CASE k = a + 1 /\ k <= b /\ Unit(s, k) = 0 /\ Unit(t, k) = t[k]
  <2>1. x = 0 /\ y = t[a + 1] /\ a < b /\ k - 1 = a
    BY <1>2, <1>6, <1>12
  <2>2. s # t /\ ~GoesOnWithNul(t, s)
    BY <1>2, <2>1 DEF GoesOnWithNul
  <2>3. GoesOnWithNul(s, t) <=> y = 0
    BY <1>2, <1>5, <2>1 DEF GoesOnWithNul
  <2>4. Before(s, t)
    <3>1. a \in 0 .. a
      OBVIOUS
    <3> QED BY <1>5, <1>9, <2>1, <3>1
  <2>5. y # 0 => x < y
    BY <2>1
  <2> QED BY <1>7, <2>1, <2>2, <2>3, <2>4, <2>5
<1>13. CASE k <= a /\ k = b + 1 /\ Unit(s, k) = s[k] /\ Unit(t, k) = 0
  <2>1. y = 0 /\ x = s[b + 1] /\ b < a /\ k - 1 = b
    BY <1>2, <1>6, <1>13
  <2>2. s # t /\ ~GoesOnWithNul(s, t)
    BY <1>2, <2>1 DEF GoesOnWithNul
  <2>3. GoesOnWithNul(t, s) <=> x = 0
    BY <1>2, <1>5, <2>1 DEF GoesOnWithNul
  <2>4. ~Before(s, t)
    <3> SUFFICES ASSUME Before(s, t) PROVE FALSE
      OBVIOUS
    <3>1. PICK n \in 0 .. a : n < b /\ (\A j \in 1 .. n : s[j] = t[j])
                              /\ (n = a \/ s[n + 1] < t[n + 1])
      BY <1>9
    <3>2. n + 1 >= k
      BY <1>8, <3>1
    <3> QED BY <1>13, <3>1, <3>2
  <2>5. ~(x < y)
    BY <2>1
  <2>6. x = 0 <=> x = y
    BY <2>1
  <2> QED BY <1>7, <2>2, <2>3, <2>4, <2>5, <2>6
<1> QED BY <1>4, <1>10, <1>11, <1>12, <1>13

(* Without a 0 in the texts, strcmp16 stops where strzcmp16 does.           *)
LEMMA SameDifference ==
  ASSUME NEW s \in Seq(Nat), NEW t \in Seq(Nat), NoNul(s), NoNul(t)
  PROVE  strcmp16(s, t) = strzcmp16(s, t)
<1>1. PICK k : FirstAt(s, t, k)
  BY FirstExists
<1>2. PICK n \in Nat : n = Len(s) + 1
  OBVIOUS
<1>3. PICK f : Compares(f, s, t, n)
  BY Compared
<1>4. k \in Nat \ {0} /\ k <= Len(s) + 1 /\ k <= Len(t) + 1
  BY <1>1, FirstCases
<1>5. Passed(s, t, k)
  <2> SUFFICES ASSUME NEW j \in 1 .. (k - 1) PROVE Unit(s, j) = Unit(t, j) /\ Unit(s, j) # 0
    BY DEF Passed
  <2>1. j \in 1 .. Len(s) /\ j \in 1 .. Len(t)
    BY <1>4
  <2>2. s[j] = t[j] /\ s[j] # 0
    BY <1>1, <2>1 DEF FirstAt, NoNul
  <2> QED BY <2>1, <2>2 DEF Unit
<1>6. k \in 1 .. n /\ k \in 1 .. (n + 1)
  BY <1>2, <1>4
<1>7. f[1] = f[k]
  BY <1>3, <1>5, <1>6, PassedOver
<1>8. PICK x \in Nat, y \in Nat : x = Unit(s, k) /\ y = Unit(t, k)
  BY <1>4, UnitIsNat
<1>9. x # y \/ x = 0
  <2>1. k <= Len(s) => k \in 1 .. Len(s)
    BY <1>4
  <2>2. k <= Len(s) => s[k] # 0
    BY <2>1 DEF NoNul
  <2>3. k <= Len(t) => k \in 1 .. Len(t)
    BY <1>4
  <2>4. k <= Len(t) => t[k] # 0
    BY <2>3 DEF NoNul
  <2> QED BY <1>1, <1>8, <2>2, <2>4, FirstCases
<1>10. x - y # 0 \/ x = 0
  BY ONLY <1>9, x \in Nat, y \in Nat
<1>11. f[k] = x - y
  BY <1>3, <1>6, <1>8, <1>10 DEF Compares
<1>12. strcmp16(s, t) = f[1]
  BY <1>2, <1>3 DEF strcmp16, Compares
<1> QED BY <1>1, <1>7, <1>8, <1>11, <1>12 DEF FirstAt

(* The comparison of n units finds them the same if they are.               *)
LEMMA EqualUnits ==
  ASSUME NEW s \in Seq(Nat), NEW t \in Seq(Nat), NoNul(t), NEW n \in Nat, n = Len(t)
  PROVE  strncmp16(s, t, n) = 0 <=> \A k \in 1 .. n : Unit(s, k) = t[k]
<1>1. PICK f : Compares(f, s, t, n)
  BY Compared
<1>2. \A k \in 1 .. n : Unit(t, k) = t[k] /\ t[k] # 0 /\ k \in Nat \ {0}
  BY DEF Unit, NoNul
<1>3. ASSUME \A k \in 1 .. n : Unit(s, k) = t[k] PROVE f[1] = 0
  <2>1. n + 1 \in 1 .. (n + 1) /\ (n + 1) - 1 = n
    OBVIOUS
  <2>2. Passed(s, t, n + 1)
    BY <1>2, <1>3, <2>1 DEF Passed
  <2>3. f[1] = f[n + 1]
    BY <1>1, <2>1, <2>2, PassedOver
  <2> QED BY <1>1, <2>3 DEF Compares
<1>4. ASSUME ~ \A k \in 1 .. n : Unit(s, k) = t[k] PROVE f[1] # 0
  <2> DEFINE S == {k \in 1 .. n : Unit(s, k) # t[k]}
  <2>1. S # {} /\ S \subseteq Nat
    BY <1>4, SMTT(20)
  <2>2. PICK k \in S : \A j \in S : k <= j
    <3> HIDE DEF S
    <3> QED BY <2>1, Least
  <2>3. k \in 1 .. n /\ Unit(s, k) # t[k] /\ k \in 1 .. (n + 1) /\ k \in Nat \ {0}
    OBVIOUS
  <2>4. Passed(s, t, k)
    <3> SUFFICES ASSUME NEW j \in 1 .. (k - 1) PROVE Unit(s, j) = Unit(t, j) /\ Unit(s, j) # 0
      BY DEF Passed
    <3>1. j \in 1 .. n /\ ~(k <= j)
      BY <2>3
    <3>2. Unit(s, j) = t[j]
      BY <2>2, <3>1
    <3> QED BY <1>2, <3>1, <3>2
  <2>5. f[1] = f[k]
    BY <1>1, <2>3, <2>4, PassedOver
  <2>6. PICK x \in Nat, y \in Nat : x = Unit(s, k) /\ y = Unit(t, k) /\ x # y
    BY <1>2, <2>3, UnitIsNat
  <2>7. x - y # 0
    BY ONLY <2>6, x \in Nat, y \in Nat
  <2>8. f[k] = x - y
    BY <1>1, <2>3, <2>6, <2>7 DEF Compares
  <2> QED BY <2>5, <2>7, <2>8
<1> QED BY <1>1, <1>3, <1>4 DEF Compares

LEMMA LengthIs ==
  ASSUME NEW s \in Seq(Nat), NoNul(s)
  PROVE  strlen(s) = Len(s)
<1>1. PICK n \in Nat : n = Len(s) /\ Len(s) + 1 - 1 = n
  OBVIOUS
<1> DEFINE nul == {k \in 0 .. n : Unit(s, k + 1) = 0}
<1>2. strlen(s) = IF nul = {} THEN Len(s) + 1 ELSE CHOOSE k \in nul : \A j \in nul : k <= j
  BY <1>1 DEF strlen, strnlen
<1>3. nul = {n}
  <2>1. ASSUME NEW k \in 0 .. n PROVE Unit(s, k + 1) = 0 <=> k = n
    <3>1. CASE k = n
      BY <1>1, <3>1 DEF Unit
    <3>2. CASE k # n
      <4>1. k + 1 \in 1 .. Len(s)
        BY <1>1, <3>2
      <4> QED BY <3>2, <4>1 DEF Unit, NoNul
    <3> QED BY <3>1, <3>2
  <2>2. n \in 0 .. n
    OBVIOUS
  <2> QED BY <2>1, <2>2
<1>4. (CHOOSE k \in {n} : \A j \in {n} : k <= j) = n
  OBVIOUS
<1> HIDE DEF nul
<1> QED BY <1>1, <1>2, <1>3, <1>4

(* The search goes from unit to unit and stops at the first match.          *)
Searches(f, s, t) ==
  /\ f \in [1 .. (Len(s) + 1) -> Nat] /\ f[Len(s) + 1] = 0
  /\ \A i \in 1 .. Len(s) : f[i] = IF i \in Places(s, t) THEN i ELSE f[i + 1]
  /\ strstr16(s, t) = f[1]

(* The code's match at i: the first unit, then all the others.              *)
Matches(s, t, i) ==
  s[i] = t[1] /\ strncmp16(SubSeq(s, i + 1, Len(s)), Tail(t), strlen(Tail(t))) = 0

LEMMA MatchIsPlace ==
  ASSUME NEW s \in Seq(Nat), NEW t \in Seq(Nat), NoNul(s), NoNul(t), t # <<>>, NEW i \in 1 .. Len(s)
  PROVE  Matches(s, t, i) <=> i \in Places(s, t)
<1>1. PICK n \in Nat, l \in Nat : n = Len(s) /\ l = Len(t) /\ l >= 1
  <2>1. Len(s) \in Nat /\ Len(t) \in Nat /\ Len(t) # 0
    OBVIOUS
  <2> QED BY <2>1
<1>2. PICK rest \in Seq(Nat) : rest = Tail(t) /\ Len(rest) = l - 1 /\ \A k \in 1 .. (l - 1) : rest[k] = t[k + 1]
  <2>1. Tail(t) \in Seq(Nat) /\ Len(Tail(t)) = Len(t) - 1 /\ \A k \in 1 .. (Len(t) - 1) : Tail(t)[k] = t[k + 1]
    BY HeadTailProperties
  <2> QED BY <1>1, <2>1
<1>3. NoNul(rest)
  <2> SUFFICES ASSUME NEW k \in 1 .. (l - 1) PROVE rest[k] # 0
    BY <1>2 DEF NoNul
  <2>1. k + 1 \in 1 .. Len(t)
    BY <1>1
  <2> QED BY <1>2, <2>1 DEF NoNul
<1>4. PICK after \in Seq(Nat) : /\ after = SubSeq(s, i + 1, n)
                                /\ \A k \in Nat \ {0} : Unit(after, k) = IF i + k <= n THEN s[i + k] ELSE 0
  <2>1. PICK u : u = SubSeq(s, i + 1, n)
    OBVIOUS
  <2>2. u \in Seq(Nat) /\ Len(u) = n - i /\ \A k \in 1 .. (n - i) : u[k] = s[i + k]
    <3>1. \A k \in (i + 1) .. n : s[k] \in Nat
      <4>1. \A k \in (i + 1) .. n : k \in 1 .. Len(s)
        BY <1>1
      <4> QED BY <4>1
    <3>2. PICK j \in Int : j = i + 1
      OBVIOUS
    <3>3. /\ u \in Seq(Nat) /\ Len(u) = (IF j <= n THEN n - j + 1 ELSE 0)
          /\ \A k \in 1 .. (n - j + 1) : u[k] = s[j + k - 1]
      BY <2>1, <3>1, <3>2, SubSeqProperties, SMTT(20)
    <3>4. n - j + 1 = n - i /\ (\A k \in 1 .. (n - i) : j + k - 1 = i + k) /\ (~(j <= n) => n - i = 0)
      BY <1>1, <3>2
    <3> QED BY <3>3, <3>4
  <2>3. ASSUME NEW k \in Nat \ {0} PROVE Unit(u, k) = IF i + k <= n THEN s[i + k] ELSE 0
    <3>1. k <= n - i <=> i + k <= n
      BY <1>1
    <3>2. k <= n - i => k \in 1 .. (n - i)
      BY <1>1
    <3> QED BY <2>2, <3>1, <3>2 DEF Unit
  <2> QED BY <2>1, <2>2, <2>3
<1>5. strlen(Tail(t)) = l - 1 /\ l - 1 \in Nat
  <2>1. strlen(rest) = Len(rest)
    BY <1>3, LengthIs
  <2>2. l - 1 \in Nat
    BY ONLY <1>1, l \in Nat
  <2> QED BY <1>2, <2>1, <2>2
<1>6. strncmp16(after, rest, l - 1) = 0 <=> \A k \in 1 .. (l - 1) : Unit(after, k) = rest[k]
  BY <1>2, <1>3, <1>5, EqualUnits
<1>7. Matches(s, t, i) <=> s[i] = t[1] /\ \A k \in 1 .. (l - 1) : Unit(after, k) = rest[k]
  BY <1>1, <1>2, <1>4, <1>5, <1>6 DEF Matches
<1>8. ASSUME i \in Places(s, t) PROVE Matches(s, t, i)
  <2>1. i <= n - l + 1 /\ \A k \in 1 .. l : s[i + k - 1] = t[k]
    BY <1>1, <1>8 DEF Places
  <2>2. s[i] = t[1]
    <3>1. 1 \in 1 .. l /\ i + 1 - 1 = i
      BY <1>1
    <3> QED BY <2>1, <3>1
  <2>3. ASSUME NEW k \in 1 .. (l - 1) PROVE Unit(after, k) = rest[k]
    <3>1. k + 1 \in 1 .. l /\ i + (k + 1) - 1 = i + k /\ i + k <= n /\ k \in Nat \ {0}
      BY <1>1, <2>1
    <3>2. s[i + k] = t[k + 1]
      BY <2>1, <3>1
    <3> QED BY <1>2, <1>4, <3>1, <3>2
  <2> QED BY <1>7, <2>2, <2>3
<1>9. ASSUME Matches(s, t, i) PROVE i \in Places(s, t)
  <2>1. ASSUME NEW k \in 1 .. (l - 1) PROVE i + k <= n /\ s[i + k] = t[k + 1]
    <3>1. Unit(after, k) = rest[k] /\ rest[k] = t[k + 1] /\ k \in Nat \ {0}
      BY <1>2, <1>7, <1>9
    <3>2. k + 1 \in 1 .. Len(t)
      BY <1>1
    <3>3. t[k + 1] # 0
      BY <3>2 DEF NoNul
    <3> QED BY <1>4, <3>1, <3>3
  <2>2. i <= n - l + 1
    <3>1. CASE l = 1
      BY <1>1, <3>1
    <3>2. CASE l # 1
      <4>1. l - 1 \in 1 .. (l - 1)
        BY <1>1, <3>2
      <4>2. i + (l - 1) <= n
        BY <2>1, <4>1
      <4> QED BY <1>1, <4>2
    <3> QED BY <3>1, <3>2
  <2>3. ASSUME NEW k \in 1 .. l PROVE s[i + k - 1] = t[k]
    <3>1. CASE k = 1
      BY <1>7, <1>9, <3>1
    <3>2. CASE k # 1
      <4>1. k - 1 \in 1 .. (l - 1) /\ (k - 1) + 1 = k /\ i + (k - 1) = i + k - 1
        BY <3>2
      <4> QED BY <2>1, <4>1
    <3> QED BY <3>1, <3>2
  <2>4. i \in 1 .. (Len(s) - Len(t) + 1)
    BY <1>1, <2>2
  <2> QED BY <1>1, <2>3, <2>4 DEF Places
<1> QED BY <1>8, <1>9

LEMMA Searched ==
  ASSUME NEW s \in Seq(Nat), NEW t \in Seq(Nat), NoNul(s), NoNul(t), t # <<>>
  PROVE  \E f : Searches(f, s, t)
<1> DEFINE needle == Unit(t, 1)
           rest == Tail(t)
           after(i) == SubSeq(s, i + 1, Len(s))
           Same(i) == strncmp16(after(i), rest, strlen(rest)) = 0
           Case(g, i) ==
             CASE Unit(s, i) = 0 -> 0
               [] Unit(s, i) # 0 /\ Unit(s, i) # needle -> g[i + 1]
               [] OTHER -> IF Same(i) THEN i ELSE g[i + 1]
           search[i \in 1 .. (Len(s) + 1)] ==
             CASE Unit(s, i) = 0 -> 0
               [] Unit(s, i) # 0 /\ Unit(s, i) # needle -> search[i + 1]
               [] OTHER -> IF Same(i) THEN i ELSE search[i + 1]
<1>1. PICK n \in Nat : n = Len(s)
  OBVIOUS
<1> DEFINE D == 1 .. (n + 1)
           P == Places(s, t)
           next == [i \in 1 .. n |-> i + 1]
           step == [i \in 1 .. n |-> [r \in Nat |-> IF i \in P THEN i ELSE r]]
<1>2. Forward(next, n)
  <2>1. \A i \in 1 .. n : i + 1 \in 1 .. (n + 1) /\ i + 1 > i
    OBVIOUS
  <2> QED BY <2>1 DEF Forward
<1>3. step \in [1 .. n -> [Nat -> Nat]] /\ 0 \in Nat
  <2> HIDE DEF P
  <2> QED OBVIOUS
<1>4. PICK f : Loops(f, n, Nat, next, 0, step)
  <2> HIDE DEF next, step
  <2> QED BY <1>2, <1>3, LoopExists
<1>5. f \in [D -> Nat] /\ f[n + 1] = 0 /\ \A i \in 1 .. n : f[i] = IF i \in P THEN i ELSE f[i + 1]
  <2>1. f \in [D -> Nat] /\ f[n + 1] = 0 /\ \A i \in 1 .. n : f[i] = step[i][f[next[i]]]
    BY <1>4 DEF Loops
  <2>2. \A i \in 1 .. n : next[i] = i + 1 /\ i + 1 \in D
    OBVIOUS
  <2>3. \A i \in 1 .. n : \A r \in Nat : step[i][r] = IF i \in P THEN i ELSE r
    <3> HIDE DEF P
    <3> QED OBVIOUS
  <2>4. \A i \in 1 .. n : f[i + 1] \in Nat
    <3> HIDE DEF D
    <3> QED BY <2>1, <2>2
  <2>5. ASSUME NEW i \in 1 .. n PROVE f[i] = IF i \in P THEN i ELSE f[i + 1]
    <3> HIDE DEF P, step, next, D
    <3>1. PICK r \in Nat : r = f[i + 1]
      BY <2>4
    <3>2. f[i] = step[i][r]
      BY <2>1, <2>2, <3>1
    <3>3. step[i][r] = IF i \in P THEN i ELSE r
      BY <2>3
    <3> QED BY <3>1, <3>2, <3>3
  <2> HIDE DEF P, step, next, D
  <2> QED BY <2>1, <2>5
<1>6. /\ Unit(s, n + 1) = 0
      /\ \A i \in 1 .. n : Unit(s, i) = s[i] /\ s[i] # 0
      /\ needle = t[1] /\ needle # 0
  <2>1. ~(n + 1 <= Len(s)) /\ \A i \in 1 .. n : i <= Len(s) /\ i \in 1 .. Len(s)
    BY <1>1
  <2>2. 1 \in 1 .. Len(t) /\ 1 <= Len(t)
    <3>1. Len(t) \in Nat /\ Len(t) # 0
      OBVIOUS
    <3> QED BY <3>1
  <2> QED BY <2>1, <2>2 DEF Unit, NoNul
<1>7. \A i \in 1 .. n : i \in P <=> s[i] = needle /\ Same(i)
  <2>1. \A i \in 1 .. n : Matches(s, t, i) <=> i \in P
    BY <1>1, MatchIsPlace
  <2> QED BY <1>6, <2>1 DEF Matches
<1>8. ASSUME NEW g PROVE /\ Case(g, n + 1) = 0
                         /\ \A i \in 1 .. n : Case(g, i) = IF i \in P THEN i ELSE g[i + 1]
  <2>1. Case(g, n + 1) = 0
    <3> HIDE DEF Same, needle
    <3> QED BY <1>6
  <2>2. ASSUME NEW i \in 1 .. n PROVE Case(g, i) = IF i \in P THEN i ELSE g[i + 1]
    <3>1. Unit(s, i) # 0 /\ (i \in P <=> Unit(s, i) = needle /\ Same(i))
      BY <1>6, <1>7
    <3> HIDE DEF Same, needle, P
    <3> QED BY <3>1
  <2> HIDE DEF Case, P
  <2> QED BY <2>1, <2>2
<1>9. \A i \in D : i = n + 1 \/ i \in 1 .. n
  OBVIOUS
<1>10. search = [i \in 1 .. (Len(s) + 1) |-> Case(search, i)]
  <2>1. \A i \in D : f[i] = Case(f, i)
    <3> HIDE DEF Case, P, D
    <3> QED BY <1>5, <1>8, <1>9
  <2>2. f = [i \in 1 .. (Len(s) + 1) |-> Case(f, i)]
    <3> HIDE DEF Case
    <3> QED BY <1>1, <1>5, <2>1
  <2> HIDE DEF Same, needle
  <2> QED BY <2>2
<1>11. strstr16(s, t) = search[1]
  BY <1>6 DEF strstr16
<1> HIDE DEF search
<1>12. \A i \in D : f[i] = search[i]
  <2>1. \A i \in D : search[i] = Case(search, i)
    <3> HIDE DEF Case
    <3> QED BY <1>1, <1>10
  <2>2. n + 1 \in D /\ \A i \in 1 .. n : i \in D /\ next[i] = i + 1
    OBVIOUS
  <2>3. f[n + 1] = search[n + 1]
    <3> HIDE DEF Case, D
    <3> QED BY <1>5, <1>8, <2>1, <2>2
  <2>4. \A i \in 1 .. n : f[next[i]] = search[next[i]] => f[i] = search[i]
    <3> HIDE DEF Case, D, P, next
    <3> QED BY <1>5, <1>8, <2>1, <2>2
  <2>5. Agree(f, search, n, next)
    BY <2>3, <2>4 DEF Agree
  <2> HIDE DEF next
  <2> QED BY <1>2, <2>5, LoopUnique
<1>13. strstr16(s, t) = f[1]
  <2>1. 1 \in D
    OBVIOUS
  <2> HIDE DEF D
  <2> QED BY <1>11, <1>12, <2>1
<1> HIDE DEF next, step
<1> QED BY <1>1, <1>5, <1>13 DEF Searches

(* strstr16 gives the least of the places where the target stands.          *)
LEMMA FoundFirst ==
  ASSUME NEW s \in Seq(Nat), NEW t \in Seq(Nat), NoNul(s), NoNul(t)
  PROVE  strstr16(s, t) = IF t = <<>> THEN 1 ELSE IF Places(s, t) = {} THEN 0
                          ELSE CHOOSE i \in Places(s, t) : \A j \in Places(s, t) : i <= j
<1>1. CASE t = <<>>
  <2>1. Unit(t, 1) = 0
    BY <1>1 DEF Unit
  <2> QED BY <1>1, <2>1 DEF strstr16
<1>2. CASE t # <<>>
  <2>1. PICK f : Searches(f, s, t)
    BY <1>2, Searched
  <2>2. PICK n \in Nat : n = Len(s)
    OBVIOUS
  <2> DEFINE P == Places(s, t)
  <2>3. /\ f[n + 1] = 0 /\ strstr16(s, t) = f[1]
        /\ \A i \in 1 .. n : f[i] = IF i \in P THEN i ELSE f[i + 1]
    BY <2>1, <2>2 DEF Searches
  <2> HIDE DEF P
  <2>4. P \subseteq 1 .. n
    <3>1. PICK l \in Nat : l = Len(t) /\ l # 0
      BY <1>2
    <3>2. n - l + 1 <= n /\ n - l + 1 \in Int
      BY ONLY <3>1, n \in Nat, l \in Nat
    <3>3. 1 .. (n - l + 1) \subseteq 1 .. n
      BY ONLY <3>2, n \in Nat
    <3> QED BY <2>2, <3>1, <3>3 DEF P, Places
  <2>5. ASSUME NEW m \in 1 .. (n + 1), \A j \in 1 .. (m - 1) : j \notin P PROVE f[1] = f[m]
    <3> DEFINE S == {i \in 1 .. m : f[i] = f[m]}
    <3>1. ASSUME NEW i \in 1 .. m, \A j \in (i + 1) .. m : j \in S PROVE i \in S
      <4>1. CASE i = m
        BY <4>1
      <4>2. CASE i # m
        <5>1. i \in 1 .. (m - 1) /\ i \in 1 .. n /\ i + 1 \in (i + 1) .. m
          BY <4>2
        <5>2. f[i] = f[i + 1] /\ f[i + 1] = f[m]
          BY <2>3, <2>5, <3>1, <5>1
        <5> QED BY <5>2
      <4> QED BY <4>1, <4>2
    <3>2. m \in Nat /\ 1 \in 1 .. m
      OBVIOUS
    <3>3. \A i \in 1 .. m : i \in S
      <4> HIDE DEF S
      <4> QED BY <3>1, <3>2, Downward
    <3> QED BY <3>2, <3>3
  <2>6. CASE P = {}
    <3>1. n + 1 \in 1 .. (n + 1)
      OBVIOUS
    <3>2. f[1] = f[n + 1]
      BY <2>5, <2>6, <3>1
    <3> QED BY <1>2, <2>2, <2>3, <2>6, <3>2 DEF P
  <2>7. CASE P # {}
    <3>1. P \subseteq Nat
      BY <2>4
    <3>2. \E i \in P : \A j \in P : i <= j
      BY <2>7, <3>1, Least
    <3>3. PICK p : p = (CHOOSE i \in P : \A j \in P : i <= j)
      OBVIOUS
    <3>4. p \in P /\ \A j \in P : p <= j
      BY <3>2, <3>3
    <3>5. p \in 1 .. n /\ p \in 1 .. (n + 1)
      BY <2>4, <3>4
    <3>6. \A j \in 1 .. (p - 1) : j \notin P
      <4> SUFFICES ASSUME NEW j \in 1 .. (p - 1), j \in P PROVE FALSE
        OBVIOUS
      <4>1. ~(p <= j)
        BY <3>5
      <4> QED BY <3>4, <4>1
    <3>7. f[1] = f[p] /\ f[p] = p
      BY <2>3, <2>5, <3>4, <3>5, <3>6
    <3> QED BY <1>2, <2>2, <2>3, <2>7, <3>3, <3>7 DEF P
  <2> QED BY <2>6, <2>7
<1> QED BY <1>1, <1>2

(* strstr16 finds the first occurrence of the target; strzcmp16 orders      *)
(* texts as dictionaries do and tells texts apart of which neither goes on  *)
(* with a 0 where the other ends (Unicode.cpp:307-324), and strcmp16 does   *)
(* the same for texts without a 0. For texts of any length.                 *)
THEOREM SearchFindsFirst == StrSpec => []SearchIsFirst
<1>1. ASSUME StrInv PROVE SearchIsFirst
  <2> SUFFICES ASSUME width = 16, NEW target \in BoundedSeq(Alphabet[16], 2)
               PROVE  /\ NoNul(text) /\ NoNul(target) =>
                           /\ strstr16(text, target) =
                                IF target = <<>> THEN 1 ELSE IF Places(text, target) = {} THEN 0
                                ELSE CHOOSE i \in Places(text, target) : \A j \in Places(text, target) : i <= j
                           /\ strcmp16(text, target) = strzcmp16(text, target)
                      /\ ~GoesOnWithNul(text, target) /\ ~GoesOnWithNul(target, text) =>
                           (strzcmp16(text, target) = 0 <=> text = target)
                      /\ strzcmp16(text, target) # 0 => (strzcmp16(text, target) < 0 <=> Before(text, target))
    BY DEF SearchIsFirst
  <2>1. text \in Seq(Nat)
    BY <1>1 DEF StrInv, TextInv
  <2>2. target \in Seq(Nat)
    <3>1. Alphabet[16] \subseteq Nat
      <4>1. 0 .. (Plane - 1) \subseteq Nat
        BY SMTT(15) DEF Plane
      <4> QED BY <4>1, AlphabetAssumption
    <3>2. target \in Seq(Alphabet[16])
      <4>1. PICK m \in 0 .. 2 : target \in [1 .. m -> Alphabet[16]]
        BY DEF BoundedSeq, SeqOf
      <4> QED BY <4>1
    <3> QED BY <3>1, <3>2, SeqMonotonic
  <2>3. PICK s \in Seq(Nat), t \in Seq(Nat) : s = text /\ t = target
    BY <2>1, <2>2
  <2> QED BY <2>3, FoundFirst, SameDifference, DifferenceIs
<1> QED BY <1>1, StrInvHolds, PTL

-----------------------------------------------------------------------------
(* What is encoded is decoded again.                                        *)

(* A code point is its six bits and what stands before them.                *)
LEMMA SixBits ==
  ASSUME NEW c \in Nat
  PROVE  /\ c % 64 \in 0 .. 63 /\ c \div 64 \in Nat /\ c = (c \div 64) * 64 + (c % 64)
         /\ c \div 4096 \in Nat /\ c \div 4096 = (c \div 64) \div 64
         /\ c \div (64 * 4096) \in Nat /\ c \div (64 * 4096) = (c \div 4096) \div 64
<1>1. c \div 4096 = (c \div 64) \div 64
  BY SMTT(30)
<1>2. c \div (64 * 4096) = (c \div 4096) \div 64
  BY SMTT(30)
<1>3. c % 64 \in 0 .. 63 /\ c \div 64 \in Nat /\ c = (c \div 64) * 64 + (c % 64)
  BY SMTT(30)
<1>4. \A q \in Nat : q \div 64 \in Nat
  BY SMTT(30)
<1> QED BY <1>1, <1>2, <1>3, <1>4

(* The first byte b of n, and the six bits of the others.                   *)
Composed(c, n, b, x, y, z) ==
  \/ n = 1 /\ b \in 0 .. 127 /\ c = b
  \/ n = 2 /\ b \in 192 .. 223 /\ c = (b % 32) * 64 + x /\ c >= 128
  \/ n = 3 /\ b \in 224 .. 239 /\ c = ((b % 16) * 64 + x) * 64 + y /\ c >= 128
  \/ n = 4 /\ b \in 240 .. 247 /\ c = (((b % 8) * 64 + x) * 64 + y) * 64 + z /\ c >= 128

LEMMA FirstByte ==
  /\ \A q \in 0 .. 31 : q + 192 \in 192 .. 223 /\ (q + 192) % 32 = q
  /\ \A q \in 0 .. 15 : q + 224 \in 224 .. 239 /\ (q + 224) % 16 = q
  /\ \A q \in 0 .. 7 : q + 240 \in 240 .. 247 /\ (q + 240) % 8 = q
  BY SMTT(30)

(* The bytes e of a code point, and what they are composed of.              *)
Composes(c, e, n, x, y, z) ==
  /\ Len(e) = n /\ Composed(c, n, e[1], x, y, z)
  /\ n >= 2 => e[2] = 128 + x
  /\ n >= 3 => e[3] = 128 + y
  /\ n >= 4 => e[4] = 128 + z

LEMMA EncodedComposes ==
  ASSUME NEW c \in Nat, Valid(c)
  PROVE  \E n \in 1 .. 4, x \in 0 .. 63, y \in 0 .. 63, z \in 0 .. 63 : Composes(c, Encoded(c), n, x, y, z)
<1>1. PICK n, e : n = utf32_codepoint_utf8_length(c) /\ e = Encoded(c)
  OBVIOUS
<1>2. n \in 1 .. 4 /\ Spelling(c, n, e) /\ Len(e) = n
  <2>1. n \in 0 .. 4 /\ n # 0 /\ Spelling(c, n, e)
    BY <1>1, EncodedIs
  <2>2. Len(e) = n
    BY <1>1, EncodedBytes
  <2> QED BY <2>1, <2>2
<1>3. PICK z \in 0 .. 63, q1 \in Nat : z = c % 64 /\ q1 = c \div 64 /\ c = q1 * 64 + z
  BY SixBits
<1>4. PICK y \in 0 .. 63, q2 \in Nat : y = q1 % 64 /\ q2 = c \div 4096 /\ q1 = q2 * 64 + y
  <2>1. q1 % 64 \in 0 .. 63 /\ q1 \div 64 \in Nat /\ q1 = (q1 \div 64) * 64 + (q1 % 64)
    BY SixBits
  <2>2. c \div 4096 = q1 \div 64
    BY <1>3, SixBits
  <2> QED BY <2>1, <2>2
<1>5. PICK x \in 0 .. 63, q3 \in Nat : x = q2 % 64 /\ q3 = c \div (64 * 4096) /\ q2 = q3 * 64 + x
  <2>1. q2 % 64 \in 0 .. 63 /\ q2 \div 64 \in Nat /\ q2 = (q2 \div 64) * 64 + (q2 % 64)
    BY SixBits
  <2>2. c \div (64 * 4096) = q2 \div 64
    BY <1>4, SixBits
  <2> QED BY <2>1, <2>2
<1>6. CASE n = 1
  <2>1. c < 128 /\ e = <<c>>
    BY <1>2, <1>6 DEF Spelling
  <2>2. e[1] = c /\ c \in 0 .. 127
    BY <2>1
  <2>3. Composes(c, e, n, x, y, z)
    BY <1>2, <1>6, <2>2 DEF Composes, Composed
  <2> QED BY <1>1, <1>2, <2>3
<1>7. CASE n = 2
  <2>1. c \in 128 .. 2047 /\ e = <<q1 + 192, 128 + z>>
    BY <1>2, <1>3, <1>7, SMTT(20) DEF Spelling
  <2>2. q1 \in 0 .. 31 /\ c >= 128
    BY <1>3, <2>1
  <2>3. q1 + 192 \in 192 .. 223 /\ (q1 + 192) % 32 = q1
    BY <2>2, FirstByte
  <2>4. PICK b : b = q1 + 192
    OBVIOUS
  <2>5. b \in 192 .. 223 /\ c = (b % 32) * 64 + z
    BY <1>3, <2>3, <2>4
  <2>6. e[1] = b /\ e[2] = 128 + z
    BY <2>1, <2>4
  <2>7. Composed(c, n, b, z, y, z)
    BY <1>7, <2>2, <2>5 DEF Composed
  <2>8. Composes(c, e, n, z, y, z)
    BY <1>2, <1>7, <2>6, <2>7 DEF Composes
  <2> QED BY <1>1, <1>2, <2>8
<1>8. CASE n = 3
  <2>1. c >= 2048 /\ c < Plane /\ e = <<q2 + 224, 128 + y, 128 + z>>
    BY <1>2, <1>3, <1>4, <1>8 DEF Spelling
  <2>2. q2 \in 0 .. 15 /\ c >= 128
    <3>1. c < 65536
      BY <2>1 DEF Plane
    <3>2. c = (q2 * 64 + y) * 64 + z
      BY <1>3, <1>4
    <3> QED BY <2>1, <3>1, <3>2, SMTT(30)
  <2>3. q2 + 224 \in 224 .. 239 /\ (q2 + 224) % 16 = q2
    BY <2>2, FirstByte
  <2>4. PICK b : b = q2 + 224
    OBVIOUS
  <2>5. b \in 224 .. 239 /\ c = ((b % 16) * 64 + y) * 64 + z
    BY <1>3, <1>4, <2>3, <2>4
  <2>6. e[1] = b /\ e[2] = 128 + y /\ e[3] = 128 + z
    BY <2>1, <2>4
  <2>7. Composed(c, n, b, y, z, z)
    BY <1>8, <2>2, <2>5 DEF Composed
  <2>8. Composes(c, e, n, y, z, z)
    BY <1>2, <1>8, <2>6, <2>7 DEF Composes
  <2> QED BY <1>1, <1>2, <2>8
<1>9. CASE n = 4
  <2>1. c >= Plane /\ c <= kUnicodeMaxCodepoint /\ e = <<q3 + 240, 128 + x, 128 + y, 128 + z>>
    <3>1. /\ c >= Plane /\ c <= kUnicodeMaxCodepoint
          /\ e = <<(c \div (64 * 4096)) + 240, 128 + ((c \div 4096) % 64),
                   128 + ((c \div 64) % 64), 128 + (c % 64)>>
      BY <1>2, <1>9 DEF Spelling
    <3>2. c \div (64 * 4096) = q3 /\ (c \div 4096) % 64 = x /\ (c \div 64) % 64 = y /\ c % 64 = z
      BY <1>3, <1>4, <1>5
    <3> QED BY <3>1, <3>2
  <2>2. q3 \in 0 .. 7 /\ c >= 128
    <3>1. c < 2048 * 1024 /\ c >= 128
      BY <2>1, SMTT(30) DEF Plane, kUnicodeMaxCodepoint
    <3>2. c = ((q3 * 64 + x) * 64 + y) * 64 + z
      BY <1>3, <1>4, <1>5
    <3> QED BY <3>1, <3>2, SMTT(30)
  <2>3. q3 + 240 \in 240 .. 247 /\ (q3 + 240) % 8 = q3
    BY <2>2, FirstByte
  <2>4. PICK b : b = q3 + 240
    OBVIOUS
  <2>5. b \in 240 .. 247 /\ c = (((b % 8) * 64 + x) * 64 + y) * 64 + z
    BY <1>3, <1>4, <1>5, <2>3, <2>4
  <2>6. e[1] = b /\ e[2] = 128 + x /\ e[3] = 128 + y /\ e[4] = 128 + z
    BY <2>1, <2>4
  <2>7. Composed(c, n, b, x, y, z)
    BY <1>9, <2>2, <2>5 DEF Composed
  <2>8. Composes(c, e, n, x, y, z)
    BY <1>2, <1>9, <2>6, <2>7 DEF Composes
  <2> QED BY <1>1, <1>2, <2>8
<1>10. n = 1 \/ n = 2 \/ n = 3 \/ n = 4
  BY <1>2
<1> QED BY <1>6, <1>7, <1>8, <1>9, <1>10

(* The text e stands in src at i.                                           *)
Stands(e, src, i) == i + Len(e) - 1 <= Len(src) /\ \A k \in 1 .. Len(e) : src[i + k - 1] = e[k]

(* The decoders at i read c, that takes n bytes.                            *)
Reads(src, i, c, n) ==
  /\ i \in 1 .. Len(src) /\ n \in 1 .. 4 /\ i + n - 1 <= Len(src)
  /\ Len8(src, i) = n /\ Point8(src, i) = c
  /\ src[i] < 128 <=> c < 128
  /\ c < 128 => src[i] = c
  /\ LeadingOnes(src[i]) = IF c < 128 THEN 0 ELSE n
  /\ c < 128 => n = 1
  /\ c >= 128 => /\ n >= 2 /\ src[i] >= 192
                 /\ ShiftedIn(FirstBits(src[i], n), src, i + 1, i + n - 1) = c
                 /\ \A k \in 1 .. (n - 1) : Unit(src, i + k) \in 128 .. 191

LEMMA LeadingOf ==
  ASSUME NEW b \in Bytes
  PROVE  /\ b < 128 => LeadingOnes(b) = 0
         /\ b \in 192 .. 223 => LeadingOnes(b) = 2
         /\ b \in 224 .. 239 => LeadingOnes(b) = 3
         /\ b \in 240 .. 247 => LeadingOnes(b) = 4
  BY DEF LeadingOnes, Bytes

LEMMA Decoded ==
  ASSUME NEW c \in Nat, Valid(c), NEW src \in Seq(Bytes), NEW i \in Nat \ {0},
         Stands(Encoded(c), src, i)
  PROVE  Reads(src, i, c, Len(Encoded(c)))
<1>1. PICK n \in 1 .. 4, x \in 0 .. 63, y \in 0 .. 63, z \in 0 .. 63 : Composes(c, Encoded(c), n, x, y, z)
  BY EncodedComposes
<1>2. PICK e : e = Encoded(c)
  OBVIOUS
<1>3. Len(e) = n /\ Composed(c, n, e[1], x, y, z)
  BY <1>1, <1>2 DEF Composes
<1>4. i + n - 1 <= Len(src) /\ \A k \in 1 .. n : src[i + k - 1] = e[k]
  BY <1>2, <1>3 DEF Stands
<1>5. Len(src) \in Nat
  OBVIOUS
<1>6. i \in 1 .. Len(src) /\ \A k \in 0 .. (n - 1) : i + k <= Len(src)
  BY ONLY <1>4, <1>5, i \in Nat \ {0}, n \in 1 .. 4
<1>7. \A k \in 0 .. (n - 1) : Unit(src, i + k) = e[k + 1]
  <2> SUFFICES ASSUME NEW k \in 0 .. (n - 1) PROVE Unit(src, i + k) = e[k + 1]
    OBVIOUS
  <2>1. k + 1 \in 1 .. n /\ i + (k + 1) - 1 = i + k
    BY ONLY k \in 0 .. (n - 1), n \in 1 .. 4, i \in Nat \ {0}
  <2> QED BY <1>4, <1>6, <2>1 DEF Unit
<1>8. PICK b \in Bytes : b = src[i] /\ b = e[1]
  <2>1. 1 \in 1 .. n /\ i + 1 - 1 = i
    BY ONLY n \in 1 .. 4, i \in Nat \ {0}
  <2>2. src[i] = e[1]
    BY <1>4, <2>1
  <2> QED BY <1>6, <2>2
<1>9. \A w \in 0 .. 63 : Low6(128 + w) = w /\ 128 + w \in 128 .. 191
  BY DEF Low6
<1>10. /\ n >= 2 => Unit(src, i + 1) = 128 + x /\ Low6(Unit(src, i + 1)) = x /\ Unit(src, i + 1) \in 128 .. 191
       /\ n >= 3 => Unit(src, i + 2) = 128 + y /\ Low6(Unit(src, i + 2)) = y /\ Unit(src, i + 2) \in 128 .. 191
       /\ n >= 4 => Unit(src, i + 3) = 128 + z /\ Low6(Unit(src, i + 3)) = z /\ Unit(src, i + 3) \in 128 .. 191
  <2>1. n >= 2 => Unit(src, i + 1) = e[2] /\ e[2] = 128 + x
    BY <1>1, <1>2, <1>7 DEF Composes
  <2>2. n >= 3 => Unit(src, i + 2) = e[3] /\ e[3] = 128 + y
    BY <1>1, <1>2, <1>7 DEF Composes
  <2>3. n >= 4 => Unit(src, i + 3) = e[4] /\ e[4] = 128 + z
    BY <1>1, <1>2, <1>7 DEF Composes
  <2>4. n >= 2 => Low6(Unit(src, i + 1)) = x /\ Unit(src, i + 1) \in 128 .. 191
    <3> SUFFICES ASSUME n >= 2 PROVE Low6(Unit(src, i + 1)) = x /\ Unit(src, i + 1) \in 128 .. 191
      OBVIOUS
    <3>1. Low6(128 + x) = x /\ 128 + x \in 128 .. 191
      BY ONLY <1>9, x \in 0 .. 63
    <3>2. Unit(src, i + 1) = 128 + x
      BY ONLY <2>1, n >= 2
    <3> QED BY ONLY <3>1, <3>2
  <2>5. n >= 3 => Low6(Unit(src, i + 2)) = y /\ Unit(src, i + 2) \in 128 .. 191
    <3> SUFFICES ASSUME n >= 3 PROVE Low6(Unit(src, i + 2)) = y /\ Unit(src, i + 2) \in 128 .. 191
      OBVIOUS
    <3>1. Low6(128 + y) = y /\ 128 + y \in 128 .. 191
      BY ONLY <1>9, y \in 0 .. 63
    <3>2. Unit(src, i + 2) = 128 + y
      BY ONLY <2>2, n >= 3
    <3> QED BY ONLY <3>1, <3>2
  <2>6. n >= 4 => Low6(Unit(src, i + 3)) = z /\ Unit(src, i + 3) \in 128 .. 191
    <3> SUFFICES ASSUME n >= 4 PROVE Low6(Unit(src, i + 3)) = z /\ Unit(src, i + 3) \in 128 .. 191
      OBVIOUS
    <3>1. Low6(128 + z) = z /\ 128 + z \in 128 .. 191
      BY ONLY <1>9, z \in 0 .. 63
    <3>2. Unit(src, i + 3) = 128 + z
      BY ONLY <2>3, n >= 4
    <3> QED BY ONLY <3>1, <3>2
  <2> QED BY ONLY <2>1, <2>2, <2>3, <2>4, <2>5, <2>6
<1>11. PICK l, p, u, v, w : /\ l = Len8(src, i) /\ p = Point8(src, i)
                            /\ u = Low6(Unit(src, i + 1)) /\ v = Low6(Unit(src, i + 2)) /\ w = Low6(Unit(src, i + 3))
  OBVIOUS
<1>12. Spells(l, p, b, u, v, w)
  BY <1>6, <1>8, <1>11, Spelled
<1>13. Composed(c, n, b, x, y, z) /\ (n >= 2 => u = x) /\ (n >= 3 => v = y) /\ (n >= 4 => w = z)
  BY <1>3, <1>8, <1>10, <1>11
<1>14. l = n /\ p = c
  <2>1. b \in 0 .. 255 /\ n \in 1 .. 4
    BY DEF Bytes
  <2>2. CASE n = 1
    BY ONLY <1>12, <1>13, <2>1, <2>2 DEF Spells, Composed
  <2>3. CASE n = 2
    BY ONLY <1>12, <1>13, <2>1, <2>3 DEF Spells, Composed
  <2>4. CASE n = 3
    BY ONLY <1>12, <1>13, <2>1, <2>4 DEF Spells, Composed
  <2>5. CASE n = 4
    BY ONLY <1>12, <1>13, <2>1, <2>5 DEF Spells, Composed
  <2> QED BY <2>1, <2>2, <2>3, <2>4, <2>5
<1>15. \/ n = 1 /\ b < 128 /\ c < 128 /\ b = c /\ LeadingOnes(b) = 0
       \/ n >= 2 /\ b >= 192 /\ ~(b < 128) /\ c >= 128 /\ ~(c < 128) /\ LeadingOnes(b) = n
  <2>1. b \in 0 .. 255
    BY DEF Bytes
  <2>2. CASE n = 1
    BY <1>13, <2>1, <2>2, LeadingOf DEF Composed
  <2>3. CASE n = 2
    BY <1>13, <2>1, <2>3, LeadingOf DEF Composed
  <2>4. CASE n = 3
    BY <1>13, <2>1, <2>4, LeadingOf DEF Composed
  <2>5. CASE n = 4
    BY <1>13, <2>1, <2>5, LeadingOf DEF Composed
  <2> QED BY <2>2, <2>3, <2>4, <2>5
<1>16. n >= 2 => ShiftedIn(FirstBits(src[i], n), src, i + 1, i + n - 1) = c
  <2>1. n >= 2 => n # 1
    OBVIOUS
  <2>2. n >= 2 => Point8(src, i) = ShiftedIn(FirstBits(src[i], n), src, i + 1, i + n - 1)
    BY <1>11, <1>14, <2>1 DEF Point8, utf8_to_utf32_codepoint
  <2> QED BY <1>11, <1>14, <2>2
<1>17. \A k \in 1 .. (n - 1) : Unit(src, i + k) \in 128 .. 191
  <2>1. \A k \in 1 .. (n - 1) : (k = 1 /\ n >= 2) \/ (k = 2 /\ n >= 3) \/ (k = 3 /\ n >= 4)
    BY ONLY n \in 1 .. 4
  <2> QED BY <1>10, <2>1
<1>18. Reads(src, i, c, n)
  BY <1>4, <1>6, <1>8, <1>11, <1>14, <1>15, <1>16, <1>17 DEF Reads
<1> QED BY <1>2, <1>3, <1>18

(* A code point of two units: ten bits each.                                *)
Ten == 0 .. 1023

TenBits(c, h, l) == c = 64 * 1024 + h * 1024 + l

HighUnit(h) == 54 * 1024 + h
LowUnit(l)  == 55 * 1024 + l

LEMMA TenBitsOf ==
  ASSUME NEW c \in Nat, c >= Plane, c <= kUnicodeMaxCodepoint
  PROVE  \E h \in Ten, l \in Ten : TenBits(c, h, l)
<1>1. PICK q \in Nat : c = 64 * 1024 + q /\ q < 1024 * 1024
  <2>1. c - 64 * 1024 \in Nat /\ c - 64 * 1024 < 1024 * 1024 /\ c = 64 * 1024 + (c - 64 * 1024)
    BY SMTT(30) DEF Plane, kUnicodeMaxCodepoint
  <2> QED BY <2>1
<1>2. PICK l \in 0 .. 1023, h \in Nat : q = h * 1024 + l
  <2>1. q \div 1024 \in Nat
    BY SMTT(30)
  <2> QED BY <2>1, Div1024
<1>3. h < 1024
  BY <1>1, <1>2, SMTT(30)
<1>4. h \in Ten /\ l \in Ten
  BY <1>3, SMTT(30) DEF Ten
<1>5. TenBits(c, h, l)
  BY <1>1, <1>2, SMTT(30) DEF TenBits
<1> QED BY <1>4, <1>5

LEMMA SurrogatesOf ==
  ASSUME NEW c \in Nat, NEW h \in Ten, NEW l \in Ten, TenBits(c, h, l)
  PROVE  /\ c >= Plane /\ c <= kUnicodeMaxCodepoint
         /\ Surrogates(c) = <<HighUnit(h), LowUnit(l)>>
<1>1. c >= Plane /\ c <= kUnicodeMaxCodepoint
  BY SMTT(30) DEF Ten, TenBits, Plane, kUnicodeMaxCodepoint
<1>2. c - Plane = h * 1024 + l
  BY SMTT(30) DEF Ten, TenBits, Plane
<1>3. (h * 1024 + l) \div 1024 = h /\ (h * 1024 + l) % 1024 = l
  BY SMTT(30) DEF Ten
<1>4. /\ h + kUnicodeSurrogateStart = HighUnit(h)
      /\ l + kUnicodeSurrogateLowStart = LowUnit(l)
  BY SMTT(30) DEF Ten, HighUnit, LowUnit, kUnicodeSurrogateStart, kUnicodeSurrogateLowStart
<1>5. HighUnit(h) % Plane = HighUnit(h)
  BY SMTT(30) DEF Ten, HighUnit, Plane
<1>6. Surrogates(c) = <<(h + kUnicodeSurrogateStart) % Plane, l + kUnicodeSurrogateLowStart>>
  BY <1>2, <1>3 DEF Surrogates
<1> QED BY <1>1, <1>4, <1>5, <1>6

(* The two units of a pair are its ten bits each.                           *)
LEMMA PairBits ==
  ASSUME NEW x \in Nat, NEW y \in Nat, High(x), Low(y), NEW c,
         c = Plane + (x - kUnicodeSurrogateStart) * 1024 + (y - kUnicodeSurrogateLowStart)
  PROVE  /\ c \in Nat /\ UnitsOf(c) = <<x, y>>
         /\ c >= Plane /\ c <= kUnicodeMaxCodepoint
<1>1. PICK h \in Ten : x = HighUnit(h)
  BY Div1024 DEF High, HighUnit, Ten
<1>2. PICK l \in Ten : y = LowUnit(l)
  BY Div1024 DEF Low, LowUnit, Ten
<1>3. PICK d \in Nat : d = 64 * 1024 + h * 1024 + l
  <2>1. 64 * 1024 + h * 1024 + l \in Nat
    BY SMTT(15) DEF Ten
  <2> QED BY <2>1
<1>4. x - kUnicodeSurrogateStart = h /\ y - kUnicodeSurrogateLowStart = l /\ Plane = 64 * 1024
  BY <1>1, <1>2, SMTT(15) DEF Ten, HighUnit, LowUnit, Plane, kUnicodeSurrogateStart, kUnicodeSurrogateLowStart
<1>5. c = d
  BY <1>3, <1>4
<1>6. TenBits(d, h, l)
  BY <1>3 DEF TenBits
<1>7. d >= Plane /\ d <= kUnicodeMaxCodepoint /\ Surrogates(d) = <<HighUnit(h), LowUnit(l)>>
  BY <1>6, SurrogatesOf
<1>8. UnitsOf(d) = <<x, y>>
  BY <1>1, <1>2, <1>7 DEF UnitsOf
<1> QED BY <1>5, <1>7, <1>8

(* Which 16 bit units are surrogates.                                       *)
LEMMA SurrogateUnits ==
  ASSUME NEW u \in Nat
  PROVE  /\ High(u) \/ Low(u) <=> u \in kUnicodeSurrogateStart .. kUnicodeSurrogateEnd
         /\ ~(High(u) /\ Low(u))
<1>1. PICK h \in 0 .. 1023, q \in Nat : u = q * 1024 + h /\ q = u \div 1024
  <2>1. u \div 1024 \in Nat
    BY SMTT(30)
  <2> QED BY <2>1, Div1024
<1>2. (q = 54 \/ q = 55) <=> u \in kUnicodeSurrogateStart .. kUnicodeSurrogateEnd
  BY <1>1, SMTT(30) DEF kUnicodeSurrogateStart, kUnicodeSurrogateEnd
<1> QED BY <1>1, <1>2 DEF High, Low

(* The units of a valid code point in a UTF-16 text are read as this point. *)
LEMMA UnitsRead ==
  ASSUME NEW c \in Nat, Valid(c), NEW src \in Seq(Nat), NEW i \in Nat \ {0},
         Stands(UnitsOf(c), src, i)
  PROVE  /\ i \in 1 .. Len(src) /\ Point16(src, i) = c
         /\ Next16(src, i) = i + Len(UnitsOf(c))
<1>1. Len(src) \in Nat
  OBVIOUS
<1>2. CASE c >= Plane
  <2>1. PICK h \in Ten, l \in Ten : TenBits(c, h, l)
    <3>1. c <= kUnicodeMaxCodepoint
      BY DEF Valid
    <3> QED BY <1>2, <3>1, TenBitsOf
  <2>2. PICK x \in Nat, y \in Nat : x = HighUnit(h) /\ y = LowUnit(l)
    <3>1. HighUnit(h) \in Nat /\ LowUnit(l) \in Nat
      BY SMTT(30) DEF Ten, HighUnit, LowUnit
    <3> QED BY <3>1
  <2>3. UnitsOf(c) = <<x, y>> /\ Len(UnitsOf(c)) = 2
    <3>1. Surrogates(c) = <<x, y>>
      BY <2>1, <2>2, SurrogatesOf
    <3> QED BY <1>2, <3>1 DEF UnitsOf
  <2>4. i + 2 - 1 <= Len(src) /\ \A k \in 1 .. 2 : src[i + k - 1] = <<x, y>>[k]
    BY <2>3 DEF Stands
  <2>5. i \in 1 .. Len(src) /\ i + 1 <= Len(src) /\ i + 1 - 1 = i /\ i + 2 - 1 = i + 1
    BY ONLY <1>1, <2>4, i \in Nat \ {0}
  <2>6. src[i] = x /\ src[i + 1] = y
    BY <2>4, <2>5
  <2>7. High(x) /\ Low(y)
    <3>1. High(HighUnit(h)) /\ Low(LowUnit(l))
      BY ONLY h \in Ten, l \in Ten, SMTT(30) DEF Ten, HighUnit, LowUnit, High, Low
    <3> QED BY <2>2, <3>1
  <2>8. Pair(src, i)
    BY <2>5, <2>6, <2>7 DEF Pair
  <2>9. PICK d : d = Plane + (x - kUnicodeSurrogateStart) * 1024 + (y - kUnicodeSurrogateLowStart)
    OBVIOUS
  <2>10. d = c
    <3>1. x - kUnicodeSurrogateStart = h /\ y - kUnicodeSurrogateLowStart = l /\ Plane = 64 * 1024
      BY <2>2, SMTT(15) DEF Ten, HighUnit, LowUnit, Plane, kUnicodeSurrogateStart, kUnicodeSurrogateLowStart
    <3> QED BY <2>1, <2>9, <3>1 DEF TenBits
  <2>11. Point16(src, i) = d
    BY <2>6, <2>8, <2>9 DEF Point16
  <2> QED BY <2>3, <2>5, <2>8, <2>10, <2>11 DEF Next16
<1>3. CASE ~(c >= Plane)
  <2>1. UnitsOf(c) = <<c>> /\ Len(UnitsOf(c)) = 1
    BY <1>3 DEF UnitsOf
  <2>2. i + 1 - 1 <= Len(src) /\ \A k \in 1 .. 1 : src[i + k - 1] = <<c>>[k]
    BY <2>1 DEF Stands
  <2>3. i \in 1 .. Len(src) /\ i + 1 - 1 = i
    BY ONLY <1>1, <2>2, i \in Nat \ {0}
  <2>4. src[i] = c
    BY <2>2, <2>3
  <2>5. ~High(c)
    BY SurrogateUnits DEF Valid
  <2>6. ~Pair(src, i)
    BY <2>4, <2>5 DEF Pair
  <2> QED BY <2>1, <2>3, <2>4, <2>6 DEF Point16, Next16
<1> QED BY <1>2, <1>3

-----------------------------------------------------------------------------
(* Pieces written one behind the other.                                     *)

Joins(f, pieces, S) ==
  /\ f \in [1 .. (Len(pieces) + 1) -> Seq(S)] /\ f[Len(pieces) + 1] = <<>>
  /\ \A i \in 1 .. Len(pieces) : f[i] = pieces[i] \o f[i + 1]
  /\ Joined(pieces) = f[1]

LEMMA JoinedIs ==
  ASSUME NEW S, NEW pieces \in Seq(Seq(S))
  PROVE  \E f : Joins(f, pieces, S)
<1> DEFINE R == Seq(S)
           from[i \in 1 .. (Len(pieces) + 1)] == IF i > Len(pieces) THEN <<>> ELSE pieces[i] \o from[i + 1]
<1>1. PICK n \in Nat : n = Len(pieces)
  OBVIOUS
<1> DEFINE D == 1 .. (n + 1)
           next == [i \in 1 .. n |-> i + 1]
           step == [i \in 1 .. n |-> [r \in R |-> pieces[i] \o r]]
<1>2. Forward(next, n)
  <2>1. \A i \in 1 .. n : i + 1 \in 1 .. (n + 1) /\ i + 1 > i
    OBVIOUS
  <2> QED BY <2>1 DEF Forward
<1>3. step \in [1 .. n -> [R -> R]] /\ <<>> \in R
  <2>1. \A i \in 1 .. n : pieces[i] \in R
    BY <1>1
  <2>2. \A i \in 1 .. n, r \in R : pieces[i] \o r \in R
    BY <2>1, ConcatProperties
  <2>3. <<>> \in R
    OBVIOUS
  <2> HIDE DEF R
  <2> QED BY <2>2, <2>3
<1>4. PICK f : Loops(f, n, R, next, <<>>, step)
  <2> HIDE DEF next, step, R
  <2> QED BY <1>2, <1>3, LoopExists
<1>5. f \in [D -> R] /\ f[n + 1] = <<>> /\ \A i \in 1 .. n : f[i] = pieces[i] \o f[i + 1]
  <2>1. f \in [D -> R] /\ f[n + 1] = <<>> /\ \A i \in 1 .. n : f[i] = step[i][f[next[i]]]
    BY <1>4 DEF Loops
  <2>2. \A i \in 1 .. n : next[i] = i + 1 /\ i + 1 \in D
    OBVIOUS
  <2>3. \A i \in 1 .. n : f[i + 1] \in R
    <3> HIDE DEF R, D
    <3> QED BY <2>1, <2>2
  <2>4. \A i \in 1 .. n : \A r \in R : step[i][r] = pieces[i] \o r
    <3> HIDE DEF R
    <3> QED OBVIOUS
  <2> HIDE DEF R, step, next, D
  <2>5. \A i \in 1 .. n : f[i] = step[i][f[i + 1]]
    BY <2>1, <2>2
  <2>6. \A i \in 1 .. n : f[i] = pieces[i] \o f[i + 1]
    BY <2>3, <2>4, <2>5
  <2> QED BY <2>1, <2>6
<1>6. \A i \in D : f[i] = IF i > n THEN <<>> ELSE pieces[i] \o f[i + 1]
  <2>1. \A i \in D : (i > n => i = n + 1) /\ (~(i > n) => i \in 1 .. n)
    OBVIOUS
  <2> HIDE DEF R, D
  <2> QED BY <1>5, <2>1
<1>7. from = [i \in 1 .. (Len(pieces) + 1) |-> IF i > Len(pieces) THEN <<>> ELSE pieces[i] \o from[i + 1]]
  <2>1. f = [i \in 1 .. (Len(pieces) + 1) |-> IF i > Len(pieces) THEN <<>> ELSE pieces[i] \o f[i + 1]]
    <3> HIDE DEF R
    <3> QED BY <1>1, <1>5, <1>6
  <2> QED BY <2>1
<1>8. Joined(pieces) = from[1]
  BY DEF Joined
<1> HIDE DEF from
<1>9. \A i \in D : f[i] = from[i]
  <2>1. f[n + 1] = from[n + 1]
    <3>1. n + 1 \in D /\ n + 1 > n
      OBVIOUS
    <3> QED BY <1>1, <1>5, <1>7, <3>1
  <2>2. \A i \in 1 .. n : f[next[i]] = from[next[i]] => f[i] = from[i]
    <3>1. \A i \in 1 .. n : i \in 1 .. (Len(pieces) + 1) /\ ~(i > Len(pieces)) /\ next[i] = i + 1
      BY <1>1
    <3>2. \A i \in 1 .. n : from[i] = pieces[i] \o from[i + 1]
      <4> HIDE DEF next
      <4> QED BY <1>7, <3>1
    <3> HIDE DEF next
    <3> QED BY <1>5, <3>1, <3>2
  <2>3. Agree(f, from, n, next)
    BY <2>1, <2>2 DEF Agree
  <2> HIDE DEF next
  <2> QED BY <1>2, <2>3, LoopUnique
<1>10. Joined(pieces) = f[1]
  <2>1. 1 \in D
    OBVIOUS
  <2> HIDE DEF D
  <2> QED BY <1>8, <1>9, <2>1
<1> HIDE DEF next, step, R
<1> QED BY <1>1, <1>5, <1>10 DEF Joins, R

-----------------------------------------------------------------------------
(* Texts that are written piece by piece, and read again.                   *)

(* x[i] is what is written from the i-th on, next[i] the one behind it.     *)
Chain(x, n, next, piece, S) ==
  /\ Forward(next, n) /\ piece \in [1 .. n -> Seq(S)]
  /\ x \in [1 .. (n + 1) -> Seq(S)] /\ x[n + 1] = <<>>
  /\ \A i \in 1 .. n : x[i] = piece[i] \o x[next[i]]

LEMMA ChainExists ==
  ASSUME NEW S, NEW n \in Nat, NEW next, Forward(next, n), NEW piece \in [1 .. n -> Seq(S)]
  PROVE  \E x : Chain(x, n, next, piece, S)
<1> DEFINE R == Seq(S)
           step == [i \in 1 .. n |-> [r \in R |-> piece[i] \o r]]
<1>1. \A i \in 1 .. n, r \in R : piece[i] \o r \in R
  BY ConcatProperties
<1>2. <<>> \in R
  OBVIOUS
<1>3. step \in [1 .. n -> [R -> R]]
  <2> HIDE DEF R
  <2> QED BY <1>1
<1>4. PICK x : Loops(x, n, R, next, <<>>, step)
  <2> HIDE DEF step, R
  <2> QED BY <1>2, <1>3, LoopExists
<1>5. x \in [1 .. (n + 1) -> R] /\ x[n + 1] = <<>> /\ \A i \in 1 .. n : x[i] = step[i][x[next[i]]]
  BY <1>4 DEF Loops
<1>6. \A i \in 1 .. n : next[i] \in 1 .. (n + 1)
  BY DEF Forward
<1>7. \A i \in 1 .. n : x[next[i]] \in R
  <2> HIDE DEF R, step
  <2> QED BY <1>5, <1>6
<1>8. \A i \in 1 .. n : \A r \in R : step[i][r] = piece[i] \o r
  <2> HIDE DEF R
  <2> QED OBVIOUS
<1>9. \A i \in 1 .. n : x[i] = piece[i] \o x[next[i]]
  <2> HIDE DEF R, step
  <2> QED BY <1>5, <1>7, <1>8
<1> HIDE DEF step
<1> QED BY <1>5, <1>9 DEF Chain

(* x stands at the end of v, from p on.                                     *)
Ending(v, x, p) ==
  /\ p \in Nat \ {0} /\ Len(v) = p - 1 + Len(x)
  /\ \A k \in 1 .. Len(x) : v[p + k - 1] = x[k]

LEMMA EndingSelf ==
  ASSUME NEW S, NEW v \in Seq(S)
  PROVE  Ending(v, v, 1)
<1>1. Len(v) \in Nat
  OBVIOUS
<1>2. \A k \in 1 .. Len(v) : 1 + k - 1 = k
  OBVIOUS
<1>3. Len(v) = 1 - 1 + Len(v)
  BY ONLY <1>1
<1> QED BY <1>2, <1>3 DEF Ending

LEMMA EndingLast ==
  ASSUME NEW S, NEW v \in Seq(S), NEW p, Ending(v, <<>>, p)
  PROVE  p = Len(v) + 1
<1>1. Len(v) = p - 1 + 0 /\ p \in Nat
  BY DEF Ending
<1> QED BY <1>1

LEMMA EndingNext ==
  ASSUME NEW S, NEW v \in Seq(S), NEW e \in Seq(S), NEW x \in Seq(S), NEW p, Ending(v, e \o x, p)
  PROVE  p \in Nat \ {0} /\ Stands(e, v, p) /\ Ending(v, x, p + Len(e))
<1>1. PICK a \in Nat, b \in Nat, l \in Nat : a = Len(e) /\ b = Len(x) /\ l = Len(v)
  OBVIOUS
<1>2. /\ Len(e \o x) = a + b
      /\ \A k \in 1 .. (a + b) : (e \o x)[k] = IF k <= a THEN e[k] ELSE x[k - a]
  BY <1>1, ConcatProperties
<1>3. p \in Nat \ {0} /\ l = p - 1 + (a + b) /\ \A k \in 1 .. (a + b) : v[p + k - 1] = (e \o x)[k]
  BY <1>1, <1>2 DEF Ending
<1>4. Stands(e, v, p)
  <2>1. p + a - 1 <= l
    BY ONLY <1>3, a \in Nat, b \in Nat
  <2>2. ASSUME NEW k \in 1 .. a PROVE v[p + k - 1] = e[k]
    <3>1. k \in 1 .. (a + b) /\ k <= a
      OBVIOUS
    <3> QED BY <1>2, <1>3, <3>1
  <2> QED BY <1>1, <2>1, <2>2 DEF Stands
<1>5. Ending(v, x, p + a)
  <2>1. p + a \in Nat \ {0} /\ l = (p + a) - 1 + b
    BY ONLY <1>3, a \in Nat, b \in Nat
  <2>2. ASSUME NEW k \in 1 .. b PROVE v[(p + a) + k - 1] = x[k]
    <3>1. a + k \in 1 .. (a + b) /\ ~(a + k <= a) /\ (a + k) - a = k /\ p + (a + k) - 1 = (p + a) + k - 1
      BY ONLY <1>3, a \in Nat, b \in Nat, k \in 1 .. b
    <3>2. (e \o x)[a + k] = x[k]
      BY <1>2, <3>1
    <3>3. v[p + (a + k) - 1] = (e \o x)[a + k]
      BY <1>3, <3>1
    <3> QED BY <3>1, <3>2, <3>3
  <2> QED BY <1>1, <2>1, <2>2 DEF Ending
<1> QED BY <1>1, <1>3, <1>4, <1>5

(* The bytes, the units and the points of the code points pt.               *)
UnitsIf(c) == IF Valid(c) THEN UnitsOf(c) ELSE <<>>
PointIf(c) == IF Valid(c) THEN <<c>> ELSE <<>>

EncodedPieces(n, pt) == [i \in 1 .. n |-> Encoded(pt[i])]
UnitPieces(n, pt)    == [i \in 1 .. n |-> UnitsIf(pt[i])]
PointPieces(n, pt)   == [i \in 1 .. n |-> PointIf(pt[i])]

LEMMA Pieces ==
  ASSUME NEW n \in Nat, NEW pt \in [1 .. n -> Nat]
  PROVE  /\ EncodedPieces(n, pt) \in [1 .. n -> Seq(Bytes)]
         /\ UnitPieces(n, pt) \in [1 .. n -> Seq(Nat)]
         /\ PointPieces(n, pt) \in [1 .. n -> Seq(Nat)]
<1>1. \A c \in Nat : Encoded(c) \in Seq(Bytes)
  BY EncodedBytes
<1>2. \A c \in Nat : UnitsIf(c) \in Seq(Nat)
  <2>1. \A c \in Nat : UnitsOf(c) \in Seq(Nat)
    BY UnitsAreNat
  <2> QED BY <2>1 DEF UnitsIf
<1>3. \A c \in Nat : PointIf(c) \in Seq(Nat)
  <2>1. \A c \in Nat : <<c>> \in Seq(Nat)
    OBVIOUS
  <2> QED BY <2>1 DEF PointIf
<1> QED BY <1>1, <1>2, <1>3 DEF EncodedPieces, UnitPieces, PointPieces

Bytewise(x, n, next, pt) ==
  pt \in [1 .. n -> Nat] /\ Chain(x, n, next, EncodedPieces(n, pt), Bytes)

LEMMA EncodedInvalid ==
  ASSUME NEW c \in Nat, ~Valid(c)
  PROVE  Encoded(c) = <<>>
<1>1. utf32_codepoint_utf8_length(c) = 0 /\ Spelling(c, utf32_codepoint_utf8_length(c), Encoded(c))
  BY EncodedIs
<1>2. Spelling(c, 0, Encoded(c))
  BY <1>1
<1> QED BY <1>2 DEF Spelling

StepOver(y, x, p, c, j) ==
  \E l \in 1 .. 4 : l = Len(Encoded(c)) /\ Reads(y, p, c, l) /\ Ending(y, x[j], p + l)

(* One step of a decoder: over a code point, or over nothing at all.        *)
LEMMA ChainStep ==
  ASSUME NEW n \in Nat, NEW next, NEW pt, NEW x, Bytewise(x, n, next, pt),
         NEW y \in Seq(Bytes), NEW i \in 1 .. n, NEW p, Ending(y, x[i], p)
  PROVE  /\ next[i] \in (i + 1) .. (n + 1) /\ p \in Nat \ {0} /\ pt[i] \in Nat
         /\ x[i] \in Seq(Bytes) /\ x[next[i]] \in Seq(Bytes)
         /\ Len(x[i]) = Len(Encoded(pt[i])) + Len(x[next[i]])
         /\ ~Valid(pt[i]) => Ending(y, x[next[i]], p) /\ x[i] = x[next[i]]
         /\ Valid(pt[i]) => StepOver(y, x, p, pt[i], next[i])
<1>1. next[i] \in (i + 1) .. (n + 1) /\ next[i] \in 1 .. (n + 1)
  BY DEF Bytewise, Chain, Forward
<1>2. PICK c \in Nat : c = pt[i]
  BY DEF Bytewise
<1>3. x[i] = Encoded(c) \o x[next[i]]
  BY <1>2 DEF Bytewise, Chain, EncodedPieces
<1>4. PICK e \in Seq(Bytes), t \in Seq(Bytes) : e = Encoded(c) /\ t = x[next[i]]
  BY <1>1, EncodedBytes DEF Bytewise, Chain
<1>5. p \in Nat \ {0} /\ Stands(e, y, p) /\ Ending(y, t, p + Len(e))
  <2>1. Ending(y, e \o t, p)
    BY <1>3, <1>4
  <2> QED BY <2>1, EndingNext
<1>6. x[i] \in Seq(Bytes) /\ Len(x[i]) = Len(e) + Len(t)
  BY <1>3, <1>4
<1>7. ~Valid(c) => Ending(y, t, p) /\ x[i] = t
  <2> SUFFICES ASSUME ~Valid(c) PROVE Ending(y, t, p) /\ x[i] = t
    OBVIOUS
  <2>1. e = <<>>
    BY <1>4, EncodedInvalid
  <2>2. p + Len(e) = p
    BY <1>5, <2>1
  <2> QED BY <1>3, <1>4, <1>5, <2>1, <2>2
<1>8. Valid(c) => Reads(y, p, c, Len(e)) /\ Len(e) \in 1 .. 4
  <2> SUFFICES ASSUME Valid(c) PROVE Reads(y, p, c, Len(e)) /\ Len(e) \in 1 .. 4
    OBVIOUS
  <2>1. Reads(y, p, c, Len(e))
    BY <1>4, <1>5, Decoded
  <2> QED BY <2>1 DEF Reads
<1>9. Valid(c) => StepOver(y, x, p, c, next[i])
  BY <1>4, <1>5, <1>8 DEF StepOver
<1> QED BY <1>1, <1>2, <1>4, <1>5, <1>6, <1>7, <1>9

(* What was measured is a number.                                           *)
LEMMA ConversionNat ==
  ASSUME NEW y \in Seq(Bytes), NEW m \in Nat, m = Len(y), NEW f, Measures(f, y, m)
  PROVE  \A p \in 1 .. (m + 4) : f[p] # -1 => f[p] \in Nat
<1>1. m \in 0 .. Len(y) /\ 0 \in Nat
  OBVIOUS
<1>2. PICK h : Spelt(h, y, m)
  BY <1>1, SpeltExists
<1>3. PICK c : Converts(c, y, m, 0)
  BY <1>1, Converted
<1> QED BY <1>1, <1>2, <1>3, ConversionOf

(* The conversion to UTF-16 measures and spells the units of the points.    *)
LEMMA ChainConverted ==
  ASSUME NEW n \in Nat, NEW next, NEW pt, NEW x, Bytewise(x, n, next, pt),
         NEW u, Chain(u, n, next, UnitPieces(n, pt), Nat),
         NEW y \in Seq(Bytes), Ending(y, x[1], 1),
         NEW f, Measures(f, y, Len(y)), NEW h, Spelt(h, y, Len(y))
  PROVE  f[1] # -1 /\ h[1] = u[1]
<1>1. PICK m \in Nat : m = Len(y)
  OBVIOUS
<1> DEFINE Good(i) == \A p \in Nat \ {0} : Ending(y, x[i], p) => f[p] # -1 /\ h[p] = u[i]
           S == {i \in 1 .. (n + 1) : Good(i)}
<1>2. ASSUME NEW i \in 1 .. (n + 1), \A j \in (i + 1) .. (n + 1) : j \in S PROVE i \in S
  <2> SUFFICES ASSUME NEW p \in Nat \ {0}, Ending(y, x[i], p) PROVE f[p] # -1 /\ h[p] = u[i]
    OBVIOUS
  <2>1. CASE i = n + 1
    <3>1. x[i] = <<>> /\ u[i] = <<>>
      BY <2>1 DEF Bytewise, Chain
    <3>2. p = m + 1 /\ p \in (m + 1) .. (m + 4)
      BY <1>1, <3>1, EndingLast
    <3>3. f[m + 1] = 0
      BY <1>1 DEF Measures
    <3>4. h[p] = <<>>
      BY <1>1, <3>2 DEF Spelt
    <3> QED BY <3>1, <3>2, <3>3, <3>4
  <2>2. CASE i # n + 1
    <3>1. i \in 1 .. n
      BY <2>2
    <3>2. PICK j \in (i + 1) .. (n + 1), c \in Nat : j = next[i] /\ c = pt[i]
      BY <3>1, ChainStep
    <3>3. \A q \in Nat \ {0} : Ending(y, x[j], q) => f[q] # -1 /\ h[q] = u[j]
      BY <1>2
    <3>4. u[i] = UnitsIf(c) \o u[j] /\ u[j] \in Seq(Nat)
      <4>1. j \in 1 .. (n + 1)
        OBVIOUS
      <4> QED BY <3>1, <3>2, <4>1 DEF Chain, UnitPieces
    <3>5. CASE ~Valid(c)
      <4>1. Ending(y, x[j], p)
        BY <3>1, <3>2, <3>5, ChainStep
      <4>2. u[i] = u[j]
        BY <3>4, <3>5 DEF UnitsIf
      <4> QED BY <3>3, <4>1, <4>2
    <3>6. CASE Valid(c)
      <4>1. PICK l \in 1 .. 4 : Reads(y, p, c, l) /\ Ending(y, x[j], p + l)
        <5>1. StepOver(y, x, p, c, j)
          BY <3>1, <3>2, <3>6, ChainStep
        <5> QED BY <5>1 DEF StepOver
      <4>2. p \in 1 .. m /\ p + l - 1 <= m /\ Len8(y, p) = l /\ Point8(y, p) = c
        BY <1>1, <4>1 DEF Reads
      <4>3. p + l \in Nat \ {0} /\ ~(p + l - 1 > m)
        BY <4>2
      <4>4. f[p + l] # -1 /\ h[p + l] = u[j]
        BY <3>3, <4>1, <4>3
      <4>5. h[p] = u[i]
        <5>1. h[p] = UnitsOf(c) \o h[p + l]
          BY <1>1, <4>2 DEF Spelt
        <5> QED BY <3>4, <3>6, <4>4, <5>1 DEF UnitsIf
      <4>6. f[p] # -1
        <5>1. f[p] = Units8(y, p) + f[p + l]
          BY <1>1, <4>2, <4>3, <4>4 DEF Measures
        <5>2. Units8(y, p) \in 1 .. 2
          BY <1>1, <4>2, PointRange
        <5>3. p + l \in 1 .. (m + 4)
          BY <4>2, <4>3
        <5>4. f[p + l] \in Nat
          BY <1>1, <4>4, <5>3, ConversionNat
        <5> QED BY ONLY <5>1, <5>2, <5>4
      <4> QED BY <4>5, <4>6
    <3> QED BY <3>5, <3>6
  <2> QED BY <2>1, <2>2
<1>3. \A i \in 1 .. (n + 1) : i \in S
  <2>1. n + 1 \in Nat
    OBVIOUS
  <2> HIDE DEF S
  <2> QED BY <1>2, <2>1, Downward
<1>4. 1 \in 1 .. (n + 1) /\ 1 \in Nat \ {0}
  OBVIOUS
<1> QED BY <1>3, <1>4

-----------------------------------------------------------------------------
(* UTF-16 to UTF-8 and back.                                                *)

NextUnits(src) == [i \in 1 .. Len(src) |-> Next16(src, i)]
PointsOf(src)  == [i \in 1 .. Len(src) |-> Point16(src, i)]

LEMMA UnitsForward ==
  ASSUME NEW src \in Seq(Nat), NEW n \in Nat, n = Len(src)
  PROVE  Forward(NextUnits(src), n) /\ PointsOf(src) \in [1 .. n -> Nat]
<1>1. \A i \in 1 .. n : Point16(src, i) \in Nat /\ Next16(src, i) \in 1 .. (n + 1) /\ Next16(src, i) > i
  BY PairPoint
<1> QED BY <1>1 DEF Forward, NextUnits, PointsOf

(* A nul put behind a text put behind another.                               *)
LEMMA Terminated ==
  ASSUME NEW r \in Seq(Bytes), NEW z \in Seq(Bytes)
  PROVE  r \o (z \o << 0 >>) = (r \o z) \o << 0 >>
<1>1. << 0 >> \in Seq(Bytes)
  BY DEF Bytes
<1> QED BY <1>1, ConcatAssociative

(* The narrowed text is its chain and a terminator.                         *)
LEMMA NarrowChain ==
  ASSUME NEW src \in Seq(Nat), NEW n \in Nat, n = Len(src), NEW f, Narrows(f, src),
         NEW x, Bytewise(x, n, NextUnits(src), PointsOf(src))
  PROVE  \A i \in 1 .. (n + 1) : f[i] = x[i] \o << 0 >> /\ x[i] \in Seq(Bytes)
<1> DEFINE S == {i \in 1 .. (n + 1) : f[i] = x[i] \o << 0 >>}
<1>1. \A i \in 1 .. (n + 1) : x[i] \in Seq(Bytes)
  BY DEF Bytewise, Chain
<1>2. << 0 >> \in Seq(Bytes) /\ <<>> \o << 0 >> = << 0 >>
  BY DEF Bytes
<1>3. ASSUME NEW i \in 1 .. (n + 1), \A j \in (i + 1) .. (n + 1) : j \in S PROVE i \in S
  <2>1. CASE i = n + 1
    BY <1>2, <2>1 DEF Narrows, Bytewise, Chain
  <2>2. CASE i # n + 1
    <3>1. i \in 1 .. n
      BY <2>2
    <3>2. PICK j \in (i + 1) .. (n + 1), c \in Nat : j = Next16(src, i) /\ c = Point16(src, i)
      BY <3>1, PairPoint
    <3>3. PICK e \in Seq(Bytes), t \in Seq(Bytes) : e = Encoded(c) /\ t = x[j]
      <4>1. Encoded(c) \in Seq(Bytes)
        BY EncodedBytes
      <4>2. j \in 1 .. (n + 1)
        OBVIOUS
      <4>3. x[j] \in Seq(Bytes)
        BY <1>1, <4>2
      <4> QED BY <4>1, <4>3
    <3>4. f[i] = e \o f[j] /\ f[j] = t \o << 0 >>
      BY <1>3, <3>1, <3>2, <3>3 DEF Narrows
    <3>5. x[i] = e \o t
      BY <3>1, <3>2, <3>3 DEF Bytewise, Chain, EncodedPieces, NextUnits, PointsOf
    <3>6. e \o (t \o << 0 >>) = (e \o t) \o << 0 >>
      BY ONLY e \in Seq(Bytes), t \in Seq(Bytes), Terminated
    <3> QED BY <3>4, <3>5, <3>6
  <2> QED BY <2>1, <2>2
<1>4. \A i \in 1 .. (n + 1) : i \in S
  <2>1. n + 1 \in Nat
    OBVIOUS
  <2> HIDE DEF S
  <2> QED BY <1>3, <2>1, Downward
<1> QED BY <1>1, <1>4

(* What is left of a UTF-16 text.                                           *)
KeptPieces(src) == [k \in 1 .. Len(src) |-> IF LonelyAt(src, k) THEN <<>> ELSE <<src[k]>>]

LEMMA KeptAt ==
  ASSUME NEW src \in Seq(Nat), NEW n \in Nat, n = Len(src), NEW i \in 1 .. n, \A k \in 1 .. n : src[k] < Plane,
         ~(i # 1 /\ High(src[i - 1]) /\ Low(src[i]))
  PROVE  /\ Pair(src, i) =>
              /\ i + 1 \in 1 .. n /\ Next16(src, i) = i + 2
              /\ UnitsIf(Point16(src, i)) = <<src[i], src[i + 1]>>
              /\ ~LonelyAt(src, i) /\ ~LonelyAt(src, i + 1) /\ ~High(src[i + 1])
         /\ ~Pair(src, i) =>
              /\ Next16(src, i) = i + 1
              /\ i + 1 <= n => ~(High(src[i]) /\ Low(src[i + 1]))
              /\ UnitsIf(Point16(src, i)) = IF LonelyAt(src, i) THEN <<>> ELSE <<src[i]>>
<1>1. PICK a \in Nat : a = src[i] /\ a < Plane
  OBVIOUS
<1>2. (High(a) \/ Low(a) <=> a \in kUnicodeSurrogateStart .. kUnicodeSurrogateEnd) /\ ~(High(a) /\ Low(a))
  BY SurrogateUnits
<1>3. CASE Pair(src, i)
  <2>1. i + 1 \in 1 .. n /\ High(a) /\ Low(src[i + 1])
    BY <1>1, <1>3 DEF Pair
  <2>2. PICK b \in Nat : b = src[i + 1]
    BY <2>1
  <2>3. High(a) /\ Low(b) /\ ~High(b) /\ ~Low(a)
    BY <1>2, <2>1, <2>2, SurrogateUnits
  <2>4. PICK c : c = Plane + (a - kUnicodeSurrogateStart) * 1024 + (b - kUnicodeSurrogateLowStart)
    OBVIOUS
  <2>5. c \in Nat /\ UnitsOf(c) = <<a, b>> /\ c >= Plane /\ c <= kUnicodeMaxCodepoint
    BY <2>3, <2>4, PairBits
  <2>6. Valid(c)
    <3>1. kUnicodeSurrogateEnd < Plane
      BY SMTT(15) DEF kUnicodeSurrogateEnd, Plane
    <3>2. PICK s, e, p, m : /\ s = kUnicodeSurrogateStart /\ e = kUnicodeSurrogateEnd /\ p = Plane
                            /\ m = kUnicodeMaxCodepoint /\ s \in Nat /\ e \in Nat /\ p \in Nat /\ m \in Nat
      BY SMTT(15) DEF kUnicodeSurrogateStart, kUnicodeSurrogateEnd, Plane, kUnicodeMaxCodepoint
    <3>3. e < p /\ c >= p /\ c <= m
      BY <2>5, <3>1, <3>2
    <3>4. c \notin s .. e
      BY ONLY <2>5, <3>2, <3>3
    <3> QED BY <3>2, <3>3, <3>4 DEF Valid
  <2>7. Point16(src, i) = c
    BY <1>1, <1>3, <2>2, <2>4 DEF Point16
  <2>8. UnitsIf(c) = <<a, b>>
    BY <2>5, <2>6 DEF UnitsIf
  <2>9. ~LonelyAt(src, i)
    <3>1. i # Len(src)
      BY <2>1
    <3> QED BY <1>1, <2>2, <2>3, <3>1 DEF LonelyAt
  <2>10. ~LonelyAt(src, i + 1)
    <3>1. i + 1 # 1 /\ (i + 1) - 1 = i
      OBVIOUS
    <3> QED BY <1>1, <2>2, <2>3, <3>1 DEF LonelyAt
  <2>11. Next16(src, i) = i + 2
    BY <1>3 DEF Next16
  <2> QED BY <1>1, <1>3, <2>1, <2>2, <2>3, <2>7, <2>8, <2>9, <2>10, <2>11
<1>4. CASE ~Pair(src, i)
  <2>1. Point16(src, i) = a /\ Next16(src, i) = i + 1
    BY <1>1, <1>4 DEF Point16, Next16
  <2>2. i + 1 <= n => ~(High(a) /\ Low(src[i + 1]))
    BY <1>1, <1>4 DEF Pair
  <2>3. High(a) \/ Low(a) <=> LonelyAt(src, i)
    <3>1. High(a) => LonelyAt(src, i)
      <4>1. i = Len(src) \/ i + 1 <= n
        OBVIOUS
      <4> QED BY <1>1, <2>2, <4>1 DEF LonelyAt
    <3>2. Low(a) => LonelyAt(src, i)
      BY <1>1 DEF LonelyAt
    <3>3. LonelyAt(src, i) => High(a) \/ Low(a)
      BY <1>1 DEF LonelyAt
    <3> QED BY <3>1, <3>2, <3>3
  <2>4. Valid(a) <=> ~LonelyAt(src, i)
    <3>1. a <= kUnicodeMaxCodepoint
      BY <1>1, SMTT(15) DEF Plane, kUnicodeMaxCodepoint
    <3> QED BY <1>2, <2>3, <3>1 DEF Valid
  <2>5. ~(a >= Plane)
    <3>1. Plane \in Nat
      BY SMTT(15) DEF Plane
    <3> QED BY <1>1, <3>1
  <2>6. UnitsIf(a) = IF LonelyAt(src, i) THEN <<>> ELSE <<a>>
    BY <2>4, <2>5 DEF UnitsIf, UnitsOf
  <2> QED BY <1>1, <1>4, <2>1, <2>2, <2>6
<1> QED BY <1>3, <1>4

LEMMA TwoUnits ==
  ASSUME NEW a \in Nat, NEW b \in Nat
  PROVE  <<a>> \in Seq(Nat) /\ <<b>> \in Seq(Nat) /\ <<a>> \o <<b>> = <<a, b>>
<1>1. <<a>> \in Seq(Nat) /\ <<b>> \in Seq(Nat)
  OBVIOUS
<1>2. PICK u \in Seq(Nat), v \in Seq(Nat) : u = <<a>> \o <<b>> /\ v = <<a, b>>
  <2>1. <<a>> \o <<b>> \in Seq(Nat) /\ <<a, b>> \in Seq(Nat)
    OBVIOUS
  <2> QED BY <2>1
<1>3. Len(u) = 2 /\ Len(v) = 2 /\ u[1] = a /\ u[2] = b /\ v[1] = a /\ v[2] = b
  BY <1>2
<1>4. \A k \in 1 .. 2 : k = 1 \/ k = 2
  OBVIOUS
<1>5. \A k \in 1 .. Len(u) : u[k] = v[k]
  BY <1>3, <1>4
<1>6. u = v
  BY <1>3, <1>5, SeqEqual
<1> QED BY <1>1, <1>2, <1>6

LEMMA UnitsAssociative ==
  ASSUME NEW x \in Seq(Nat), NEW y \in Seq(Nat), NEW r \in Seq(Nat)
  PROVE  (x \o y) \o r = x \o (y \o r)
BY ConcatAssociative, SMTT(20)

LEMMA UnitByUnit ==
  ASSUME NEW a \in Nat, NEW b \in Nat, NEW r \in Seq(Nat)
  PROVE  <<a, b>> \o r = <<a>> \o (<<b>> \o r)
<1>1. PICK x \in Seq(Nat), y \in Seq(Nat) : x = <<a>> /\ y = <<b>> /\ x \o y = <<a, b>>
  BY TwoUnits
<1>2. (x \o y) \o r = x \o (y \o r)
  BY UnitsAssociative
<1> QED BY <1>1, <1>2

LEMMA KeptIs ==
  ASSUME NEW src \in Seq(Nat), NEW n \in Nat, n = Len(src), \A k \in 1 .. n : src[k] < Plane,
         NEW u, Chain(u, n, NextUnits(src), UnitPieces(n, PointsOf(src)), Nat),
         NEW w, Joins(w, KeptPieces(src), Nat)
  PROVE  u[1] = w[1] /\ Len(w[1]) <= n
<1>1. /\ w \in [1 .. (n + 1) -> Seq(Nat)] /\ w[n + 1] = <<>>
      /\ \A i \in 1 .. n : w[i] = (IF LonelyAt(src, i) THEN <<>> ELSE <<src[i]>>) \o w[i + 1]
  <2>1. Len(KeptPieces(src)) = n
    BY DEF KeptPieces
  <2> QED BY <2>1 DEF Joins, KeptPieces
<1>2. u \in [1 .. (n + 1) -> Seq(Nat)] /\ u[n + 1] = <<>>
  BY DEF Chain
<1>3. \A i \in 1 .. n : u[i] = UnitsIf(Point16(src, i)) \o u[Next16(src, i)]
  BY DEF Chain, UnitPieces, PointsOf, NextUnits
<1> DEFINE Bound(i) == i # 1 /\ i <= n => ~(High(src[i - 1]) /\ Low(src[i]))
           S == {i \in 1 .. (n + 1) : Len(w[i]) <= n + 1 - i /\ (Bound(i) => u[i] = w[i])}
<1>4. ASSUME NEW i \in 1 .. (n + 1), \A j \in (i + 1) .. (n + 1) : j \in S PROVE i \in S
  <2>1. CASE i = n + 1
    BY <1>1, <1>2, <2>1
  <2>2. CASE i # n + 1
    <3>1. i \in 1 .. n /\ i + 1 \in (i + 1) .. (n + 1) /\ i + 1 \in 1 .. (n + 1)
      BY <2>2
    <3>2. PICK t \in Seq(Nat) : t = w[i + 1] /\ Len(t) <= n + 1 - (i + 1)
      <4>1. Len(w[i + 1]) <= n + 1 - (i + 1) /\ w[i + 1] \in Seq(Nat)
        BY <1>1, <1>4, <3>1
      <4> QED BY <4>1
    <3>3. PICK a \in Nat : a = src[i]
      BY <3>1
    <3>4. w[i] = (IF LonelyAt(src, i) THEN <<>> ELSE <<a>>) \o t
      BY <1>1, <3>1, <3>2, <3>3
    <3>5. Len(w[i]) <= n + 1 - i
      <4>1. w[i] = t \/ w[i] = <<a>> \o t
        <5>1. <<>> \o t = t
          OBVIOUS
        <5>2. CASE LonelyAt(src, i)
          BY <3>4, <5>1, <5>2
        <5>3. CASE ~LonelyAt(src, i)
          BY <3>4, <5>3
        <5> QED BY <5>2, <5>3
      <4>2. Len(<<a>> \o t) = 1 + Len(t) /\ Len(t) \in Nat
        OBVIOUS
      <4>3. Len(w[i]) = Len(t) \/ Len(w[i]) = 1 + Len(t)
        BY <4>1, <4>2
      <4>4. n \in Nat /\ i \in Nat
        OBVIOUS
      <4> QED BY ONLY <3>2, <4>2, <4>3, <4>4
    <3>6. ASSUME Bound(i) PROVE u[i] = w[i]
      <4>1. ~(i # 1 /\ High(src[i - 1]) /\ Low(src[i]))
        BY <3>1, <3>6
      <4>2. CASE Pair(src, i)
        <5>1. /\ i + 1 \in 1 .. n /\ Next16(src, i) = i + 2
              /\ UnitsIf(Point16(src, i)) = <<src[i], src[i + 1]>>
              /\ ~LonelyAt(src, i) /\ ~LonelyAt(src, i + 1) /\ ~High(src[i + 1])
          BY <3>1, <4>1, <4>2, KeptAt
        <5>2. i + 2 \in (i + 1) .. (n + 1) /\ i + 2 \in 1 .. (n + 1) /\ (i + 1) + 1 = i + 2 /\ (i + 2) - 1 = i + 1
          BY <5>1
        <5>3. Bound(i + 2)
          BY <5>1, <5>2
        <5>4. u[i + 2] = w[i + 2]
          <6> HIDE DEF Bound
          <6> QED BY <1>4, <5>2, <5>3
        <5>5. PICK b \in Nat, r \in Seq(Nat) : b = src[i + 1] /\ r = w[i + 2]
          <6>1. src[i + 1] \in Nat
            BY <5>1
          <6>2. w[i + 2] \in Seq(Nat)
            BY <1>1, <5>2
          <6> QED BY <6>1, <6>2
        <5>6. w[i + 1] = <<b>> \o r
          BY <1>1, <5>1, <5>2, <5>5
        <5>7. w[i] = <<a>> \o (<<b>> \o r)
          BY <3>2, <3>4, <5>1, <5>6
        <5>8. u[i] = <<a, b>> \o r
          BY <1>3, <3>1, <3>3, <5>1, <5>4, <5>5
        <5>9. <<a, b>> \o r = <<a>> \o (<<b>> \o r)
          BY ONLY a \in Nat, b \in Nat, r \in Seq(Nat), UnitByUnit
        <5> QED BY <5>7, <5>8, <5>9
      <4>3. CASE ~Pair(src, i)
        <5>1. /\ Next16(src, i) = i + 1
              /\ i + 1 <= n => ~(High(src[i]) /\ Low(src[i + 1]))
              /\ UnitsIf(Point16(src, i)) = IF LonelyAt(src, i) THEN <<>> ELSE <<src[i]>>
          BY <3>1, <4>1, <4>3, KeptAt
        <5>2. Bound(i + 1)
          <6>1. (i + 1) - 1 = i
            OBVIOUS
          <6> QED BY <5>1, <6>1
        <5>3. u[i + 1] = w[i + 1]
          <6> HIDE DEF Bound
          <6> QED BY <1>4, <3>1, <5>2
        <5> QED BY <1>1, <1>3, <3>1, <5>1, <5>3
      <4> QED BY <4>2, <4>3
    <3> HIDE DEF Bound
    <3> QED BY <3>5, <3>6
  <2> QED BY <2>1, <2>2
<1>5. \A i \in 1 .. (n + 1) : i \in S
  <2>1. n + 1 \in Nat
    OBVIOUS
  <2> HIDE DEF S
  <2> QED BY <1>4, <2>1, Downward
<1>6. 1 \in 1 .. (n + 1) /\ n + 1 - 1 = n
  OBVIOUS
<1> QED BY <1>5, <1>6

LEMMA FunctionSeq ==
  ASSUME NEW S, NEW n \in Nat, NEW f \in [1 .. n -> S]
  PROVE  f \in Seq(S) /\ Len(f) = n
<1>1. f \in Seq(S)
  BY SeqDef
<1> QED BY <1>1

LEMMA FrontOf ==
  ASSUME NEW d, NEW v \in Seq(Nat), d = v \o << 0 >>
  PROVE  Front(d) = v /\ Len(d) = Len(v) + 1
<1>1. v \in Seq(Int) /\ d \in Seq(Int) /\ Len(d) = Len(v) + 1
  OBVIOUS
<1> QED BY <1>1, FrontIs DEF Front

LEMMA BackAgain ==
  ASSUME NEW src \in Seq(Nat), src # <<>>, \A k \in 1 .. Len(src) : src[k] < Plane,
         NEW y \in Seq(Bytes), utf16_to_utf8(src) = y \o << 0 >>
  PROVE  utf8_to_utf16_no_null_terminator(y, Len(y), Len(src)) = Joined(KeptPieces(src))
<1>1. PICK n \in Nat, m \in Nat : n = Len(src) /\ m = Len(y)
  OBVIOUS
<1>2. PICK next, pt : next = NextUnits(src) /\ pt = PointsOf(src)
  OBVIOUS
<1>3. Forward(next, n) /\ pt \in [1 .. n -> Nat]
  BY <1>1, <1>2, UnitsForward
<1>4. EncodedPieces(n, pt) \in [1 .. n -> Seq(Bytes)] /\ UnitPieces(n, pt) \in [1 .. n -> Seq(Nat)]
  BY <1>3, Pieces
<1>5. PICK x : Bytewise(x, n, next, pt)
  BY <1>3, <1>4, ChainExists DEF Bytewise
<1>6. PICK u : Chain(u, n, next, UnitPieces(n, pt), Nat)
  BY <1>3, <1>4, ChainExists
<1>7. x[1] = y
  <2>1. PICK f : Narrows(f, src)
    BY Narrowed
  <2>2. \A i \in 1 .. (n + 1) : f[i] = x[i] \o << 0 >> /\ x[i] \in Seq(Bytes)
    BY <1>1, <1>2, <1>5, <2>1, NarrowChain
  <2>3. 1 \in 1 .. (n + 1)
    OBVIOUS
  <2>4. PICK z \in Seq(Bytes) : z = x[1] /\ y \o << 0 >> = z \o << 0 >>
    BY <2>1, <2>2, <2>3 DEF Narrows
  <2>5. y \in Seq(Nat) /\ z \in Seq(Nat)
    BY BytesAreNat
  <2>6. Front(y \o << 0 >>) = y /\ Front(z \o << 0 >>) = z
    BY <2>5, FrontOf
  <2> QED BY <2>4, <2>6
<1>8. m \in 0 .. Len(y) /\ n \in Nat
  BY <1>1
<1>9. PICK f : Measures(f, y, m)
  BY <1>8, Measured
<1>10. PICK h : Spelt(h, y, m)
  BY <1>8, SpeltExists
<1>11. PICK c : Converts(c, y, m, n)
  BY <1>8, Converted
<1>12. f[1] # -1 /\ h[1] = u[1]
  <2>1. Measures(f, y, Len(y)) /\ Spelt(h, y, Len(y)) /\ Ending(y, x[1], 1)
    BY <1>1, <1>7, <1>9, <1>10, EndingSelf
  <2> QED BY <1>5, <1>6, <2>1, ChainConverted
<1>13. Cut(c[<<1, n>>], u[1], n)
  <2>1. 1 \in 1 .. (m + 4) /\ n \in 0 .. n
    OBVIOUS
  <2>2. \A i \in 1 .. (m + 4) : f[i] # -1 =>
          /\ f[i] \in Nat /\ f[i] <= m + 1 - i /\ Len(h[i]) = f[i]
          /\ \A r \in 0 .. n : Cut(c[<<i, r>>], h[i], r)
    BY <1>8, <1>9, <1>10, <1>11, ConversionOf
  <2> QED BY <1>12, <2>1, <2>2
<1>14. PICK w : Joins(w, KeptPieces(src), Nat)
  <2>1. \A k \in 1 .. Len(src) : <<src[k]>> \in Seq(Nat)
    OBVIOUS
  <2>2. KeptPieces(src) \in Seq(Seq(Nat))
    <3>1. \A k \in 1 .. Len(src) : (IF LonelyAt(src, k) THEN <<>> ELSE <<src[k]>>) \in Seq(Nat)
      BY <2>1
    <3>2. PICK S, g : S = Seq(Nat) /\ g = KeptPieces(src)
      OBVIOUS
    <3>3. g \in [1 .. n -> S]
      BY <1>1, <3>1, <3>2 DEF KeptPieces
    <3>4. g \in Seq(S)
      BY <3>3, FunctionSeq
    <3> QED BY <3>2, <3>4
  <2> QED BY <2>2, JoinedIs
<1>15. u[1] = w[1] /\ Len(w[1]) <= n
  BY <1>1, <1>2, <1>6, <1>14, KeptIs
<1>16. c[<<1, n>>] = w[1]
  <2>1. w[1] \in Seq(Nat)
    <3>1. 1 \in 1 .. (n + 1) /\ u[1] \in Seq(Nat)
      BY <1>6 DEF Chain
    <3> QED BY <1>15, <3>1
  <2>2. Len(w[1]) \in Nat
    BY <2>1
  <2>3. n >= Len(w[1])
    BY <1>15, <2>2
  <2> QED BY <1>13, <1>15, <2>3 DEF Cut
<1>17. utf8_to_utf16_no_null_terminator(y, m, n) = c[<<1, n>>] /\ Joined(KeptPieces(src)) = w[1]
  BY <1>11, <1>14 DEF Converts, Joins
<1> QED BY <1>1, <1>16, <1>17

(* A UTF-16 text of any units comes back from UTF-8 as it was, without the  *)
(* surrogates that are in no pair, and takes in UTF-8 what                  *)
(* utf16_to_utf8_length measured.                                           *)
THEOREM RoundTrips == StrSpec => []RoundTrip
<1>1. ASSUME StrInv, width = 16, text # <<>>
      PROVE  /\ utf16_to_utf8_length(text) = Len(Front(utf16_to_utf8(text)))
             /\ utf8_to_utf16_no_null_terminator(Front(utf16_to_utf8(text)),
                                                 Len(Front(utf16_to_utf8(text))), Len(text)) =
                  Joined(KeptPieces(text))
  <2>1. text \in Seq(Nat) /\ text \in Seq(0 .. (Plane - 1))
    BY <1>1 DEF StrInv, TextInv
  <2>2. \A k \in 1 .. Len(text) : text[k] < Plane
    <3>1. PICK p \in Nat : p = Plane
      BY SMTT(15) DEF Plane
    <3>2. \A k \in 1 .. Len(text) : text[k] \in 0 .. (p - 1)
      BY <2>1, <3>1
    <3>3. \A z \in 0 .. (p - 1) : z < p
      BY <3>1
    <3> QED BY <3>1, <3>2, <3>3
  <2>3. PICK y \in Seq(Bytes) : utf16_to_utf8(text) = y \o << 0 >> /\ utf16_to_utf8_length(text) = Len(y)
    BY <1>1, <2>1, NarrowEnds
  <2>4. Front(utf16_to_utf8(text)) = y
    BY <2>3, BytesAreNat, FrontOf
  <2> QED BY <1>1, <2>1, <2>2, <2>3, <2>4, BackAgain
<1>2. StrInv => RoundTrip
  BY <1>1 DEF RoundTrip, KeptPieces
<1> QED BY <1>2, StrInvHolds, PTL

-----------------------------------------------------------------------------
(* UTF-32 to UTF-8, and every decoder of it.                                *)

Behind(n) == [i \in 1 .. n |-> i + 1]

LEMMA BehindForward ==
  ASSUME NEW n \in Nat
  PROVE  Forward(Behind(n), n) /\ \A i \in 1 .. n : Behind(n)[i] = i + 1
<1>1. \A i \in 1 .. n : i + 1 \in 1 .. (n + 1) /\ i + 1 > i
  OBVIOUS
<1> QED BY <1>1 DEF Forward, Behind

LEMMA JoinedChain ==
  ASSUME NEW S, NEW n \in Nat, NEW piece \in [1 .. n -> Seq(S)]
  PROVE  \E x : Chain(x, n, Behind(n), piece, S) /\ Joined(piece) = x[1]
<1>1. PICK R : R = Seq(S)
  OBVIOUS
<1>2. piece \in Seq(R) /\ Len(piece) = n
  BY <1>1, FunctionSeq
<1>3. PICK x : Joins(x, piece, S)
  BY <1>1, <1>2, JoinedIs
<1>4. /\ x \in [1 .. (n + 1) -> Seq(S)] /\ x[n + 1] = <<>> /\ Joined(piece) = x[1]
      /\ \A i \in 1 .. n : x[i] = piece[i] \o x[i + 1]
  BY <1>2, <1>3 DEF Joins
<1>5. Chain(x, n, Behind(n), piece, S)
  BY <1>4, BehindForward DEF Chain
<1> QED BY <1>4, <1>5

(* What utf32_to_utf8 writes.                                               *)
Written(x, src) ==
  Bytewise(x, Len(src), Behind(Len(src)), src) /\ utf32_to_utf8(src) = x[1] \o << 0 >>

LEMMA WrittenIs ==
  ASSUME NEW src \in Seq(Nat), src # <<>>
  PROVE  \E x : Written(x, src)
<1>1. PICK n \in Nat : n = Len(src)
  OBVIOUS
<1>2. src \in [1 .. n -> Nat]
  BY <1>1
<1>3. EncodedPieces(n, src) \in [1 .. n -> Seq(Bytes)]
  BY <1>2, Pieces
<1>4. PICK x : Chain(x, n, Behind(n), EncodedPieces(n, src), Bytes) /\ Joined(EncodedPieces(n, src)) = x[1]
  BY <1>3, JoinedChain
<1>5. utf32_to_utf8(src) = Joined(EncodedPieces(n, src)) \o << 0 >>
  BY <1>1 DEF utf32_to_utf8, EncodedPieces
<1> QED BY <1>1, <1>2, <1>4, <1>5 DEF Written, Bytewise

(* It is as long as was measured.                                           *)
LEMMA WrittenLength ==
  ASSUME NEW src \in Seq(Nat), src # <<>>, NEW x, Written(x, src)
  PROVE  utf32_to_utf8_length(src) = Len(x[1])
<1>1. PICK n \in Nat : n = Len(src)
  OBVIOUS
<1> DEFINE Size(i) == utf32_codepoint_utf8_length(src[i])
           from[i \in 1 .. (Len(src) + 1)] == IF i > Len(src) THEN 0 ELSE Size(i) + from[i + 1]
           f == [i \in 1 .. (n + 1) |-> Len(x[i])]
<1>2. x \in [1 .. (n + 1) -> Seq(Bytes)] /\ x[n + 1] = <<>> /\ \A i \in 1 .. n : x[i] = Encoded(src[i]) \o x[i + 1]
  BY <1>1, BehindForward DEF Written, Bytewise, Chain, EncodedPieces
<1>3. \A i \in 1 .. n : Len(x[i]) = Size(i) + Len(x[i + 1])
  <2> SUFFICES ASSUME NEW i \in 1 .. n PROVE Len(x[i]) = Size(i) + Len(x[i + 1])
    OBVIOUS
  <2>1. src[i] \in Nat /\ i + 1 \in 1 .. (n + 1)
    BY <1>1
  <2>2. Encoded(src[i]) \in Seq(Bytes) /\ Len(Encoded(src[i])) = Size(i)
    BY <2>1, EncodedBytes
  <2>3. x[i + 1] \in Seq(Bytes)
    BY <1>2, <2>1
  <2>4. PICK e \in Seq(Bytes), t \in Seq(Bytes) : e = Encoded(src[i]) /\ t = x[i + 1]
    BY <2>2, <2>3
  <2>5. Len(e \o t) = Len(e) + Len(t)
    OBVIOUS
  <2> HIDE DEF Size
  <2> QED BY <1>2, <2>2, <2>4, <2>5
<1>4. f[n + 1] = 0 /\ \A i \in 1 .. n : f[i] = Size(i) + f[i + 1]
  <2>1. \A i \in 1 .. n : i + 1 \in 1 .. (n + 1) /\ i \in 1 .. (n + 1)
    OBVIOUS
  <2>2. n + 1 \in 1 .. (n + 1) /\ Len(<<>>) = 0
    OBVIOUS
  <2> HIDE DEF Size
  <2> QED BY <1>2, <1>3, <2>1, <2>2
<1>5. f = [i \in 1 .. (Len(src) + 1) |-> IF i > Len(src) THEN 0 ELSE Size(i) + f[i + 1]]
  <2>1. \A i \in 1 .. (n + 1) : (i > n => i = n + 1) /\ (~(i > n) => i \in 1 .. n)
    OBVIOUS
  <2>2. \A i \in 1 .. (n + 1) : f[i] = IF i > n THEN 0 ELSE Size(i) + f[i + 1]
    <3> HIDE DEF f, Size
    <3> QED BY <1>4, <2>1
  <2>3. f = [i \in 1 .. (n + 1) |-> f[i]]
    OBVIOUS
  <2> HIDE DEF f, Size
  <2> QED BY <1>1, <2>2, <2>3
<1>6. from = [i \in 1 .. (Len(src) + 1) |-> IF i > Len(src) THEN 0 ELSE Size(i) + from[i + 1]]
  <2> HIDE DEF f, Size
  <2> QED BY <1>5
<1>7. utf32_to_utf8_length(src) = from[1]
  BY DEF utf32_to_utf8_length
<1> HIDE DEF from
<1>8. \A i \in 1 .. (n + 1) : f[i] = from[i]
  <2>1. from[n + 1] = 0 /\ \A i \in 1 .. n : from[i] = Size(i) + from[i + 1]
    <3>1. n + 1 \in 1 .. (n + 1) /\ n + 1 > n
      OBVIOUS
    <3>2. \A i \in 1 .. n : i \in 1 .. (n + 1) /\ ~(i > n)
      OBVIOUS
    <3> HIDE DEF Size
    <3> QED BY <1>1, <1>6, <3>1, <3>2
  <2>2. Agree(f, from, n, Behind(n))
    <3> HIDE DEF f, Size
    <3> QED BY <1>4, <2>1, BehindForward DEF Agree
  <2>3. Forward(Behind(n), n)
    BY BehindForward
  <2> HIDE DEF f
  <2> QED BY <2>2, <2>3, LoopUnique
<1>9. 1 \in 1 .. (n + 1)
  OBVIOUS
<1> QED BY <1>7, <1>8, <1>9

LEMMA ReadInternal ==
  ASSUME NEW src, NEW i, NEW c \in Nat, NEW n, Reads(src, i, c, n)
  PROVE  utf32_at_internal(src, i) = [point |-> c, num_read |-> n]
<1>1. PICK b : b = src[i]
  OBVIOUS
<1>2. CASE c < 128
  <2>1. b < 128 /\ b = c /\ n = 1
    BY <1>1, <1>2 DEF Reads
  <2> QED BY <1>1, <2>1 DEF utf32_at_internal
<1>3. CASE ~(c < 128)
  <2>1. c >= 128
    BY <1>3
  <2>2. /\ ~(b < 128) /\ LeadingOnes(b) = n
        /\ ShiftedIn(FirstBits(b, n), src, i + 1, i + n - 1) = c
    BY <1>1, <1>3, <2>1 DEF Reads
  <2> QED BY <1>1, <2>2 DEF utf32_at_internal
<1> QED BY <1>2, <1>3

(* The walk finds the points.                                               *)
LEMMA ChainWalked ==
  ASSUME NEW n \in Nat, NEW next, NEW pt, NEW x, Bytewise(x, n, next, pt),
         NEW u, Chain(u, n, next, PointPieces(n, pt), Nat),
         NEW y \in Seq(Bytes), Ending(y, x[1], 1),
         NEW w, Walks(w, y, Len(y))
  PROVE  w[0] = u[1]
<1>1. PICK m \in Nat : m = Len(y)
  OBVIOUS
<1> DEFINE Good(i) == \A p \in Nat \ {0} : Ending(y, x[i], p) => w[p - 1] = u[i]
           S == {i \in 1 .. (n + 1) : Good(i)}
<1>2. ASSUME NEW i \in 1 .. (n + 1), \A j \in (i + 1) .. (n + 1) : j \in S PROVE i \in S
  <2> SUFFICES ASSUME NEW p \in Nat \ {0}, Ending(y, x[i], p) PROVE w[p - 1] = u[i]
    OBVIOUS
  <2>1. CASE i = n + 1
    <3>1. x[i] = <<>> /\ u[i] = <<>>
      BY <2>1 DEF Bytewise, Chain
    <3>2. p = m + 1
      BY <1>1, <3>1, EndingLast
    <3>3. p - 1 \in 0 .. (m + 7) /\ p - 1 >= m
      BY <3>2
    <3>4. utf32_from_utf8_at(y, m, p - 1).ret = -1
      BY <3>3 DEF utf32_from_utf8_at
    <3>5. w[p - 1] = <<>>
      BY <1>1, <3>3, <3>4 DEF Walks
    <3> QED BY <3>1, <3>5
  <2>2. CASE i # n + 1
    <3>1. i \in 1 .. n
      BY <2>2
    <3>2. PICK j \in (i + 1) .. (n + 1), c \in Nat : j = next[i] /\ c = pt[i]
      BY <3>1, ChainStep
    <3>3. \A q \in Nat \ {0} : Ending(y, x[j], q) => w[q - 1] = u[j]
      BY <1>2
    <3>4. u[i] = PointIf(c) \o u[j] /\ u[j] \in Seq(Nat)
      <4>1. j \in 1 .. (n + 1)
        OBVIOUS
      <4> QED BY <3>1, <3>2, <4>1 DEF Chain, PointPieces
    <3>5. CASE ~Valid(c)
      <4>1. Ending(y, x[j], p)
        BY <3>1, <3>2, <3>5, ChainStep
      <4>2. u[i] = u[j]
        BY <3>4, <3>5 DEF PointIf
      <4> QED BY <3>3, <4>1, <4>2
    <3>6. CASE Valid(c)
      <4>1. PICK l \in 1 .. 4 : Reads(y, p, c, l) /\ Ending(y, x[j], p + l)
        <5>1. StepOver(y, x, p, c, j)
          BY <3>1, <3>2, <3>6, ChainStep
        <5> QED BY <5>1 DEF StepOver
      <4>2. utf32_at_internal(y, p) = [point |-> c, num_read |-> l]
        BY <4>1, ReadInternal
      <4>3. /\ p - 1 \in 0 .. (m + 7) /\ ~(p - 1 >= m) /\ (p - 1) + 1 = p
            /\ p + l \in Nat \ {0} /\ (p - 1) + l = (p + l) - 1
        BY <1>1, <4>1 DEF Reads
      <4>4. utf32_from_utf8_at(y, m, p - 1) = [ret |-> c, next |-> (p + l) - 1]
        BY <4>2, <4>3 DEF utf32_from_utf8_at
      <4>5. w[p - 1] = <<c>> \o w[(p + l) - 1]
        <5>1. PICK q, r : q = p - 1 /\ r = utf32_from_utf8_at(y, m, q)
          OBVIOUS
        <5>2. w[q] = IF r.ret = -1 THEN <<>> ELSE <<r.ret>> \o w[r.next]
          BY <1>1, <4>3, <5>1 DEF Walks
        <5>3. r.ret = c /\ r.next = (p + l) - 1 /\ c # -1
          BY <4>4, <5>1
        <5>4. w[q] = <<c>> \o w[(p + l) - 1]
          BY <5>2, <5>3
        <5> QED BY <5>1, <5>4
      <4>6. w[(p + l) - 1] = u[j]
        BY <3>3, <4>1, <4>3
      <4> QED BY <3>4, <3>6, <4>5, <4>6 DEF PointIf
    <3> QED BY <3>5, <3>6
  <2> QED BY <2>1, <2>2
<1>3. \A i \in 1 .. (n + 1) : i \in S
  <2>1. n + 1 \in Nat
    OBVIOUS
  <2> HIDE DEF S
  <2> QED BY <1>2, <2>1, Downward
<1>4. 1 \in 1 .. (n + 1) /\ 1 \in Nat \ {0} /\ 1 - 1 = 0
  OBVIOUS
<1> QED BY <1>3, <1>4

(* utf8_length accepts all of it, and ASCII only if char is signed.         *)
AsciiFrom(y, p) == \A k \in p .. Len(y) : y[k] < 128

LEMMA ReadLength ==
  ASSUME NEW y \in Seq(Bytes), NEW p, NEW c \in Nat, NEW l \in 1 .. 4, Reads(y, p, c, l), Valid(c), c # 0
  PROVE  /\ Unit(y, p) # 0 /\ Lead8(y, p) = l
         /\ ~Bad8(y, p, FALSE) /\ (Bad8(y, p, TRUE) <=> c >= 128)
<1>1. p \in 1 .. Len(y)
  BY DEF Reads
<1>2. PICK b \in Nat : b = y[p] /\ Unit(y, p) = b
  BY <1>1, BytesAreNat DEF Unit
<1>3. CASE c < 128
  <2>1. b = c /\ LeadingOnes(b) = 0 /\ l = 1
    BY <1>2, <1>3 DEF Reads
  <2>2. ~(b >= 128) /\ ~(c >= 128)
    BY <1>3, <2>1
  <2>3. Lead8(y, p) = l
    BY <1>2, <2>1 DEF Lead8
  <2>4. ~Bad8(y, p, FALSE) /\ ~Bad8(y, p, TRUE)
    BY <1>2, <2>2 DEF Bad8
  <2> QED BY <1>2, <2>1, <2>2, <2>3, <2>4
<1>4. CASE c >= 128
  <2>1. /\ LeadingOnes(b) = l /\ l >= 2 /\ b >= 192
        /\ ShiftedIn(FirstBits(b, l), y, p + 1, p + l - 1) = c
        /\ \A k \in 1 .. (l - 1) : Unit(y, p + k) \in 128 .. 191
    <3>1. ~(c < 128)
      BY <1>4
    <3> QED BY <1>2, <1>4, <3>1 DEF Reads
  <2>2. l # 0
    OBVIOUS
  <2>3. Lead8(y, p) = l
    BY <1>2, <2>1, <2>2 DEF Lead8
  <2>4. b >= 128 /\ b # 0 /\ ~(b < 192) /\ ~(l >= 5)
    BY <2>1
  <2>5. ~(c > kUnicodeMaxCodepoint)
    <3>1. PICK z \in Nat : z = kUnicodeMaxCodepoint
      BY SMTT(15) DEF kUnicodeMaxCodepoint
    <3>2. c <= z
      BY <3>1 DEF Valid
    <3>3. ~(c > z)
      BY <3>2
    <3> QED BY <3>1, <3>3
  <2>6. ~Bad8(y, p, FALSE)
    BY <1>2, <2>1, <2>3, <2>4, <2>5 DEF Bad8
  <2>7. Bad8(y, p, TRUE)
    BY <1>2, <2>4 DEF Bad8
  <2> QED BY <1>2, <1>4, <2>3, <2>4, <2>6, <2>7
<1>5. c < 128 \/ c >= 128
  OBVIOUS
<1> QED BY <1>3, <1>4, <1>5

Accepted(y, p, charSigned) == IF ~charSigned \/ AsciiFrom(y, p) THEN Len(y) + 1 - p ELSE -1

LEMMA AsciiStep ==
  ASSUME NEW y \in Seq(Bytes), NEW p \in 1 .. Len(y)
  PROVE  AsciiFrom(y, p) <=> y[p] < 128 /\ AsciiFrom(y, p + 1)
<1>1. p \in p .. Len(y) /\ \A k \in p .. Len(y) : k = p \/ k \in (p + 1) .. Len(y)
  OBVIOUS
<1>2. \A k \in (p + 1) .. Len(y) : k \in p .. Len(y)
  OBVIOUS
<1> QED BY <1>1, <1>2 DEF AsciiFrom

LEMMA ChainLength ==
  ASSUME NEW n \in Nat, NEW next, NEW pt, NEW x, Bytewise(x, n, next, pt), \A i \in 1 .. n : pt[i] # 0,
         NEW y \in Seq(Bytes), Ending(y, x[1], 1),
         NEW charSigned \in BOOLEAN, NEW g, Lengths(g, y, charSigned)
  PROVE  g[1] = Accepted(y, 1, charSigned)
<1>1. PICK m \in Nat : m = Len(y)
  OBVIOUS
<1> DEFINE Good(i) == \A p \in Nat \ {0} : Ending(y, x[i], p) => g[p] = Accepted(y, p, charSigned)
           S == {i \in 1 .. (n + 1) : Good(i)}
<1>2. ASSUME NEW i \in 1 .. (n + 1), \A j \in (i + 1) .. (n + 1) : j \in S PROVE i \in S
  <2> SUFFICES ASSUME NEW p \in Nat \ {0}, Ending(y, x[i], p) PROVE g[p] = Accepted(y, p, charSigned)
    OBVIOUS
  <2>1. CASE i = n + 1
    <3>1. x[i] = <<>>
      BY <2>1 DEF Bytewise, Chain
    <3>2. p = m + 1
      BY <1>1, <3>1, EndingLast
    <3>3. Unit(y, p) = 0 /\ p \in 1 .. (m + 1) /\ m + 1 - p = 0
      BY <1>1, <3>2 DEF Unit
    <3>4. AsciiFrom(y, p)
      BY <1>1, <3>2 DEF AsciiFrom
    <3>5. g[p] = 0
      BY <1>1, <3>3 DEF Lengths
    <3> QED BY <1>1, <3>3, <3>4, <3>5 DEF Accepted
  <2>2. CASE i # n + 1
    <3>1. i \in 1 .. n
      BY <2>2
    <3>2. PICK j \in (i + 1) .. (n + 1), c \in Nat : j = next[i] /\ c = pt[i]
      BY <3>1, ChainStep
    <3>3. \A q \in Nat \ {0} : Ending(y, x[j], q) => g[q] = Accepted(y, q, charSigned)
      BY <1>2
    <3>5. CASE ~Valid(c)
      <4>1. Ending(y, x[j], p)
        BY <3>1, <3>2, <3>5, ChainStep
      <4> QED BY <3>3, <4>1
    <3>6. CASE Valid(c)
      <4>1. PICK l \in 1 .. 4 : Reads(y, p, c, l) /\ Ending(y, x[j], p + l)
        <5>1. StepOver(y, x, p, c, j)
          BY <3>1, <3>2, <3>6, ChainStep
        <5> QED BY <5>1 DEF StepOver
      <4>2. p \in 1 .. m /\ p \in 1 .. (m + 1) /\ p + l - 1 <= m /\ p + l \in Nat \ {0}
        BY <1>1, <4>1 DEF Reads
      <4>3. c # 0
        BY <3>1, <3>2
      <4>4. /\ Unit(y, p) # 0 /\ Lead8(y, p) = l
            /\ ~Bad8(y, p, FALSE) /\ (Bad8(y, p, TRUE) <=> c >= 128)
        BY <3>6, <4>1, <4>3, ReadLength
      <4>5. g[p + l] = Accepted(y, p + l, charSigned)
        BY <3>3, <4>1, <4>2
      <4>6. g[p] = IF Bad8(y, p, charSigned) \/ g[p + l] = -1 THEN -1 ELSE l + g[p + l]
        BY <1>1, <4>2, <4>4 DEF Lengths
      <4>7. m + 1 - p = l + (m + 1 - (p + l)) /\ m + 1 - (p + l) # -1
        BY <4>2
      <4>8. CASE charSigned = FALSE
        <5>1. g[p + l] = m + 1 - (p + l) /\ Accepted(y, p, charSigned) = m + 1 - p
          BY <1>1, <4>5, <4>8 DEF Accepted
        <5>2. ~Bad8(y, p, charSigned)
          BY <4>4, <4>8
        <5> QED BY <4>6, <4>7, <5>1, <5>2
      <4>9. CASE charSigned = TRUE
        <5>1. y[p] < 128 <=> c < 128
          BY <4>1 DEF Reads
        <5>2. CASE c < 128
          <6>1. l = 1
            BY <4>1, <5>2 DEF Reads
          <6>2. AsciiFrom(y, p) <=> AsciiFrom(y, p + l)
            BY <1>1, <4>2, <5>1, <5>2, <6>1, AsciiStep
          <6>3. ~Bad8(y, p, charSigned)
            <7>1. ~(c >= 128)
              BY <5>2
            <7> QED BY <4>4, <4>9, <7>1
          <6>4. CASE AsciiFrom(y, p)
            <7>1. g[p + l] = m + 1 - (p + l) /\ Accepted(y, p, charSigned) = m + 1 - p
              BY <1>1, <4>5, <6>2, <6>4 DEF Accepted
            <7> QED BY <4>6, <4>7, <6>3, <7>1
          <6>5. CASE ~AsciiFrom(y, p)
            <7>1. g[p + l] = -1 /\ Accepted(y, p, charSigned) = -1
              BY <4>5, <4>9, <6>2, <6>5 DEF Accepted
            <7> QED BY <4>6, <7>1
          <6> QED BY <6>4, <6>5
        <5>3. CASE ~(c < 128)
          <6>1. ~AsciiFrom(y, p)
            BY <1>1, <4>2, <5>1, <5>3, AsciiStep
          <6>2. Bad8(y, p, charSigned)
            <7>1. c >= 128
              BY <5>3
            <7> QED BY <4>4, <4>9, <7>1
          <6> QED BY <4>6, <4>9, <6>1, <6>2 DEF Accepted
        <5> QED BY <5>2, <5>3
      <4> QED BY <4>8, <4>9
    <3> QED BY <3>5, <3>6
  <2> QED BY <2>1, <2>2
<1>3. \A i \in 1 .. (n + 1) : i \in S
  <2>1. n + 1 \in Nat
    OBVIOUS
  <2> HIDE DEF S
  <2> QED BY <1>2, <2>1, Downward
<1>4. 1 \in 1 .. (n + 1) /\ 1 \in Nat \ {0}
  OBVIOUS
<1> QED BY <1>3, <1>4

(* The conversion back: the units are read as the points they spell.        *)
LEMMA ChainNarrowed ==
  ASSUME NEW n \in Nat, NEW next, NEW pt, NEW x, Bytewise(x, n, next, pt),
         NEW u, Chain(u, n, next, UnitPieces(n, pt), Nat),
         NEW v \in Seq(Nat), Ending(v, u[1], 1),
         NEW f, Narrows(f, v)
  PROVE  f[1] = x[1] \o << 0 >>
<1>1. PICK m \in Nat : m = Len(v)
  OBVIOUS
<1> DEFINE Good(i) == \A p \in Nat \ {0} : Ending(v, u[i], p) => f[p] = x[i] \o << 0 >>
           S == {i \in 1 .. (n + 1) : Good(i)}
<1>2. ASSUME NEW i \in 1 .. (n + 1), \A j \in (i + 1) .. (n + 1) : j \in S PROVE i \in S
  <2> SUFFICES ASSUME NEW p \in Nat \ {0}, Ending(v, u[i], p) PROVE f[p] = x[i] \o << 0 >>
    OBVIOUS
  <2>1. CASE i = n + 1
    <3>1. x[i] = <<>> /\ u[i] = <<>>
      BY <2>1 DEF Bytewise, Chain
    <3>2. p = m + 1
      BY <1>1, <3>1, EndingLast
    <3>3. f[p] = << 0 >> /\ <<>> \o << 0 >> = << 0 >>
      BY <1>1, <3>2 DEF Narrows
    <3> QED BY <3>1, <3>3
  <2>2. CASE i # n + 1
    <3>1. i \in 1 .. n
      BY <2>2
    <3>2. PICK j \in (i + 1) .. (n + 1), c \in Nat : j = next[i] /\ c = pt[i]
      <4>1. next[i] \in 1 .. (n + 1) /\ next[i] > i /\ pt[i] \in Nat
        BY <3>1 DEF Bytewise, Chain, Forward
      <4>2. next[i] \in (i + 1) .. (n + 1)
        BY <4>1
      <4> QED BY <4>1, <4>2
    <3>3. \A q \in Nat \ {0} : Ending(v, u[j], q) => f[q] = x[j] \o << 0 >>
      BY <1>2
    <3>4. u[i] = UnitsIf(c) \o u[j] /\ u[j] \in Seq(Nat) /\ x[i] = Encoded(c) \o x[j] /\ x[j] \in Seq(Bytes)
      <4>1. j \in 1 .. (n + 1)
        OBVIOUS
      <4> QED BY <3>1, <3>2, <4>1 DEF Chain, UnitPieces, Bytewise, EncodedPieces
    <3>5. CASE ~Valid(c)
      <4>1. u[i] = u[j]
        BY <3>4, <3>5 DEF UnitsIf
      <4>2. x[i] = x[j]
        <5>1. <<>> \o x[j] = x[j]
          BY <3>4
        <5> QED BY <3>4, <3>5, <5>1, EncodedInvalid
      <4> QED BY <3>3, <4>1, <4>2
    <3>6. CASE Valid(c)
      <4>1. PICK e \in Seq(Nat), t \in Seq(Nat) : e = UnitsOf(c) /\ t = u[j]
        BY <3>4, UnitsAreNat
      <4>2. Ending(v, e \o t, p)
        BY <3>4, <3>6, <4>1 DEF UnitsIf
      <4>3. Stands(e, v, p) /\ Ending(v, t, p + Len(e)) /\ p + Len(e) \in Nat \ {0}
        <5>1. Stands(e, v, p) /\ Ending(v, t, p + Len(e))
          BY <4>2, EndingNext
        <5> QED BY <5>1
      <4>4. p \in 1 .. Len(v) /\ Point16(v, p) = c /\ Next16(v, p) = p + Len(e)
        BY <3>6, <4>1, <4>3, UnitsRead
      <4>5. f[p] = Encoded(c) \o f[p + Len(e)]
        BY <4>4 DEF Narrows
      <4>6. f[p + Len(e)] = x[j] \o << 0 >>
        BY <3>3, <4>1, <4>3
      <4>7. Encoded(c) \in Seq(Bytes)
        BY EncodedBytes
      <4>8. Encoded(c) \o (x[j] \o << 0 >>) = (Encoded(c) \o x[j]) \o << 0 >>
        <5>1. PICK r \in Seq(Bytes), z \in Seq(Bytes) : r = Encoded(c) /\ z = x[j]
          BY <3>4, <4>7
        <5>2. r \o (z \o << 0 >>) = (r \o z) \o << 0 >>
          BY Terminated
        <5> QED BY <5>1, <5>2
      <4> QED BY <3>4, <4>5, <4>6, <4>8
    <3> QED BY <3>5, <3>6
  <2> QED BY <2>1, <2>2
<1>3. \A i \in 1 .. (n + 1) : i \in S
  <2>1. n + 1 \in Nat
    OBVIOUS
  <2> HIDE DEF S
  <2> QED BY <1>2, <2>1, Downward
<1>4. 1 \in 1 .. (n + 1) /\ 1 \in Nat \ {0}
  OBVIOUS
<1> QED BY <1>3, <1>4

(* The units of a text: what is converted, and measured.                    *)
Widens(y, v) ==
  /\ utf8_to_utf16_length(y, Len(y), FALSE) = Len(v)
  /\ utf8_to_utf16_no_null_terminator(y, Len(y), Len(v)) = v

LEMMA WrittenUnits ==
  ASSUME NEW n \in Nat, NEW next, NEW pt, NEW x, Bytewise(x, n, next, pt),
         NEW u, Chain(u, n, next, UnitPieces(n, pt), Nat),
         NEW y \in Seq(Bytes), Ending(y, x[1], 1)
  PROVE  Widens(y, u[1])
<1>0. PICK v \in Seq(Nat) : v = u[1]
  <2>1. 1 \in 1 .. (n + 1)
    OBVIOUS
  <2> QED BY <2>1 DEF Chain
<1>1. PICK m \in Nat, d \in Nat : m = Len(y) /\ d = Len(v)
  OBVIOUS
<1>2. m \in 0 .. Len(y)
  BY <1>1
<1>3. PICK f : Measures(f, y, m)
  BY <1>2, Measured
<1>4. PICK h : Spelt(h, y, m)
  BY <1>2, SpeltExists
<1>5. PICK c : Converts(c, y, m, d)
  BY <1>2, Converted
<1>6. f[1] # -1 /\ h[1] = u[1]
  <2>1. Measures(f, y, Len(y)) /\ Spelt(h, y, Len(y)) /\ Ending(y, x[1], 1)
    BY <1>1, <1>3, <1>4
  <2> QED BY <2>1, ChainConverted
<1>7. \A i \in 1 .. (m + 4) : f[i] # -1 =>
        /\ f[i] \in Nat /\ f[i] <= m + 1 - i /\ Len(h[i]) = f[i]
        /\ \A r \in 0 .. d : Cut(c[<<i, r>>], h[i], r)
  BY <1>2, <1>3, <1>4, <1>5, ConversionOf
<1>8. Len(v) = f[1] /\ Cut(c[<<1, d>>], v, d)
  <2>1. 1 \in 1 .. (m + 4) /\ d \in 0 .. d
    OBVIOUS
  <2> QED BY <1>0, <1>6, <1>7, <2>1
<1>9. c[<<1, d>>] = v
  <2>1. d >= Len(v)
    BY <1>1
  <2> QED BY <1>8, <2>1 DEF Cut
<1> QED BY <1>0, <1>1, <1>3, <1>5, <1>8, <1>9 DEF Measures, Converts, Widens

(* A text, its bytes y and its units z, and what becomes of them.           *)
Agreed(src, y, z) ==
  /\ utf32_to_utf8(src) = y \o << 0 >> /\ utf32_to_utf8_length(src) = Len(y)
  /\ Walk(y, Len(y)) = Joined(PointPieces(Len(src), src))
  /\ z = Joined(UnitPieces(Len(src), src))
  /\ Widens(y, z)
  /\ z # <<>> => utf16_to_utf8(z) = y \o << 0 >>
  /\ NoNul(src) => \A charSigned \in BOOLEAN : utf8_length(y, charSigned) = Accepted(y, 1, charSigned)

LEMMA AllAgree ==
  ASSUME NEW src \in Seq(Nat), src # <<>>
  PROVE  \E y \in Seq(Bytes), z \in Seq(Nat) : Agreed(src, y, z)
<1>1. PICK n \in Nat : n = Len(src)
  OBVIOUS
<1>2. PICK next : next = Behind(n)
  OBVIOUS
<1>3. src \in [1 .. n -> Nat]
  BY <1>1
<1>4. PICK x : Written(x, src)
  BY WrittenIs
<1>5. Bytewise(x, n, next, src) /\ utf32_to_utf8(src) = x[1] \o << 0 >>
  BY <1>1, <1>2, <1>4 DEF Written
<1>6. 1 \in 1 .. (n + 1)
  OBVIOUS
<1>7. PICK y \in Seq(Bytes) : y = x[1]
  BY <1>5, <1>6 DEF Bytewise, Chain
<1>8. Ending(y, x[1], 1)
  BY <1>7, EndingSelf
<1>9. UnitPieces(n, src) \in [1 .. n -> Seq(Nat)] /\ PointPieces(n, src) \in [1 .. n -> Seq(Nat)]
  BY <1>3, Pieces
<1>10. PICK u : Chain(u, n, next, UnitPieces(n, src), Nat) /\ Joined(UnitPieces(n, src)) = u[1]
  BY <1>2, <1>9, JoinedChain
<1>11. PICK t : Chain(t, n, next, PointPieces(n, src), Nat) /\ Joined(PointPieces(n, src)) = t[1]
  BY <1>2, <1>9, JoinedChain
<1>12. PICK z \in Seq(Nat) : z = u[1]
  BY <1>6, <1>10 DEF Chain
<1>13. utf32_to_utf8_length(src) = Len(y)
  BY <1>4, <1>7, WrittenLength
<1>14. Walk(y, Len(y)) = t[1]
  <2>1. Len(y) \in 0 .. Len(y)
    OBVIOUS
  <2>2. PICK w : Walks(w, y, Len(y))
    BY <2>1, Walked
  <2>3. w[0] = t[1]
    BY <1>5, <1>8, <1>11, <2>2, ChainWalked
  <2> QED BY <2>2, <2>3 DEF Walks
<1>15. Ending(z, u[1], 1)
  BY <1>12, EndingSelf
<1>16. Widens(y, z)
  <2>1. Widens(y, u[1])
    BY <1>5, <1>8, <1>10, WrittenUnits
  <2> QED BY <1>12, <2>1
<1>17. ASSUME z # <<>> PROVE utf16_to_utf8(z) = y \o << 0 >>
  <2>1. PICK f : Narrows(f, z)
    BY Narrowed
  <2>2. f[1] = x[1] \o << 0 >>
    BY <1>5, <1>10, <1>15, <2>1, ChainNarrowed
  <2>3. utf16_to_utf8(z) = f[1]
    BY <1>17, <2>1 DEF Narrows
  <2> QED BY <1>7, <2>2, <2>3
<1>18. ASSUME NoNul(src), NEW charSigned \in BOOLEAN
       PROVE  utf8_length(y, charSigned) = Accepted(y, 1, charSigned)
  <2>1. PICK g : Lengths(g, y, charSigned)
    BY LengthOf
  <2>2. \A i \in 1 .. n : src[i] # 0
    BY <1>1, <1>18 DEF NoNul
  <2>3. g[1] = Accepted(y, 1, charSigned)
    BY <1>5, <1>8, <2>1, <2>2, ChainLength
  <2> QED BY <2>1, <2>3 DEF Lengths
<1>19. Agreed(src, y, z)
  <2>1. utf32_to_utf8(src) = y \o << 0 >>
    BY <1>5, <1>7
  <2>2. Walk(y, Len(y)) = Joined(PointPieces(n, src)) /\ z = Joined(UnitPieces(n, src))
    BY <1>10, <1>11, <1>12, <1>14
  <2> QED BY <1>1, <1>13, <1>16, <1>17, <1>18, <2>1, <2>2 DEF Agreed
<1> QED BY <1>19

(* What utf32_to_utf8 makes of any code points, the valid of them, is as    *)
(* long as utf32_to_utf8_length measured, and every decoder of Unicode.cpp  *)
(* reads these code points from it again.                                   *)
THEOREM DecodersDoAgree == StrSpec => []DecodersAgree
<1>1. ASSUME StrInv PROVE DecodersAgree
  <2>1. ASSUME width = 32, text # <<>>,
               NEW b, b = Front(utf32_to_utf8(text)),
               NEW k, k = utf8_to_utf16_length(b, Len(b), FALSE),
               NEW v, v = utf8_to_utf16(b, Len(b), k + 1)
        PROVE  /\ AllValid(text) => utf32_to_utf8_length(text) = Len(b)
               /\ Walk(b, Len(b)) = Joined(PointPieces(Len(text), text))
               /\ v = Joined(UnitPieces(Len(text), text)) \o << 0 >>
               /\ k = Len(v) - 1
               /\ k > 0 => utf16_to_utf8(Front(v)) = b \o << 0 >>
               /\ NoNul(text) => \A charSigned \in BOOLEAN :
                    (charSigned => Ascii(b)) => utf8_length(b, charSigned) = Len(b)
    <3>1. text \in Seq(Nat)
      BY <1>1 DEF StrInv, TextInv
    <3>2. PICK y \in Seq(Bytes), z \in Seq(Nat) : Agreed(text, y, z)
      BY <2>1, <3>1, AllAgree
    <3>3. y \in Seq(Nat)
      BY BytesAreNat
    <3>4. b = y
      <4>1. utf32_to_utf8(text) = y \o << 0 >>
        BY <3>2 DEF Agreed
      <4>2. Front(y \o << 0 >>) = y
        BY <3>3, FrontOf
      <4> QED BY <2>1, <4>1, <4>2
    <3>5. k = Len(z) /\ Len(z) \in Nat
      <4>1. Len(z) \in Nat
        OBVIOUS
      <4> QED BY <2>1, <3>2, <3>4, <4>1 DEF Agreed, Widens
    <3>6. v = z \o << 0 >>
      <4>1. (k + 1) - 1 = Len(z)
        BY <3>5
      <4>2. v = utf8_to_utf16_no_null_terminator(y, Len(y), Len(z)) \o << 0 >>
        BY <2>1, <3>4, <4>1 DEF utf8_to_utf16
      <4> QED BY <3>2, <4>2 DEF Agreed, Widens
    <3>7. Front(v) = z /\ Len(v) = Len(z) + 1
      BY <3>6, FrontOf
    <3>8. k = Len(v) - 1 /\ (k > 0 => z # <<>>)
      <4>1. Len(<<>>) = 0
        OBVIOUS
      <4> QED BY <3>5, <3>7, <4>1
    <3>9. k > 0 => utf16_to_utf8(Front(v)) = b \o << 0 >>
      BY <3>2, <3>4, <3>7, <3>8 DEF Agreed
    <3>10. ASSUME NEW charSigned \in BOOLEAN, charSigned => Ascii(b)
           PROVE  Accepted(y, 1, charSigned) = Len(y)
      <4>1. Len(y) + 1 - 1 = Len(y)
        OBVIOUS
      <4>2. ~charSigned \/ AsciiFrom(y, 1)
        BY <3>4, <3>10 DEF Ascii, AsciiFrom
      <4> QED BY <4>1, <4>2 DEF Accepted
    <3>11. NoNul(text) => \A charSigned \in BOOLEAN :
             utf8_length(y, charSigned) = Accepted(y, 1, charSigned)
      BY <3>2 DEF Agreed
    <3>12. /\ utf32_to_utf8_length(text) = Len(y)
           /\ Walk(y, Len(y)) = Joined(PointPieces(Len(text), text))
           /\ z = Joined(UnitPieces(Len(text), text))
      BY <3>2 DEF Agreed
    <3> QED BY <3>4, <3>6, <3>8, <3>9, <3>10, <3>11, <3>12
  <2> QED BY <2>1 DEF DecodersAgree, PointPieces, UnitPieces, PointIf, UnitsIf
<1> QED BY <1>1, StrInvHolds, PTL
=============================================================================

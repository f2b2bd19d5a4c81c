------------------------------ MODULE RefBase ------------------------------
(***************************************************************************)
(* droid::RefBase (system/core/libutils/RefBase.cpp): one reference-counted *)
(* object, its separately allocated counter block (weakref_impl), and the  *)
(* sp<> / wp<> handles that refer to it.                                   *)
(*                                                                         *)
(* An actor is a HANDLE: one sp or wp variable, used by one thread at a    *)
(* time, so every handle may be in the middle of an operation at once.     *)
(* A step is one access to an atomic counter (or one delete); everything   *)
(* between two accesses is local to the thread.                            *)
(*                                                                         *)
(* The rule clients keep, and the only one the model assumes: a pointer is *)
(* copied only from something that keeps the object alive during the copy  *)
(* (another handle that is not being released, or the creator's raw        *)
(* pointer, during whose life nothing is released).                        *)
(***************************************************************************)
EXTENDS Integers, FiniteSets

CONSTANTS
  Ptrs,      \* the sp and wp variables of all threads
  INITIAL,   \* INITIAL_STRONG_VALUE: mStrong of an object never referenced
  Raw,       \* as a source: the pointer `new T` returned
  NoSrc      \* no source: the handle is not being copied from anything

ASSUME PtrsFinite == IsFiniteSet(Ptrs)
ASSUME InitialAboveCount == INITIAL \in Nat /\ Cardinality(Ptrs) < INITIAL
ASSUME RawNotPtr == Raw \notin Ptrs /\ NoSrc \notin Ptrs /\ Raw # NoSrc

VARIABLES
  mStrong,   \* weakref_impl::mStrong
  mWeak,     \* weakref_impl::mWeak
  lifetime,  \* weakref_impl::mFlags & OBJECT_LIFETIME_MASK
  objLive,   \* the RefBase object has not been deleted
  implLive,  \* the weakref_impl has not been deleted
  raw,       \* the creator still uses the raw pointer
  pc,        \* what each handle is or is about to do
  src,       \* the handle being copied from, while it must stay alive
  cur,       \* attemptIncStrong/attemptIncWeak's local curCount
  firstRefs  \* how often onFirstRef has been called (history)

vars == <<mStrong, mWeak, lifetime, objLive, implLive, raw, pc, src, cur, firstRefs>>

Settled   == {"null", "sp", "wp"}
Unbiasing == {"incS.sub", "att.sub"}
PCs == Settled \cup Unbiasing \cup
       {"incS.add", "incS.first", "decS.last", "decS.delete", "decW", "decW.last",
        "att.load", "att.cas1", "att.flags", "att.cas2", "att.add", "att.lastRef", "attW.cas"}

(* The handles mStrong and mWeak count: a count is taken by the step that   *)
(* adds to the counter and given back by the one that subtracts from it.    *)
StrongPcs == Unbiasing \cup {"sp", "incS.first", "att.lastRef"}
UncountedPcs == {"null", "decW.last", "attW.cas"}
At(S) == {p \in Ptrs : pc[p] \in S}
StrongHolders == At(StrongPcs)
WeakHolders == At(PCs \ UncountedPcs)
Pinned(p) == \E q \in Ptrs : src[q] = p

-----------------------------------------------------------------------------
(* weakref_impl(base), RefBase(), and extendObjectLifetime, which is called *)
(* from the constructor of the class that wants it.                         *)
Init ==
  /\ mStrong = INITIAL
  /\ mWeak = 0
  /\ lifetime \in {"STRONG", "WEAK"}
  /\ objLive = TRUE /\ implLive = TRUE
  /\ raw = TRUE
  /\ pc = [p \in Ptrs |-> "null"]
  /\ src = [p \in Ptrs |-> NoSrc]
  /\ cur = [p \in Ptrs |-> 0]
  /\ firstRefs = 0

Goto(p, l) == pc' = [pc EXCEPT ![p] = l]

(* The creator is done with the raw pointer.                               *)
DropRaw ==
  /\ raw
  /\ \A p \in Ptrs : src[p] # Raw
  /\ \E p \in Ptrs : pc[p] # "null"
  /\ raw' = FALSE
  /\ UNCHANGED <<mStrong, mWeak, lifetime, objLive, implLive, pc, src, cur, firstRefs>>

(* The creator deletes an object that was never referenced: ~RefBase frees *)
(* the impl of a WEAK object and only logs for a STRONG one.               *)
ExplicitDelete ==
  /\ raw
  /\ \A p \in Ptrs : pc[p] = "null"
  /\ raw' = FALSE
  /\ objLive' = FALSE
  /\ implLive' = (lifetime = "STRONG")
  /\ UNCHANGED <<mStrong, mWeak, lifetime, pc, src, cur, firstRefs>>

-----------------------------------------------------------------------------
(* RefBase::incStrong, for sp(T* ) and sp(const sp&).                      *)
StrongSource(s) == \/ s = Raw /\ raw
                   \/ s \in Ptrs /\ pc[s] = "sp"

IncStrong(p, s) ==           \* refs->incWeak
  /\ pc[p] = "null"
  /\ StrongSource(s)
  /\ mWeak' = mWeak + 1
  /\ Goto(p, "incS.add")
  /\ src' = [src EXCEPT ![p] = s]
  /\ UNCHANGED <<mStrong, lifetime, objLive, implLive, raw, cur, firstRefs>>

(* Bug: onFirstRef is called for a previous count other than INITIAL too.  *)
IncStrongAddAlwaysFirst(p) ==
  /\ pc[p] = "incS.add"
  /\ mStrong' = mStrong + 1
  /\ Goto(p, IF mStrong # INITIAL THEN "incS.first" ELSE "incS.sub")
  /\ src' = [src EXCEPT ![p] = NoSrc]
  /\ UNCHANGED <<mWeak, lifetime, objLive, implLive, raw, cur, firstRefs>>

IncStrongAdd(p) ==           \* mStrong.fetch_add
  /\ pc[p] = "incS.add"
  /\ mStrong' = mStrong + 1
  /\ Goto(p, IF mStrong # INITIAL THEN "sp" ELSE "incS.sub")
  /\ src' = [src EXCEPT ![p] = NoSrc]
  /\ UNCHANGED <<mWeak, lifetime, objLive, implLive, raw, cur, firstRefs>>

IncStrongSub(p) ==           \* mStrong.fetch_sub(INITIAL_STRONG_VALUE)
  /\ pc[p] = "incS.sub"
  /\ mStrong' = mStrong - INITIAL
  /\ Goto(p, "incS.first")
  /\ UNCHANGED <<mWeak, lifetime, objLive, implLive, raw, src, cur, firstRefs>>

OnFirstRef(p) ==
  /\ pc[p] = "incS.first"
  /\ firstRefs' = firstRefs + 1
  /\ Goto(p, "sp")
  /\ UNCHANGED <<mStrong, mWeak, lifetime, objLive, implLive, raw, src, cur>>

-----------------------------------------------------------------------------
(* RefBase::decStrong, for ~sp and sp::clear.                              *)
DecStrong(p) ==              \* mStrong.fetch_sub(1)
  /\ pc[p] = "sp"
  /\ ~raw /\ ~Pinned(p)
  /\ mStrong' = mStrong - 1
  /\ Goto(p, IF mStrong = 1 THEN "decS.last" ELSE "decW")
  /\ UNCHANGED <<mWeak, lifetime, objLive, implLive, raw, src, cur, firstRefs>>

(* Bug: the lifetime flag is not looked at.                                *)
OnLastStrongRefAnyLifetime(p) ==
  /\ pc[p] = "decS.last"
  /\ Goto(p, "decS.delete")
  /\ UNCHANGED <<mStrong, mWeak, lifetime, objLive, implLive, raw, src, cur, firstRefs>>

OnLastStrongRef(p) ==        \* refs->mBase->onLastStrongRef, then mFlags.load
  /\ pc[p] = "decS.last"
  /\ Goto(p, IF lifetime = "STRONG" THEN "decS.delete" ELSE "decW")
  /\ UNCHANGED <<mStrong, mWeak, lifetime, objLive, implLive, raw, src, cur, firstRefs>>

(* Bug: ~RefBase deletes the impl of a STRONG object as well.              *)
DeleteThisAndImpl(p) ==
  /\ pc[p] = "decS.delete"
  /\ objLive' = FALSE /\ implLive' = FALSE
  /\ Goto(p, "decW")
  /\ UNCHANGED <<mStrong, mWeak, lifetime, raw, src, cur, firstRefs>>

DeleteThis(p) ==             \* ~RefBase leaves the impl of a STRONG object alone
  /\ pc[p] = "decS.delete"
  /\ objLive' = FALSE
  /\ Goto(p, "decW")
  /\ UNCHANGED <<mStrong, mWeak, lifetime, implLive, raw, src, cur, firstRefs>>

-----------------------------------------------------------------------------
(* weakref_type::incWeak, for the wp constructors: from the object          *)
(* (creatWeak) or from another wp.                                          *)
IncWeak(p, s) ==
  /\ pc[p] = "null"
  /\ StrongSource(s) \/ (s \in Ptrs /\ pc[s] = "wp")
  /\ mWeak' = mWeak + 1
  /\ Goto(p, "wp")
  /\ UNCHANGED <<mStrong, lifetime, objLive, implLive, raw, src, cur, firstRefs>>

(* weakref_type::attemptIncWeak on the block of another wp.                *)
AttemptIncWeak(p, s) ==      \* mWeak.load
  /\ pc[p] = "null"
  /\ s \in Ptrs /\ pc[s] = "wp"
  /\ cur' = [cur EXCEPT ![p] = mWeak]
  /\ Goto(p, "attW.cas")
  /\ src' = [src EXCEPT ![p] = s]
  /\ UNCHANGED <<mStrong, mWeak, lifetime, objLive, implLive, raw, firstRefs>>

AttemptIncWeakCas(p) ==      \* one round of the compare_exchange loop
  /\ pc[p] = "attW.cas"
  /\ \/ /\ cur[p] > 0 /\ mWeak = cur[p]
        /\ mWeak' = mWeak + 1
        /\ Goto(p, "wp")
        /\ src' = [src EXCEPT ![p] = NoSrc]
        /\ cur' = [cur EXCEPT ![p] = 0]
     \/ /\ cur[p] > 0 /\ mWeak # cur[p]
        /\ cur' = [cur EXCEPT ![p] = mWeak]
        /\ UNCHANGED <<mWeak, pc, src>>
  /\ UNCHANGED <<mStrong, lifetime, objLive, implLive, raw, firstRefs>>

(* weakref_type::decWeak, for ~wp.                                         *)
DecWeakSub(p) ==             \* mWeak.fetch_sub(1)
  /\ mWeak' = mWeak - 1
  /\ Goto(p, IF mWeak # 1 THEN "null" ELSE "decW.last")
  /\ UNCHANGED <<mStrong, lifetime, objLive, implLive, raw, src, cur, firstRefs>>

ReleaseWeak(p) ==
  /\ pc[p] = "wp"
  /\ ~raw /\ ~Pinned(p)
  /\ DecWeakSub(p)

DecWeak(p) ==                \* the tail of decStrong and of a failed promote
  /\ pc[p] = "decW"
  /\ DecWeakSub(p)

(* Bug: ~RefBase expects the last weak reference to be still counted.      *)
LastWeakRefLeaksImpl(p) ==
  /\ pc[p] = "decW.last"
  /\ IF lifetime = "STRONG"
       THEN /\ implLive' = (implLive /\ mStrong = INITIAL)
            /\ UNCHANGED objLive
       ELSE /\ objLive' = FALSE
            /\ implLive' = (implLive /\ mWeak # 1)
  /\ Goto(p, "null")
  /\ UNCHANGED <<mStrong, mWeak, lifetime, raw, src, cur, firstRefs>>

(* Bug: the WEAK case calls onLastWeakRef only.                            *)
LastWeakRefNoDelete(p) ==
  /\ pc[p] = "decW.last"
  /\ implLive' = (implLive /\ (lifetime = "WEAK" \/ mStrong = INITIAL))
  /\ Goto(p, "null")
  /\ UNCHANGED <<mStrong, mWeak, lifetime, objLive, raw, src, cur, firstRefs>>

(* STRONG: the impl goes, unless there never was a strong reference.       *)
(* WEAK: onLastWeakRef, then delete mBase, whose destructor sees mWeak.    *)
LastWeakRef(p) ==
  /\ pc[p] = "decW.last"
  /\ IF lifetime = "STRONG"
       THEN /\ implLive' = (implLive /\ mStrong = INITIAL)
            /\ UNCHANGED objLive
       ELSE /\ objLive' = FALSE
            /\ implLive' = (implLive /\ mWeak # 0)
  /\ Goto(p, "null")
  /\ UNCHANGED <<mStrong, mWeak, lifetime, raw, src, cur, firstRefs>>

-----------------------------------------------------------------------------
(* weakref_type::attemptIncStrong, for wp::promote.                        *)
AttemptIncStrong(p, s) ==    \* incWeak
  /\ pc[p] = "null"
  /\ s \in Ptrs /\ pc[s] = "wp"
  /\ mWeak' = mWeak + 1
  /\ Goto(p, "att.load")
  /\ UNCHANGED <<mStrong, lifetime, objLive, implLive, raw, src, cur, firstRefs>>

Promotable(c) == c > 0 /\ c # INITIAL

AttemptLoad(p) ==            \* mStrong.load
  /\ pc[p] = "att.load"
  /\ cur' = [cur EXCEPT ![p] = mStrong]
  /\ Goto(p, IF Promotable(mStrong) THEN "att.cas1" ELSE "att.flags")
  /\ UNCHANGED <<mStrong, mWeak, lifetime, objLive, implLive, raw, src, firstRefs>>

AttemptCas1(p) ==            \* first compare_exchange loop
  /\ pc[p] = "att.cas1"
  /\ \/ /\ mStrong = cur[p]
        /\ mStrong' = mStrong + 1
        /\ Goto(p, "sp")
        /\ cur' = [cur EXCEPT ![p] = 0]
     \/ /\ mStrong # cur[p]
        /\ cur' = [cur EXCEPT ![p] = mStrong]
        /\ Goto(p, IF Promotable(mStrong) THEN "att.cas1" ELSE "att.flags")
        /\ UNCHANGED mStrong
  /\ UNCHANGED <<mWeak, lifetime, objLive, implLive, raw, src, firstRefs>>

(* No base or derived class of the repository refuses onIncStrongAttempted. *)
AttemptFlags(p) ==
  /\ pc[p] = "att.flags"
  /\ Goto(p, IF lifetime = "WEAK" THEN "att.add"
             ELSE IF cur[p] <= 0 THEN "decW" ELSE "att.cas2")
  /\ cur' = [cur EXCEPT ![p] = IF lifetime = "STRONG" /\ @ > 0 THEN @ ELSE 0]
  /\ UNCHANGED <<mStrong, mWeak, lifetime, objLive, implLive, raw, src, firstRefs>>

(* Bug: one exchange is tried, and its failure taken for a dead object.    *)
AttemptCas2Once(p) ==
  /\ pc[p] = "att.cas2"
  /\ \/ /\ mStrong = cur[p]
        /\ mStrong' = mStrong + 1
        /\ Goto(p, IF cur[p] = INITIAL THEN "att.sub" ELSE "sp")
     \/ /\ mStrong # cur[p]
        /\ Goto(p, "decW")
        /\ UNCHANGED mStrong
  /\ cur' = [cur EXCEPT ![p] = 0]
  /\ UNCHANGED <<mWeak, lifetime, objLive, implLive, raw, src, firstRefs>>

(* Bug: the bias is left in the counter a promote was the first to raise.  *)
AttemptCas2KeepsBias(p) ==
  /\ pc[p] = "att.cas2"
  /\ \/ /\ mStrong = cur[p]
        /\ mStrong' = mStrong + 1
        /\ Goto(p, "sp")
        /\ cur' = [cur EXCEPT ![p] = 0]
     \/ /\ mStrong # cur[p]
        /\ Goto(p, IF mStrong > 0 THEN "att.cas2" ELSE "decW")
        /\ cur' = [cur EXCEPT ![p] = IF mStrong > 0 THEN mStrong ELSE 0]
        /\ UNCHANGED mStrong
  /\ UNCHANGED <<mWeak, lifetime, objLive, implLive, raw, src, firstRefs>>

AttemptCas2(p) ==            \* second loop, entered with curCount == INITIAL
  /\ pc[p] = "att.cas2"
  /\ \/ /\ mStrong = cur[p]
        /\ mStrong' = mStrong + 1
        /\ Goto(p, IF cur[p] = INITIAL THEN "att.sub" ELSE "sp")
        /\ cur' = [cur EXCEPT ![p] = 0]
     \/ /\ mStrong # cur[p]
        /\ Goto(p, IF mStrong > 0 THEN "att.cas2" ELSE "decW")
        /\ cur' = [cur EXCEPT ![p] = IF mStrong > 0 THEN mStrong ELSE 0]
        /\ UNCHANGED mStrong
  /\ UNCHANGED <<mWeak, lifetime, objLive, implLive, raw, src, firstRefs>>

AttemptAdd(p) ==             \* WEAK lifetime: fetch_add, no comparison needed
  /\ pc[p] = "att.add"
  /\ mStrong' = mStrong + 1
  /\ cur' = [cur EXCEPT ![p] = IF mStrong \in {0, INITIAL} THEN 0 ELSE mStrong]
  /\ Goto(p, IF mStrong = INITIAL THEN "att.sub"
             ELSE IF mStrong = 0 THEN "sp" ELSE "att.lastRef")
  /\ UNCHANGED <<mWeak, lifetime, objLive, implLive, raw, src, firstRefs>>

AttemptLastRef(p) ==         \* onLastStrongRef: someone else revived it first
  /\ pc[p] = "att.lastRef"
  /\ cur' = [cur EXCEPT ![p] = 0]
  /\ Goto(p, "sp")
  /\ UNCHANGED <<mStrong, mWeak, lifetime, objLive, implLive, raw, src, firstRefs>>

AttemptSub(p) ==             \* mStrong.fetch_sub(INITIAL_STRONG_VALUE)
  /\ pc[p] = "att.sub"
  /\ mStrong' = mStrong - INITIAL
  /\ Goto(p, "sp")
  /\ UNCHANGED <<mWeak, lifetime, objLive, implLive, raw, src, cur, firstRefs>>

-----------------------------------------------------------------------------
Begin(p) == \E s \in Ptrs \cup {Raw} :
  IncStrong(p, s) \/ IncWeak(p, s) \/ AttemptIncWeak(p, s) \/ AttemptIncStrong(p, s)

(* What a handle that has begun an operation does next.                    *)
Continue(p) ==
  \/ IncStrongAdd(p) \/ IncStrongSub(p) \/ OnFirstRef(p)
  \/ OnLastStrongRef(p) \/ DeleteThis(p) \/ DecWeak(p) \/ LastWeakRef(p)
  \/ AttemptIncWeakCas(p)
  \/ AttemptLoad(p) \/ AttemptCas1(p) \/ AttemptFlags(p) \/ AttemptCas2(p)
  \/ AttemptAdd(p) \/ AttemptLastRef(p) \/ AttemptSub(p)

Release(p) == DecStrong(p) \/ ReleaseWeak(p)

Next ==
  \/ DropRaw \/ ExplicitDelete
  \/ \E p \in Ptrs : Begin(p) \/ Continue(p) \/ Release(p)

Spec == Init /\ [][Next]_vars

(* An operation once begun is run on: no step of RefBase waits for another *)
(* thread. Whether handles are created and released is up to the clients.  *)
FairSpec == Spec /\ \A p \in Ptrs : WF_vars(Continue(p))

-----------------------------------------------------------------------------
(* Every counter, flag and local is of its C++ type, within int32 range.   *)
TypeOK ==
  /\ mStrong \in 0 .. (INITIAL + Cardinality(Ptrs))
  /\ mWeak \in 0 .. Cardinality(Ptrs)
  /\ lifetime \in {"STRONG", "WEAK"}
  /\ objLive \in BOOLEAN /\ implLive \in BOOLEAN /\ raw \in BOOLEAN
  /\ pc \in [Ptrs -> PCs]
  /\ src \in [Ptrs -> Ptrs \cup {Raw, NoSrc}]
  /\ cur \in [Ptrs -> 0 .. (INITIAL + Cardinality(Ptrs))]
  /\ firstRefs \in Nat

(* Where a handle is about to touch the object (its virtual methods, or    *)
(* delete it), and where only the counter block.                           *)
ObjPcs == {"sp", "incS.first", "decS.last", "decS.delete", "att.lastRef"}
UsesObj(p) == pc[p] \in ObjPcs \/ (lifetime = "WEAK" /\ pc[p] \in {"decW.last", "att.add"})

(* No thread touches memory another one has freed: every access of every   *)
(* operation of RefBase.cpp, both deletes included (so nothing is deleted  *)
(* twice), and every sp still held, finds the object and the block alive.  *)
NoUseAfterFree ==
  \A p \in Ptrs : /\ pc[p] # "null" => implLive
                  /\ UsesObj(p) => objLive

(* The counters count the handles exactly, at every step of every thread:  *)
(* the bias of INITIAL_STRONG_VALUE is there as long as no strong          *)
(* reference was taken, or the one thread that took the first has not yet  *)
(* subtracted it; afterwards it never comes back.                          *)
CountersExact ==
  /\ mWeak = Cardinality(WeakHolders)
  /\ \/ mStrong = INITIAL /\ StrongHolders = {}
     \/ /\ mStrong = INITIAL + Cardinality(StrongHolders)
        /\ \E p \in Ptrs : \A q \in Ptrs : pc[q] \in Unbiasing <=> q = p
     \/ /\ mStrong = Cardinality(StrongHolders)
        /\ \A p \in Ptrs : pc[p] \notin Unbiasing

(* Once the last handle is gone and the creator has let go of the raw      *)
(* pointer, the object and its counter block have been deleted: decStrong, *)
(* decWeak and ~RefBase share the deletes so that none is missed. The      *)
(* exception the code logs: a STRONG object that never had a strong ref.   *)
AllGone == ~raw /\ \A p \in Ptrs : pc[p] = "null"
Reclaimed ==
  AllGone => (~objLive /\ ~implLive) \/ (lifetime = "STRONG" /\ mStrong = INITIAL)

(* onFirstRef is called at most once in an object's life, however many     *)
(* threads race through incStrong while mStrong is INITIAL_STRONG_VALUE.   *)
FirstRefOnce == firstRefs <= 1

(* A STRONG object whose strong count has reached zero is never given a    *)
(* strong reference again: attemptIncStrong cannot revive it ("the object  *)
(* cannot be revived").                                                    *)
NoRevival ==
  [][lifetime = "STRONG" /\ mStrong = 0 => mStrong' = 0]_vars

(* A promote of a STRONG object gives up only when the object is really    *)
(* past saving: no strong reference is left at that moment.                *)
PromoteFailsOnlyWhenDead ==
  [][\A p \in Ptrs :
       (pc[p] \in {"att.flags", "att.cas2"} /\ pc'[p] = "decW")
         => StrongHolders = {} /\ mStrong = 0]_vars

-----------------------------------------------------------------------------
(* The rest of the inductive invariant of RefBase_proofs.                  *)

(* A handle being copied from is still what it was (the clients' rule).    *)
SourcesHeld ==
  \A p \in Ptrs :
    /\ pc[p] = "incS.add" => StrongSource(src[p])
    /\ pc[p] = "attW.cas" => /\ src[p] \in Ptrs /\ pc[src[p]] = "wp"
                             /\ cur[p] > 0
    /\ pc[p] \notin {"incS.add", "attW.cas"} => src[p] = NoSrc

Deleting == {"decS.last", "decS.delete"}

(* While the creator uses the raw pointer nothing is on its way down.      *)
RawProtects ==
  raw => /\ objLive /\ implLive /\ mStrong # 0
         /\ \A p \in Ptrs : /\ pc[p] \notin Deleting \cup {"decW", "decW.last"}
                            /\ pc[p] = "att.flags" => cur[p] > 0

(* What a promote knows from the counts it has read.                       *)
PromoteKnows ==
  \A p \in Ptrs :
    /\ pc[p] = "att.cas1" => Promotable(cur[p])
    /\ pc[p] = "att.flags" => ~Promotable(cur[p])
    /\ pc[p] = "att.flags" /\ lifetime = "STRONG" /\ cur[p] = 0 => mStrong = 0
    /\ pc[p] = "att.cas2" => lifetime = "STRONG" /\ cur[p] > 0
    /\ pc[p] \in {"att.add", "att.lastRef"} => lifetime = "WEAK"

(* Only one thread deletes the object, and only one frees the impl.        *)
OneDeleter ==
  /\ \A p \in Ptrs : pc[p] = "decS.delete" => lifetime = "STRONG"
  /\ lifetime = "STRONG" =>
       \A p, q \in Ptrs : pc[p] \in Deleting /\ pc[q] \in Deleting => mStrong = 0 /\ p = q
  /\ \A p \in Ptrs : pc[p] = "decW.last" =>
       ~raw /\ mWeak = 0 /\ \A q \in Ptrs \ {p} : pc[q] = "null"

(* When the object and the impl are gone: a STRONG object may be outlived  *)
(* by weak handles.                                                        *)
Outlived == /\ lifetime = "STRONG" /\ mStrong = 0
            /\ \A p \in Ptrs : pc[p] \notin Deleting

Lifecycle ==
  /\ ~implLive => AllGone /\ ~objLive
  /\ ~objLive => AllGone \/ Outlived
  /\ Outlived => ~objLive

FirstRefPending ==
  /\ mStrong >= INITIAL => firstRefs = 0 /\ \A p \in Ptrs : pc[p] # "incS.first"
  /\ \A p, q \in Ptrs : pc[p] = "incS.first" /\ pc[q] = "incS.first" => firstRefs = 0 /\ p = q

IInv == /\ TypeOK /\ CountersExact /\ SourcesHeld /\ RawProtects /\ PromoteKnows
        /\ OneDeleter /\ Lifecycle /\ Reclaimed /\ FirstRefPending /\ FirstRefOnce

-----------------------------------------------------------------------------
(* RefBase's counters implement the promise of ObjectLifetime: who holds   *)
(* the object is who has added to a counter and not yet subtracted.        *)
Lifetime == INSTANCE ObjectLifetime WITH
  Holders <- Ptrs, creator <- raw, alive <- objLive, ever <- (mStrong # INITIAL),
  strong <- StrongHolders, refs <- WeakHolders

(* Every step of RefBase is a step (or a stutter) of ObjectLifetime.       *)
ImplementsLifetime == Lifetime!Spec

(* And an object no one needs any more is eventually destroyed, although   *)
(* the thread that must do it learns so only from the count it read.       *)
EventuallyDestroyed == Lifetime!LiveSpec

=============================================================================

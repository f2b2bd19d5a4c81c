--------------------------- MODULE RefBase_proofs ---------------------------
(***************************************************************************)
(* The theorems about RefBase, for every finite set of handles smaller     *)
(* than INITIAL_STRONG_VALUE.                                              *)
(*                                                                         *)
(* The argument: the counters are exact (CountersMove: each step moves one *)
(* handle and the counters alike), so what a thread reads from them tells  *)
(* it who else is there (CountersTell). From that, each conjunct of IInv   *)
(* is preserved by every operation (one lemma per conjunct, one step per   *)
(* group of operations).                                                   *)
(***************************************************************************)
EXTENDS RefBase, FiniteSetTheorems, TLAPS

(* The handles at some set of program points, when one handle moves.       *)
LEMMA MoveOne ==
  ASSUME TypeOK, NEW p \in Ptrs, NEW l \in PCs, pc' = [pc EXCEPT ![p] = l], NEW S
  PROVE  /\ At(S)' = IF l \in S THEN At(S) \cup {p} ELSE At(S) \ {p}
         /\ Cardinality(At(S)) \in 0 .. Cardinality(Ptrs)
         /\ Cardinality(At(S)') \in 0 .. Cardinality(Ptrs)
         /\ Cardinality(At(S)) = 0 <=> At(S) = {}
         /\ Cardinality(At(S)') =
              IF l \in S /\ pc[p] \notin S THEN Cardinality(At(S)) + 1
              ELSE IF l \notin S /\ pc[p] \in S THEN Cardinality(At(S)) - 1
              ELSE Cardinality(At(S))
  <1> DEFINE A == At(S)
             B == At(S)'
  <1>0. pc \in [Ptrs -> PCs]
    BY DEF TypeOK
  <1>1. B = IF l \in S THEN A \cup {p} ELSE A \ {p}
    BY <1>0 DEF At
  <1>2. A \in SUBSET Ptrs /\ B \in SUBSET Ptrs
    BY DEF At
  <1>5. p \in A <=> pc[p] \in S
    BY DEF At
  <1> HIDE DEF A, B
  <1>3. /\ IsFiniteSet(A) /\ Cardinality(A) <= Cardinality(Ptrs)
        /\ IsFiniteSet(B) /\ Cardinality(B) <= Cardinality(Ptrs)
    BY <1>2, PtrsFinite, FS_Subset
  <1>4. /\ Cardinality(A) \in Nat /\ Cardinality(B) \in Nat /\ Cardinality(Ptrs) \in Nat
        /\ Cardinality(A) = 0 <=> A = {}
    BY <1>3, PtrsFinite, FS_CardinalityType, FS_EmptySet
  <1>6. Cardinality(A \cup {p}) = IF p \in A THEN Cardinality(A) ELSE Cardinality(A) + 1
    BY <1>3, FS_AddElement
  <1>7. Cardinality(A \ {p}) = IF p \in A THEN Cardinality(A) - 1 ELSE Cardinality(A)
    BY <1>3, FS_RemoveElement
  <1>8. Cardinality(B) =
              IF l \in S /\ pc[p] \notin S THEN Cardinality(A) + 1
              ELSE IF l \notin S /\ pc[p] \in S THEN Cardinality(A) - 1
              ELSE Cardinality(A)
    BY <1>1, <1>5, <1>6, <1>7
  <1> QED BY <1>1, <1>3, <1>4, <1>8 DEF A, B

(* How the counted handles change when handle p moves to l.                *)
LEMMA Counted ==
  ASSUME TypeOK, NEW p \in Ptrs, NEW l \in PCs, pc' = [pc EXCEPT ![p] = l]
  PROVE  /\ StrongHolders' = IF l \in StrongPcs THEN StrongHolders \cup {p}
                                                ELSE StrongHolders \ {p}
         /\ WeakHolders' = IF l \notin UncountedPcs THEN WeakHolders \cup {p}
                                                    ELSE WeakHolders \ {p}
         /\ Cardinality(StrongHolders) \in 0 .. Cardinality(Ptrs)
         /\ Cardinality(WeakHolders) \in 0 .. Cardinality(Ptrs)
         /\ Cardinality(StrongHolders') \in 0 .. Cardinality(Ptrs)
         /\ Cardinality(WeakHolders') \in 0 .. Cardinality(Ptrs)
         /\ Cardinality(StrongHolders) = 0 <=> StrongHolders = {}
         /\ Cardinality(WeakHolders) = 0 <=> WeakHolders = {}
         /\ Cardinality(StrongHolders') =
              IF l \in StrongPcs /\ pc[p] \notin StrongPcs THEN Cardinality(StrongHolders) + 1
              ELSE IF l \notin StrongPcs /\ pc[p] \in StrongPcs THEN Cardinality(StrongHolders) - 1
              ELSE Cardinality(StrongHolders)
         /\ Cardinality(WeakHolders') =
              IF l \notin UncountedPcs /\ pc[p] \in UncountedPcs THEN Cardinality(WeakHolders) + 1
              ELSE IF l \in UncountedPcs /\ pc[p] \notin UncountedPcs THEN Cardinality(WeakHolders) - 1
              ELSE Cardinality(WeakHolders)
  <1>1. pc[p] \in PCs
    BY DEF TypeOK
  <1> DEFINE W == PCs \ UncountedPcs
  <1>2. (l \in W <=> l \notin UncountedPcs) /\ (pc[p] \in W <=> pc[p] \notin UncountedPcs)
    BY <1>1
  <1> HIDE DEF W
  <1>3. StrongHolders = At(StrongPcs) /\ WeakHolders = At(W)
    BY DEF StrongHolders, WeakHolders, W
  <1>4. StrongHolders' = At(StrongPcs)' /\ WeakHolders' = At(W)'
    BY DEF StrongHolders, WeakHolders, W
  <1> QED BY <1>2, <1>3, <1>4, MoveOne
(* What the exactness of the counters tells a thread that reads them.      *)
LEMMA CountersTell ==
  ASSUME TypeOK, CountersExact
  PROVE  /\ \A p \in Ptrs : pc[p] \in StrongPcs => mStrong # 0 /\ mStrong # INITIAL
         /\ \A p \in Ptrs : pc[p] \in Unbiasing => mStrong > INITIAL
         /\ mStrong > INITIAL => \E p \in Ptrs : pc[p] \in Unbiasing
         /\ \A p \in Ptrs : pc[p] \notin UncountedPcs => mWeak > 0
         /\ mWeak = 1 => \A p, q \in Ptrs :
              pc[p] \notin UncountedPcs /\ pc[q] \notin UncountedPcs => p = q
         /\ mWeak > 1 => \A p \in Ptrs : \E q \in Ptrs : q # p /\ pc[q] \notin UncountedPcs
  <1>1. /\ IsFiniteSet(StrongHolders) /\ Cardinality(StrongHolders) <= Cardinality(Ptrs)
        /\ IsFiniteSet(WeakHolders) /\ Cardinality(WeakHolders) <= Cardinality(Ptrs)
    <2>1. StrongHolders \in SUBSET Ptrs /\ WeakHolders \in SUBSET Ptrs
      BY DEF StrongHolders, WeakHolders, At
    <2> QED BY <2>1, PtrsFinite, FS_Subset
  <1>2. /\ Cardinality(StrongHolders) \in Nat /\ Cardinality(WeakHolders) \in Nat
        /\ Cardinality(Ptrs) \in Nat
        /\ Cardinality(StrongHolders) = 0 <=> StrongHolders = {}
        /\ Cardinality(WeakHolders) = 0 <=> WeakHolders = {}
    BY <1>1, PtrsFinite, FS_CardinalityType, FS_EmptySet
  <1>3. Cardinality(WeakHolders) = 1 <=> \E x : WeakHolders = {x}
    BY <1>1, FS_Singleton
  <1>4. \A p \in Ptrs : /\ p \in StrongHolders <=> pc[p] \in StrongPcs
                        /\ p \in WeakHolders <=> pc[p] \notin UncountedPcs
    BY DEF StrongHolders, WeakHolders, At, TypeOK
  <1>5. \A p \in Ptrs : pc[p] \in Unbiasing => pc[p] \in StrongPcs
    BY DEF StrongPcs
  <1>6. WeakHolders \in SUBSET Ptrs
    BY DEF WeakHolders, At
  <1>7. ASSUME NEW p \in Ptrs, pc[p] \in StrongPcs
        PROVE  /\ mStrong # 0 /\ mStrong # INITIAL
               /\ pc[p] \in Unbiasing => mStrong > INITIAL
    <2>1. StrongHolders # {}
      BY <1>4, <1>7
    <2>2. Cardinality(StrongHolders) > 0
      BY <1>2, <2>1
    <2> QED BY <1>1, <1>2, <2>1, <2>2, <1>7, InitialAboveCount DEF CountersExact
  <1>8. mStrong > INITIAL => \E p \in Ptrs : pc[p] \in Unbiasing
    <2>1. CASE mStrong = INITIAL
      BY <2>1, InitialAboveCount
    <2>2. CASE mStrong = Cardinality(StrongHolders)
      BY <2>2, <1>1, <1>2, InitialAboveCount
    <2> QED BY <2>1, <2>2 DEF CountersExact
  <1>9. mWeak = Cardinality(WeakHolders)
    BY DEF CountersExact
  <1>10. \A p \in Ptrs : pc[p] \notin UncountedPcs => mWeak > 0
    BY <1>2, <1>4, <1>9
  <1>11. mWeak = 1 => \A p, q \in Ptrs :
              pc[p] \notin UncountedPcs /\ pc[q] \notin UncountedPcs => p = q
    BY <1>3, <1>4, <1>9
  <1>12. ASSUME mWeak > 1, NEW p \in Ptrs
         PROVE  \E q \in Ptrs : q # p /\ pc[q] \notin UncountedPcs
    <2>1. WeakHolders # {} /\ WeakHolders # {p}
      BY <1>2, <1>3, <1>9, <1>12
    <2>2. \E q \in WeakHolders : q # p
      BY <2>1
    <2> QED BY <2>2, <1>4, <1>6
  <1> QED BY <1>5, <1>7, <1>8, <1>10, <1>11, <1>12

(* The counters stay exact when a handle's move and the counters agree: it *)
(* leaves mStrong alone, takes a count (and the bias, if it is the first), *)
(* gives one back, or removes the bias.                                    *)
LEMMA CountersMove ==
  ASSUME TypeOK, CountersExact, NEW p \in Ptrs, NEW l \in PCs, pc' = [pc EXCEPT ![p] = l],
         mWeak' = IF l \in UncountedPcs
                    THEN IF pc[p] \in UncountedPcs THEN mWeak ELSE mWeak - 1
                    ELSE IF pc[p] \in UncountedPcs THEN mWeak + 1 ELSE mWeak,
         \/ /\ mStrong' = mStrong
            /\ pc[p] \in StrongPcs <=> l \in StrongPcs
            /\ pc[p] \in Unbiasing <=> l \in Unbiasing
         \/ /\ mStrong' = mStrong + 1
            /\ pc[p] \notin StrongPcs /\ l \in StrongPcs
            /\ l \in Unbiasing <=> mStrong = INITIAL
         \/ /\ mStrong' = mStrong - 1
            /\ pc[p] \in StrongPcs \ Unbiasing /\ l \notin StrongPcs
         \/ /\ mStrong' = mStrong - INITIAL
            /\ pc[p] \in Unbiasing /\ l \in StrongPcs \ Unbiasing
  PROVE  CountersExact'
  <1>1. \A x : x \in Unbiasing => x \in StrongPcs
    BY DEF StrongPcs
  <1> DEFINE n == Cardinality(StrongHolders)
             m == Cardinality(StrongHolders')
             S == StrongPcs
             U == Unbiasing
  <1>2. /\ n \in Nat /\ n <= Cardinality(Ptrs) /\ Cardinality(Ptrs) \in Nat
        /\ n = 0 <=> StrongHolders = {}
        /\ m = IF l \in S /\ pc[p] \notin S THEN n + 1
               ELSE IF l \notin S /\ pc[p] \in S THEN n - 1 ELSE n
        /\ StrongHolders' = IF l \in S THEN StrongHolders \cup {p} ELSE StrongHolders \ {p}
    <2>1. Cardinality(Ptrs) \in Nat
      BY PtrsFinite, FS_CardinalityType
    <2>2. Cardinality(StrongHolders) \in 0 .. Cardinality(Ptrs)
      BY Counted
    <2>3. Cardinality(StrongHolders) = 0 <=> StrongHolders = {}
      BY Counted
    <2>4. StrongHolders' = IF l \in S THEN StrongHolders \cup {p} ELSE StrongHolders \ {p}
      BY Counted
    <2>5. m = IF l \in S /\ pc[p] \notin S THEN n + 1
              ELSE IF l \notin S /\ pc[p] \in S THEN n - 1 ELSE n
      BY Counted
    <2> HIDE DEF m, S
    <2> QED BY <2>1, <2>2, <2>3, <2>4, <2>5
  <1>3. mWeak' = Cardinality(WeakHolders')
    BY Counted DEF CountersExact
  <1>4. \A q \in Ptrs : pc'[q] = IF q = p THEN l ELSE pc[q]
    BY DEF TypeOK
  <1>5. pc[p] \in S => p \in StrongHolders
    BY DEF StrongHolders, At
  <1>6. INITIAL \in Nat /\ n < INITIAL
    BY <1>2, InitialAboveCount
  <1> SUFFICES \/ mStrong' = INITIAL /\ StrongHolders' = {}
               \/ /\ mStrong' = INITIAL + m
                  /\ \E r \in Ptrs : \A q \in Ptrs : pc'[q] \in U <=> q = r
               \/ /\ mStrong' = m
                  /\ \A q \in Ptrs : pc'[q] \notin U
    BY <1>3 DEF CountersExact
  <1>7. \/ mStrong = INITIAL /\ StrongHolders = {}
        \/ /\ mStrong = INITIAL + n
           /\ \E r \in Ptrs : \A q \in Ptrs : pc[q] \in U <=> q = r
        \/ /\ mStrong = n
           /\ \A q \in Ptrs : pc[q] \notin U
    BY DEF CountersExact
  <1>8. \A q \in Ptrs : pc[q] \in U => q \in StrongHolders
    BY <1>1 DEF StrongHolders, At
  <1> HIDE DEF n, m, S, U
  <1>9. CASE mStrong' = mStrong /\ (pc[p] \in S <=> l \in S) /\ (pc[p] \in U <=> l \in U)
    BY <1>2, <1>4, <1>5, <1>7, <1>9
  <1>10. CASE mStrong' = mStrong + 1 /\ pc[p] \notin S /\ l \in S /\ (l \in U <=> mStrong = INITIAL)
    <2>1. CASE mStrong = INITIAL
      <3>1. StrongHolders = {} /\ n = 0
        BY <2>1, <1>2, <1>6, <1>7
      <3>2. \A q \in Ptrs : pc'[q] \in U <=> q = p
        BY <3>1, <1>4, <1>8, <1>10, <2>1
      <3> QED BY <1>2, <1>6, <1>10, <2>1, <3>1, <3>2
    <2>2. CASE mStrong # INITIAL
      <3>1. CASE mStrong = n /\ \A q \in Ptrs : pc[q] \notin U
        BY <1>2, <1>4, <1>10, <2>2, <3>1
      <3>2. ASSUME mStrong = INITIAL + n, NEW r \in Ptrs,
                   \A q \in Ptrs : pc[q] \in U <=> q = r
            PROVE  \A q \in Ptrs : pc'[q] \in U <=> q = r
        <4>1. p # r
          BY <3>2, <1>8, <1>5, <1>1, <1>10 DEF S, U
        <4> QED BY <1>4, <1>10, <2>2, <3>2, <4>1
      <3> QED BY <1>2, <1>6, <1>7, <1>10, <2>2, <3>1, <3>2
    <2> QED BY <2>1, <2>2
  <1>11. CASE mStrong' = mStrong - 1 /\ pc[p] \in S /\ pc[p] \notin U /\ l \notin S
    <2>1. l \notin U
      BY <1>1, <1>11 DEF S, U
    <2> QED BY <1>2, <1>4, <1>5, <1>6, <1>7, <1>11, <2>1
  <1>12. CASE mStrong' = mStrong - INITIAL /\ pc[p] \in U /\ l \in S /\ l \notin U
    <2>1. pc[p] \in S
      BY <1>1, <1>12 DEF S, U
    <2> QED BY <1>2, <1>4, <1>5, <1>6, <1>7, <1>12, <2>1
  <1> QED BY <1>9, <1>10, <1>11, <1>12 DEF S, U

(* Every operation moves a handle and the counters in step.                *)
LEMMA CountersNext ==
  ASSUME IInv, NEW p \in Ptrs, Begin(p) \/ Continue(p) \/ Release(p)
  PROVE  CountersExact'
  <1> USE InitialAboveCount, CountersMove
      DEF IInv, PCs, Settled, Unbiasing, StrongPcs, UncountedPcs, Goto
  <1>1. ASSUME NEW s \in Ptrs \cup {Raw}, IncStrong(p, s) PROVE CountersExact'
    BY <1>1 DEF IncStrong
  <1>2. CASE IncStrongAdd(p)
    BY <1>2 DEF IncStrongAdd
  <1>3. CASE IncStrongSub(p)
    BY <1>3 DEF IncStrongSub
  <1>4. CASE OnFirstRef(p)
    BY <1>4 DEF OnFirstRef
  <1>5. CASE DecStrong(p)
    BY <1>5 DEF DecStrong
  <1>6. CASE OnLastStrongRef(p)
    BY <1>6 DEF OnLastStrongRef
  <1>7. CASE DeleteThis(p)
    BY <1>7 DEF DeleteThis
  <1>8. ASSUME NEW s \in Ptrs \cup {Raw}, IncWeak(p, s) PROVE CountersExact'
    BY <1>8 DEF IncWeak
  <1>9. ASSUME NEW s \in Ptrs \cup {Raw}, AttemptIncWeak(p, s) PROVE CountersExact'
    BY <1>9 DEF AttemptIncWeak
  <1>10. CASE AttemptIncWeakCas(p)
    <2>1. CASE UNCHANGED <<mWeak, pc>>
      BY <1>10, <2>1 DEF AttemptIncWeakCas, CountersExact, StrongHolders, WeakHolders, At
    <2>2. CASE mWeak' = mWeak + 1 /\ Goto(p, "wp")
      BY <1>10, <2>2 DEF AttemptIncWeakCas
    <2> QED BY <1>10, <2>1, <2>2 DEF AttemptIncWeakCas
  <1>11. CASE ReleaseWeak(p)
    BY <1>11 DEF ReleaseWeak, DecWeakSub
  <1>12. CASE DecWeak(p)
    BY <1>12 DEF DecWeak, DecWeakSub
  <1>13. CASE LastWeakRef(p)
    BY <1>13 DEF LastWeakRef
  <1>14. ASSUME NEW s \in Ptrs \cup {Raw}, AttemptIncStrong(p, s) PROVE CountersExact'
    BY <1>14 DEF AttemptIncStrong
  <1>15. CASE AttemptLoad(p)
    BY <1>15 DEF AttemptLoad
  <1>16. CASE AttemptCas1(p)
    BY <1>16 DEF AttemptCas1, PromoteKnows, Promotable
  <1>17. CASE AttemptFlags(p)
    BY <1>17 DEF AttemptFlags
  <1>18. CASE AttemptCas2(p)
    BY <1>18 DEF AttemptCas2
  <1>19. CASE AttemptAdd(p)
    BY <1>19 DEF AttemptAdd
  <1>20. CASE AttemptLastRef(p)
    BY <1>20 DEF AttemptLastRef
  <1>21. CASE AttemptSub(p)
    BY <1>21 DEF AttemptSub
  <1> QED
    BY <1>1, <1>2, <1>3, <1>4, <1>5, <1>6, <1>7, <1>8, <1>9, <1>10, <1>11, <1>12, <1>13, <1>14,
        <1>15, <1>16, <1>17, <1>18, <1>19, <1>20, <1>21
    DEF Begin, Continue, Release

(* CountersTell, as a formula.                                             *)
LEMMA NotInitial ==
  TypeOK /\ CountersExact => \A q \in Ptrs : pc[q] \in StrongPcs => mStrong # INITIAL
  BY CountersTell

(* What is on its way down shows that the raw pointer is out of use.       *)
LEMMA RawReleases ==
  ASSUME RawProtects, NEW p \in Ptrs, pc[p] \in Deleting \cup {"decW", "decW.last"}
  PROVE  ~raw
  BY DEF RawProtects

(* Exact counters are bounded by the number of handles.                    *)
LEMMA CountersBounded ==
  CountersExact =>
    mStrong \in 0 .. (INITIAL + Cardinality(Ptrs)) /\ mWeak \in 0 .. Cardinality(Ptrs)
  <1>1. StrongHolders \in SUBSET Ptrs /\ WeakHolders \in SUBSET Ptrs
    BY DEF StrongHolders, WeakHolders, At
  <1>2. /\ IsFiniteSet(StrongHolders) /\ Cardinality(StrongHolders) <= Cardinality(Ptrs)
        /\ IsFiniteSet(WeakHolders) /\ Cardinality(WeakHolders) <= Cardinality(Ptrs)
    BY <1>1, PtrsFinite, FS_Subset
  <1>3. /\ Cardinality(StrongHolders) \in Nat /\ Cardinality(WeakHolders) \in Nat
        /\ Cardinality(Ptrs) \in Nat
    BY <1>2, PtrsFinite, FS_CardinalityType
  <1> QED BY <1>2, <1>3, InitialAboveCount DEF CountersExact

(* The locals and flags keep their types, and exact counters are bounded.  *)
LEMMA TypeNext ==
  ASSUME IInv, NEW p \in Ptrs, Begin(p) \/ Continue(p) \/ Release(p)
  PROVE  TypeOK'
  <1>0. mStrong' \in 0 .. (INITIAL + Cardinality(Ptrs)) /\ mWeak' \in 0 .. Cardinality(Ptrs)
    <2>1. CountersExact'
      BY CountersNext
    <2>2. (CountersExact => /\ mStrong \in 0 .. (INITIAL + Cardinality(Ptrs))
                            /\ mWeak \in 0 .. Cardinality(Ptrs))'
      BY CountersBounded, PTL
    <2> QED BY <2>1, <2>2
  <1>00. Cardinality(Ptrs) \in Nat
    BY PtrsFinite, FS_CardinalityType
  <1> USE <1>0, <1>00, InitialAboveCount
      DEF IInv, TypeOK, PCs, Settled, Unbiasing, StrongPcs, UncountedPcs, Goto
  <1>1. CASE Begin(p)
    BY <1>1 DEF IncStrong, IncWeak, AttemptIncWeak, AttemptIncStrong, Begin
  <1>2. CASE Release(p)
    BY <1>2 DEF DecStrong, ReleaseWeak, DecWeakSub, Release
  <1>3. CASE IncStrongAdd(p) \/ IncStrongSub(p) \/ OnFirstRef(p)
    BY <1>3 DEF IncStrongAdd, IncStrongSub, OnFirstRef
  <1>4. CASE OnLastStrongRef(p) \/ DeleteThis(p)
    BY <1>4 DEF OnLastStrongRef, DeleteThis
  <1>5. CASE DecWeak(p)
    BY <1>5 DEF DecWeak, DecWeakSub
  <1>6. CASE LastWeakRef(p)
    BY <1>6 DEF LastWeakRef
  <1>7. CASE AttemptIncWeakCas(p)
    BY <1>7 DEF AttemptIncWeakCas
  <1>8. CASE AttemptLoad(p) \/ AttemptFlags(p)
    BY <1>8 DEF AttemptLoad, AttemptFlags
  <1>9. CASE AttemptCas1(p)
    BY <1>9 DEF AttemptCas1
  <1>10. CASE AttemptCas2(p)
    BY <1>10 DEF AttemptCas2
  <1>11. CASE AttemptAdd(p)
    BY <1>11 DEF AttemptAdd
  <1>12. CASE AttemptLastRef(p) \/ AttemptSub(p)
    BY <1>12 DEF AttemptLastRef, AttemptSub
  <1> QED
    BY <1>1, <1>2, <1>3, <1>4, <1>5, <1>6, <1>7, <1>8, <1>9, <1>10, <1>11, <1>12 DEF Continue

(* A source is not released while a copy from it is under way.             *)
LEMMA SourcesNext ==
  ASSUME IInv, NEW p \in Ptrs, Begin(p) \/ Continue(p) \/ Release(p)
  PROVE  SourcesHeld'
  <1> USE InitialAboveCount, RawNotPtr, CountersTell
      DEF IInv, TypeOK, PCs, Settled, Unbiasing, StrongPcs, UncountedPcs, Goto, SourcesHeld,
          StrongSource, Pinned, RawProtects
  <1>1. CASE Begin(p)
    BY <1>1 DEF IncStrong, IncWeak, AttemptIncWeak, AttemptIncStrong, Begin
  <1>2. CASE Release(p)
    BY <1>2 DEF DecStrong, ReleaseWeak, DecWeakSub, Release
  <1>3. CASE IncStrongAdd(p) \/ IncStrongSub(p) \/ OnFirstRef(p)
    BY <1>3 DEF IncStrongAdd, IncStrongSub, OnFirstRef
  <1>4. CASE OnLastStrongRef(p) \/ DeleteThis(p)
    BY <1>4 DEF OnLastStrongRef, DeleteThis
  <1>5. CASE DecWeak(p)
    BY <1>5 DEF DecWeak, DecWeakSub
  <1>6. CASE LastWeakRef(p)
    BY <1>6 DEF LastWeakRef
  <1>7. CASE AttemptIncWeakCas(p)
    BY <1>7 DEF AttemptIncWeakCas
  <1>8. CASE AttemptLoad(p) \/ AttemptFlags(p)
    BY <1>8 DEF AttemptLoad, AttemptFlags
  <1>9. CASE AttemptCas1(p)
    BY <1>9 DEF AttemptCas1
  <1>10. CASE AttemptCas2(p)
    BY <1>10 DEF AttemptCas2
  <1>11. CASE AttemptAdd(p)
    BY <1>11 DEF AttemptAdd
  <1>12. CASE AttemptLastRef(p) \/ AttemptSub(p)
    BY <1>12 DEF AttemptLastRef, AttemptSub
  <1> QED
    BY <1>1, <1>2, <1>3, <1>4, <1>5, <1>6, <1>7, <1>8, <1>9, <1>10, <1>11, <1>12 DEF Continue

(* The rule for the raw pointer keeps the object up.                       *)
LEMMA RawNext ==
  ASSUME IInv, NEW p \in Ptrs, Begin(p) \/ Continue(p) \/ Release(p)
  PROVE  RawProtects'
  <1> USE InitialAboveCount, RawNotPtr, CountersTell
      DEF IInv, TypeOK, PCs, Settled, Unbiasing, StrongPcs, UncountedPcs, Goto, RawProtects,
          Promotable, PromoteKnows, Deleting
  <1>1. CASE Begin(p)
    <2> PICK s \in Ptrs \cup {Raw} : \/ IncStrong(p, s) \/ IncWeak(p, s)
                                      \/ AttemptIncWeak(p, s) \/ AttemptIncStrong(p, s)
      BY <1>1 DEF Begin
    <2>1. CASE IncStrong(p, s)
      BY <2>1 DEF IncStrong
    <2>2. CASE IncWeak(p, s)
      BY <2>2 DEF IncWeak
    <2>3. CASE AttemptIncWeak(p, s)
      BY <2>3 DEF AttemptIncWeak
    <2>4. CASE AttemptIncStrong(p, s)
      BY <2>4 DEF AttemptIncStrong
    <2> QED BY <2>1, <2>2, <2>3, <2>4
  <1>2. CASE Release(p)
    BY <1>2 DEF DecStrong, ReleaseWeak, DecWeakSub, Release
  <1>3. CASE IncStrongAdd(p)
    BY <1>3 DEF IncStrongAdd
  <1>4. CASE IncStrongSub(p)
    BY <1>4 DEF IncStrongSub
  <1>5. CASE OnFirstRef(p)
    BY <1>5 DEF OnFirstRef
  <1>6. CASE DeleteThis(p)
    <2>1. ~raw
      BY <1>6, RawReleases DEF DeleteThis
    <2> QED BY <1>6, <2>1 DEF DeleteThis
  <1>7. CASE OnLastStrongRef(p)
    BY <1>7 DEF OnLastStrongRef
  <1>8. CASE DecWeak(p)
    BY <1>8 DEF DecWeak, DecWeakSub
  <1>9. CASE LastWeakRef(p)
    <2>1. ~raw
      BY <1>9, RawReleases DEF LastWeakRef
    <2> QED BY <1>9, <2>1 DEF LastWeakRef
  <1>10. CASE AttemptIncWeakCas(p)
    BY <1>10 DEF AttemptIncWeakCas
  <1>11. CASE AttemptLoad(p)
    BY <1>11 DEF AttemptLoad
  <1>12. CASE AttemptFlags(p)
    BY <1>12 DEF AttemptFlags
  <1>13. CASE AttemptCas1(p)
    BY <1>13 DEF AttemptCas1
  <1>14. CASE AttemptCas2(p)
    BY <1>14 DEF AttemptCas2
  <1>15. CASE AttemptAdd(p)
    BY <1>15 DEF AttemptAdd
  <1>16. CASE AttemptLastRef(p)
    BY <1>16 DEF AttemptLastRef
  <1>17. CASE AttemptSub(p)
    BY <1>17 DEF AttemptSub
  <1> QED
    BY <1>1, <1>2, <1>3, <1>4, <1>5, <1>6, <1>7, <1>8, <1>9, <1>10, <1>11, <1>12, <1>13, <1>14,
        <1>15, <1>16, <1>17
    DEF Continue

(* What a promote has read stays a safe basis for what it does next.       *)
LEMMA PromoteNext ==
  ASSUME IInv, NEW p \in Ptrs, Begin(p) \/ Continue(p) \/ Release(p)
  PROVE  PromoteKnows'
  <1> USE InitialAboveCount, RawNotPtr, CountersTell
      DEF IInv, TypeOK, PCs, Settled, Unbiasing, StrongPcs, UncountedPcs, Goto, PromoteKnows,
          Promotable, SourcesHeld
  <1>1. CASE Begin(p)
    BY <1>1 DEF IncStrong, IncWeak, AttemptIncWeak, AttemptIncStrong, Begin
  <1>2. CASE Release(p)
    BY <1>2 DEF DecStrong, ReleaseWeak, DecWeakSub, Release
  <1>3. CASE IncStrongAdd(p)
    <2>1. mStrong # 0
      BY <1>3 DEF IncStrongAdd, StrongSource, RawProtects
    <2> QED BY <1>3, <2>1 DEF IncStrongAdd
  <1>4. CASE IncStrongSub(p) \/ OnFirstRef(p)
    BY <1>4 DEF IncStrongSub, OnFirstRef
  <1>5. CASE OnLastStrongRef(p) \/ DeleteThis(p)
    BY <1>5 DEF OnLastStrongRef, DeleteThis
  <1>6. CASE DecWeak(p)
    BY <1>6 DEF DecWeak, DecWeakSub
  <1>7. CASE LastWeakRef(p)
    BY <1>7 DEF LastWeakRef
  <1>8. CASE AttemptIncWeakCas(p)
    BY <1>8 DEF AttemptIncWeakCas
  <1>9. CASE AttemptLoad(p) \/ AttemptFlags(p)
    BY <1>9 DEF AttemptLoad, AttemptFlags
  <1>10. CASE AttemptCas1(p)
    BY <1>10 DEF AttemptCas1
  <1>11. CASE AttemptCas2(p)
    BY <1>11 DEF AttemptCas2
  <1>12. CASE AttemptAdd(p)
    BY <1>12 DEF AttemptAdd
  <1>13. CASE AttemptLastRef(p) \/ AttemptSub(p)
    BY <1>13 DEF AttemptLastRef, AttemptSub
  <1> QED
    BY <1>1, <1>2, <1>3, <1>4, <1>5, <1>6, <1>7, <1>8, <1>9, <1>10, <1>11, <1>12, <1>13
    DEF Continue

(* The thread that sees a count drop to zero is alone in doing so.         *)
LEMMA DeleterNext ==
  ASSUME IInv, NEW p \in Ptrs, Begin(p) \/ Continue(p) \/ Release(p)
  PROVE  OneDeleter'
  <1> USE InitialAboveCount, RawNotPtr, CountersTell
      DEF IInv, TypeOK, PCs, Settled, Unbiasing, StrongPcs, UncountedPcs, Goto, OneDeleter,
          Deleting, RawProtects, SourcesHeld, Pinned, PromoteKnows, StrongSource
  <1>1. CASE Begin(p)
    BY <1>1 DEF IncStrong, IncWeak, AttemptIncWeak, AttemptIncStrong, Begin
  <1>2. CASE Release(p)
    BY <1>2 DEF DecStrong, ReleaseWeak, DecWeakSub, Release
  <1>3. CASE IncStrongAdd(p) \/ IncStrongSub(p) \/ OnFirstRef(p)
    BY <1>3 DEF IncStrongAdd, IncStrongSub, OnFirstRef
  <1>4. CASE OnLastStrongRef(p) \/ DeleteThis(p)
    BY <1>4 DEF OnLastStrongRef, DeleteThis
  <1>5. CASE DecWeak(p)
    <2>1. ~raw
      BY <1>5, RawReleases DEF DecWeak
    <2>2. ASSUME mWeak = 1, NEW q \in Ptrs, q # p PROVE pc[q] = "null"
      <3>1. pc[q] \in UncountedPcs
        BY <1>5, <2>2 DEF DecWeak
      <3>2. pc[q] # "decW.last"
        BY <1>5, <2>2 DEF DecWeak
      <3>3. pc[q] # "attW.cas"
        BY <1>5, <2>2 DEF DecWeak
      <3> QED BY <3>1, <3>2, <3>3
    <2> QED BY <1>5, <2>1, <2>2 DEF DecWeak, DecWeakSub
  <1>6. CASE LastWeakRef(p)
    BY <1>6 DEF LastWeakRef
  <1>7. CASE AttemptIncWeakCas(p)
    BY <1>7 DEF AttemptIncWeakCas
  <1>8. CASE AttemptLoad(p) \/ AttemptFlags(p)
    BY <1>8 DEF AttemptLoad, AttemptFlags
  <1>9. CASE AttemptCas1(p)
    BY <1>9 DEF AttemptCas1, Promotable
  <1>10. CASE AttemptCas2(p)
    BY <1>10 DEF AttemptCas2
  <1>11. CASE AttemptAdd(p)
    BY <1>11 DEF AttemptAdd
  <1>12. CASE AttemptLastRef(p) \/ AttemptSub(p)
    BY <1>12 DEF AttemptLastRef, AttemptSub
  <1> QED
    BY <1>1, <1>2, <1>3, <1>4, <1>5, <1>6, <1>7, <1>8, <1>9, <1>10, <1>11, <1>12 DEF Continue

(* The object and the impl are deleted when, and only when, nothing needs them.*)
LEMMA LifeNext ==
  ASSUME IInv, NEW p \in Ptrs, Begin(p) \/ Continue(p) \/ Release(p)
  PROVE  (Lifecycle /\ Reclaimed)'
  <1> USE InitialAboveCount, RawNotPtr, CountersTell
      DEF IInv, TypeOK, PCs, Settled, Unbiasing, StrongPcs, UncountedPcs, Goto, Lifecycle,
          Reclaimed, AllGone, Outlived, Deleting, RawProtects, OneDeleter, SourcesHeld,
          StrongSource
  <1>1. CASE Begin(p)
    BY <1>1 DEF IncStrong, IncWeak, AttemptIncWeak, AttemptIncStrong, Begin
  <1>2. CASE Release(p)
    BY <1>2 DEF DecStrong, ReleaseWeak, DecWeakSub, Release
  <1>3. CASE IncStrongAdd(p) \/ IncStrongSub(p) \/ OnFirstRef(p)
    BY <1>3 DEF IncStrongAdd, IncStrongSub, OnFirstRef
  <1>4. CASE OnLastStrongRef(p) \/ DeleteThis(p)
    BY <1>4 DEF OnLastStrongRef, DeleteThis
  <1>5. CASE DecWeak(p)
    BY <1>5 DEF DecWeak, DecWeakSub
  <1>6. CASE LastWeakRef(p)
    <2>1. ~raw /\ mWeak = 0 /\ \A q \in Ptrs \ {p} : pc[q] = "null"
      BY <1>6 DEF LastWeakRef
    <2>2. AllGone'
      BY <1>6, <2>1 DEF LastWeakRef
    <2>3. CASE lifetime = "WEAK"
      BY <1>6, <2>1, <2>2, <2>3 DEF LastWeakRef
    <2>4. CASE lifetime = "STRONG" /\ mStrong = INITIAL
      BY <1>6, <2>1, <2>2, <2>4 DEF LastWeakRef
    <2>5. CASE lifetime = "STRONG" /\ mStrong # INITIAL
      <3>1. \A q \in Ptrs : pc[q] \notin StrongPcs /\ pc[q] \notin Unbiasing
        BY <1>6, <2>1 DEF LastWeakRef
      <3>2. StrongHolders = {}
        BY <3>1 DEF StrongHolders, At
      <3>3. mStrong = 0
        BY <2>5, <3>1, <3>2, FS_EmptySet DEF CountersExact
      <3> QED BY <1>6, <2>1, <2>2, <2>5, <3>3 DEF LastWeakRef
    <2> QED BY <2>3, <2>4, <2>5
  <1>7. CASE AttemptIncWeakCas(p)
    BY <1>7 DEF AttemptIncWeakCas
  <1>8. CASE AttemptLoad(p) \/ AttemptFlags(p)
    BY <1>8 DEF AttemptLoad, AttemptFlags
  <1>9. CASE AttemptCas1(p)
    BY <1>9 DEF AttemptCas1, PromoteKnows, Promotable
  <1>10. CASE AttemptCas2(p)
    BY <1>10 DEF AttemptCas2, PromoteKnows
  <1>11. CASE AttemptAdd(p)
    BY <1>11 DEF AttemptAdd, PromoteKnows
  <1>12. CASE AttemptLastRef(p) \/ AttemptSub(p)
    BY <1>12 DEF AttemptLastRef, AttemptSub
  <1> QED
    BY <1>1, <1>2, <1>3, <1>4, <1>5, <1>6, <1>7, <1>8, <1>9, <1>10, <1>11, <1>12 DEF Continue

(* Only the first incStrong can reach onFirstRef.                          *)
LEMMA FirstNext ==
  ASSUME IInv, NEW p \in Ptrs, Begin(p) \/ Continue(p) \/ Release(p)
  PROVE  (FirstRefPending /\ FirstRefOnce)'
  <1>0. (\E q \in Ptrs : pc'[q] \in StrongPcs) => mStrong' # INITIAL
    <2>1. TypeOK' /\ CountersExact'
      BY CountersNext, TypeNext
    <2>2. (TypeOK /\ CountersExact =>
             \A q \in Ptrs : pc[q] \in StrongPcs => mStrong # INITIAL)'
      BY NotInitial, PTL
    <2> QED BY <2>1, <2>2
  <1>00. Cardinality(Ptrs) \in Nat
    BY PtrsFinite, FS_CardinalityType
  <1> USE InitialAboveCount, RawNotPtr, CountersTell, <1>0, <1>00
      DEF IInv, TypeOK, PCs, Settled, Unbiasing, StrongPcs, UncountedPcs, Goto, FirstRefPending,
          FirstRefOnce
  <1>1. CASE Begin(p)
    BY <1>1 DEF IncStrong, IncWeak, AttemptIncWeak, AttemptIncStrong, Begin
  <1>2. CASE Release(p)
    BY <1>2 DEF DecStrong, ReleaseWeak, DecWeakSub, Release
  <1>3. CASE IncStrongAdd(p) \/ IncStrongSub(p) \/ OnFirstRef(p)
    BY <1>3 DEF IncStrongAdd, IncStrongSub, OnFirstRef
  <1>4. CASE OnLastStrongRef(p) \/ DeleteThis(p)
    BY <1>4 DEF OnLastStrongRef, DeleteThis
  <1>5. CASE DecWeak(p)
    BY <1>5 DEF DecWeak, DecWeakSub
  <1>6. CASE LastWeakRef(p)
    BY <1>6 DEF LastWeakRef
  <1>7. CASE AttemptIncWeakCas(p)
    BY <1>7 DEF AttemptIncWeakCas
  <1>8. CASE AttemptLoad(p) \/ AttemptFlags(p)
    BY <1>8 DEF AttemptLoad, AttemptFlags
  <1>9. CASE AttemptCas1(p)
    BY <1>9 DEF AttemptCas1
  <1>10. CASE AttemptCas2(p)
    BY <1>10 DEF AttemptCas2
  <1>11. CASE AttemptAdd(p)
    BY <1>11 DEF AttemptAdd
  <1>12. CASE AttemptLastRef(p) \/ AttemptSub(p)
    BY <1>12 DEF AttemptLastRef, AttemptSub
  <1> QED
    BY <1>1, <1>2, <1>3, <1>4, <1>5, <1>6, <1>7, <1>8, <1>9, <1>10, <1>11, <1>12 DEF Continue

-----------------------------------------------------------------------------
(* The invariant holds of a new object.                                    *)
LEMMA IInvInit == Init => IInv
  <1> SUFFICES ASSUME Init PROVE IInv
    OBVIOUS
  <1>1. Cardinality(Ptrs) \in Nat
    BY PtrsFinite, FS_CardinalityType
  <1>2. StrongHolders = {} /\ WeakHolders = {}
    BY DEF Init, StrongHolders, WeakHolders, At, StrongPcs, UncountedPcs, Unbiasing, Settled
  <1>3. CountersExact
    BY <1>2, FS_EmptySet DEF Init, CountersExact
  <1>4. TypeOK
    BY <1>1, InitialAboveCount DEF Init, TypeOK, PCs, Settled
  <1>5. mStrong # 0
    BY <1>1, InitialAboveCount DEF Init
  <1>6. SourcesHeld /\ RawProtects /\ PromoteKnows /\ OneDeleter
    BY <1>5 DEF Init, SourcesHeld, RawProtects, PromoteKnows, OneDeleter, Deleting
  <1>7. Lifecycle /\ Reclaimed /\ FirstRefPending /\ FirstRefOnce
    BY <1>5 DEF Init, Lifecycle, Reclaimed, AllGone, Outlived, FirstRefPending, FirstRefOnce
  <1> QED BY <1>3, <1>4, <1>6, <1>7 DEF IInv

(* The steps that move no handle.                                          *)
LEMMA CreatorNext ==
  ASSUME IInv, DropRaw \/ ExplicitDelete \/ UNCHANGED vars
  PROVE  IInv'
  <1>1. CountersExact'
    BY DEF IInv, CountersExact, StrongHolders, WeakHolders, At, DropRaw, ExplicitDelete, vars
  <1>2. TypeOK'
    BY DEF IInv, TypeOK, DropRaw, ExplicitDelete, vars
  <1>3. SourcesHeld' /\ PromoteKnows'
    BY RawNotPtr DEF IInv, TypeOK, SourcesHeld, StrongSource, PromoteKnows, Promotable,
       DropRaw, ExplicitDelete, vars
  <1>4. RawProtects' /\ OneDeleter'
    BY DEF IInv, TypeOK, RawProtects, OneDeleter, DropRaw, ExplicitDelete, vars
  <1>5. FirstRefPending' /\ FirstRefOnce'
    BY DEF IInv, FirstRefPending, FirstRefOnce, DropRaw, ExplicitDelete, vars
  <1>6. CASE DropRaw \/ UNCHANGED vars
    <2>1. (Lifecycle /\ Reclaimed)'
      BY <1>6
      DEF IInv, TypeOK, Lifecycle, Reclaimed, AllGone, Outlived, RawProtects, DropRaw, vars
    <2> QED BY <1>1, <1>2, <1>3, <1>4, <1>5, <2>1 DEF IInv
  <1>7. CASE ExplicitDelete
    <2>1. StrongHolders = {}
      BY <1>7 DEF ExplicitDelete, StrongHolders, At, StrongPcs, Unbiasing
    <2>2. mStrong = INITIAL
      BY <1>7, <2>1, FS_EmptySet DEF IInv, CountersExact, RawProtects, ExplicitDelete, Unbiasing
    <2>3. (Lifecycle /\ Reclaimed)'
      BY <1>7, <2>2 DEF IInv, TypeOK, Lifecycle, Reclaimed, AllGone, Outlived, RawProtects,
         ExplicitDelete
    <2> QED BY <1>1, <1>2, <1>3, <1>4, <1>5, <2>3 DEF IInv
  <1> QED BY <1>6, <1>7

(* The invariant is inductive.                                             *)
LEMMA IInvNext == IInv /\ [Next]_vars => IInv'
  <1>1. ASSUME IInv, NEW p \in Ptrs, Begin(p) \/ Continue(p) \/ Release(p)
        PROVE  IInv'
    BY <1>1, TypeNext, CountersNext, SourcesNext, RawNext, PromoteNext, DeleterNext, LifeNext,
       FirstNext DEF IInv
  <1> QED BY <1>1, CreatorNext DEF Next

(* The inductive invariant holds in every reachable state.                 *)
THEOREM Invariance == Spec => []IInv
  BY IInvInit, IInvNext, PTL DEF Spec

(* All state stays of its type: mStrong and mWeak are bounded by the       *)
(* number of handles, so the 32-bit counters never wrap or go negative.    *)
THEOREM TypeCorrect == Spec => []TypeOK
  <1>1. IInv => TypeOK
    BY DEF IInv
  <1> QED BY <1>1, Invariance, PTL

(* The counters are exact at every step, whatever threads interleave.      *)
THEOREM CountersAreExact == Spec => []CountersExact
  <1>1. IInv => CountersExact
    BY DEF IInv
  <1> QED BY <1>1, Invariance, PTL

(* No operation touches freed memory, for any number of handles.           *)
THEOREM MemorySafety == Spec => []NoUseAfterFree
  <1>1. IInv => NoUseAfterFree
    <2> SUFFICES ASSUME IInv, NEW p \in Ptrs
                 PROVE  /\ pc[p] # "null" => implLive
                        /\ UsesObj(p) => objLive
      BY DEF NoUseAfterFree
    <2>1. pc[p] # "null" => implLive
      BY DEF IInv, TypeOK, Lifecycle, AllGone
    <2>2. UsesObj(p) => pc[p] # "null" /\ ~Outlived
      BY CountersTell
      DEF IInv, UsesObj, ObjPcs, Outlived, Deleting, StrongPcs, Unbiasing, PromoteKnows,
          OneDeleter
    <2>3. UsesObj(p) => objLive
      BY <2>2 DEF IInv, TypeOK, Lifecycle, AllGone
    <2> QED BY <2>1, <2>3
  <1> QED BY <1>1, Invariance, PTL

(* Nothing is leaked once the last handle is gone.                         *)
THEOREM Reclamation == Spec => []Reclaimed
  <1>1. IInv => Reclaimed
    BY DEF IInv
  <1> QED BY <1>1, Invariance, PTL

(* onFirstRef is called at most once.                                      *)
THEOREM FirstRefCalledOnce == Spec => []FirstRefOnce
  <1>1. IInv => FirstRefOnce
    BY DEF IInv
  <1> QED BY <1>1, Invariance, PTL

(* Zero is final for the strong count of a STRONG object.                  *)
THEOREM ZeroIsFinal == Spec => NoRevival
  <1>1. IInv /\ [Next]_vars => [lifetime = "STRONG" /\ mStrong = 0 => mStrong' = 0]_vars
    <2> SUFFICES ASSUME IInv, Next, lifetime = "STRONG", mStrong = 0 PROVE mStrong' = 0
      BY DEF vars
    <2>1. ASSUME NEW p \in Ptrs, Continue(p) PROVE mStrong' = 0
      <3>1. CASE IncStrongAdd(p)
        BY <3>1, CountersTell
        DEF IInv, IncStrongAdd, SourcesHeld, StrongSource, RawProtects, StrongPcs
      <3>2. CASE IncStrongSub(p) \/ AttemptSub(p)
        BY <3>2, CountersTell DEF IInv, IncStrongSub, AttemptSub, StrongPcs, Unbiasing
      <3>3. CASE AttemptCas1(p) \/ AttemptCas2(p) \/ AttemptAdd(p)
        BY <3>3
        DEF IInv, TypeOK, AttemptCas1, AttemptCas2, AttemptAdd, PromoteKnows, Promotable
      <3> QED
        BY <2>1, <3>1, <3>2, <3>3
        DEF Continue, OnFirstRef, OnLastStrongRef, DeleteThis, DecWeak, DecWeakSub, LastWeakRef,
            AttemptIncWeakCas, AttemptLoad, AttemptFlags, AttemptLastRef
    <2>2. ASSUME NEW p \in Ptrs, Begin(p) PROVE mStrong' = 0
      BY <2>2 DEF Begin, IncStrong, IncWeak, AttemptIncWeak, AttemptIncStrong
    <2>3. ASSUME NEW p \in Ptrs, Release(p) PROVE mStrong' = 0
      BY <2>3, CountersTell DEF IInv, Release, DecStrong, ReleaseWeak, DecWeakSub, StrongPcs
    <2> QED BY <2>1, <2>2, <2>3 DEF Next, DropRaw, ExplicitDelete
  <1> QED BY <1>1, Invariance, PTL DEF Spec, NoRevival

(* A promote of a STRONG object fails only if no strong reference is left. *)
THEOREM PromoteIsFaithful == Spec => PromoteFailsOnlyWhenDead
  <1>1. IInv /\ [Next]_vars =>
          [\A p \in Ptrs : (pc[p] \in {"att.flags", "att.cas2"} /\ pc'[p] = "decW")
                             => StrongHolders = {} /\ mStrong = 0]_vars
    <2> SUFFICES ASSUME IInv, Next, NEW p \in Ptrs,
                        pc[p] \in {"att.flags", "att.cas2"}, pc'[p] = "decW"
                 PROVE  StrongHolders = {} /\ mStrong = 0
      BY DEF vars
    <2>1. mStrong = 0
      <3>1. PICK q \in Ptrs : Begin(q) \/ Continue(q) \/ Release(q)
        BY DEF Next, DropRaw, ExplicitDelete
      <3>2. \E l \in PCs : pc' = [pc EXCEPT ![q] = l]
        BY <3>1
        DEF IInv, TypeOK, PCs, Settled, Unbiasing, Goto, Begin, Continue, Release, IncStrong,
            IncStrongAdd, IncStrongSub, OnFirstRef, DecStrong, OnLastStrongRef, DeleteThis,
            IncWeak, AttemptIncWeak, AttemptIncWeakCas, DecWeakSub, ReleaseWeak, DecWeak,
            LastWeakRef, AttemptIncStrong, AttemptLoad, AttemptCas1, AttemptFlags, AttemptCas2,
            AttemptAdd, AttemptLastRef, AttemptSub
      <3>3. q = p
        BY <3>2 DEF IInv, TypeOK
      <3>4. AttemptFlags(p) \/ AttemptCas2(p)
        BY <3>1, <3>3
        DEF Begin, Continue, Release, IncStrong, IncStrongAdd, IncStrongSub, OnFirstRef,
            DecStrong, OnLastStrongRef, DeleteThis, IncWeak, AttemptIncWeak, AttemptIncWeakCas,
            ReleaseWeak, DecWeak, LastWeakRef, AttemptIncStrong, AttemptLoad, AttemptCas1,
            AttemptAdd, AttemptLastRef, AttemptSub
      <3> QED
        BY <3>4 DEF IInv, TypeOK, AttemptFlags, AttemptCas2, Goto, PromoteKnows, Promotable
    <2>2. \A q \in Ptrs : pc[q] \notin StrongPcs
      BY <2>1, CountersTell DEF IInv
    <2> QED BY <2>1, <2>2 DEF StrongHolders, At
  <1> QED BY <1>1, Invariance, PTL DEF Spec, PromoteFailsOnlyWhenDead
-----------------------------------------------------------------------------
(***************************************************************************)
(* RefBase implements ObjectLifetime: each access to a counter is one      *)
(* abstract step of the handle that makes it, or invisible.                *)
(***************************************************************************)

(* A handle that moves without taking or giving back a count is invisible  *)
(* to ObjectLifetime as long as nothing is deleted.                        *)
LEMMA Invisible ==
  ASSUME IInv, NEW p \in Ptrs, NEW l \in PCs, pc' = [pc EXCEPT ![p] = l],
         pc[p] \in StrongPcs <=> l \in StrongPcs,
         pc[p] \in UncountedPcs <=> l \in UncountedPcs
  PROVE  StrongHolders' = StrongHolders /\ WeakHolders' = WeakHolders
  <1>1. pc \in [Ptrs -> PCs]
    BY DEF IInv, TypeOK
  <1>2. \A q \in Ptrs : /\ pc'[q] \in StrongPcs <=> pc[q] \in StrongPcs
                        /\ pc'[q] \in PCs \ UncountedPcs <=> pc[q] \in PCs \ UncountedPcs
    BY <1>1
  <1> QED BY <1>2 DEF StrongHolders, WeakHolders, At

(* Taking a strong count is an Acquire: the object is still there, and a   *)
(* STRONG one has another strong holder or never had any.                  *)
LEMMA Acquires ==
  ASSUME IInv, NEW p \in Ptrs, NEW l \in StrongPcs, pc' = [pc EXCEPT ![p] = l],
         CountersExact', TypeOK', l \in PCs, l \notin UncountedPcs,
         pc[p] \notin StrongPcs, pc[p] \notin UncountedPcs,
         lifetime = "STRONG" => mStrong # 0,
         objLive, UNCHANGED <<lifetime, raw, objLive>>
  PROVE  Lifetime!Acquire(p)
  <1>1. /\ StrongHolders' = StrongHolders \cup {p}
        /\ WeakHolders' = WeakHolders \cup {p}
    BY Counted DEF IInv
  <1>2. p \in WeakHolders \ StrongHolders
    BY DEF IInv, TypeOK, WeakHolders, StrongHolders, At
  <1>3. WeakHolders' = WeakHolders
    BY <1>1, <1>2
  <1>4. mStrong' # INITIAL
    <2>1. pc'[p] \in StrongPcs
      BY DEF IInv, TypeOK
    <2>2. (TypeOK /\ CountersExact =>
             \A q \in Ptrs : pc[q] \in StrongPcs => mStrong # INITIAL)'
      BY NotInitial, PTL
    <2> QED BY <2>1, <2>2
  <1>5. lifetime = "STRONG" => ~(mStrong # INITIAL) \/ StrongHolders # {}
    BY FS_EmptySet DEF IInv, CountersExact, StrongHolders, At, StrongPcs
  <1> QED BY <1>1, <1>2, <1>3, <1>4, <1>5 DEF Lifetime!Acquire

(* Every step of a handle is a step of ObjectLifetime or leaves it alone.  *)
LEMMA HandleRefines ==
  ASSUME IInv, NEW p \in Ptrs, Begin(p) \/ Continue(p) \/ Release(p)
  PROVE  Lifetime!Next \/ UNCHANGED Lifetime!vars
  <1>1. CountersExact' /\ TypeOK'
    BY CountersNext, TypeNext
  <1>2. TypeOK /\ CountersExact
    BY DEF IInv
  <1>3. \A q \in Ptrs : /\ q \in StrongHolders <=> pc[q] \in StrongPcs
                        /\ q \in WeakHolders <=> pc[q] \notin UncountedPcs
    BY DEF IInv, TypeOK, StrongHolders, WeakHolders, At
  <1>4. StrongHolders \in SUBSET Ptrs /\ WeakHolders \in SUBSET Ptrs
    BY DEF StrongHolders, WeakHolders, At
  <1> USE DEF PCs, Settled, Unbiasing, StrongPcs, UncountedPcs, Goto, Lifetime!vars
  <1>5. CASE Begin(p)
    <2>1. CASE \E s \in Ptrs \cup {Raw} : AttemptIncWeak(p, s)
      BY <2>1, <1>2, Invisible DEF AttemptIncWeak
    <2>2. ASSUME NEW s \in Ptrs \cup {Raw},
                 IncStrong(p, s) \/ IncWeak(p, s) \/ AttemptIncStrong(p, s)
          PROVE  Lifetime!Refer(p)
      <3>1. StrongHolders' = StrongHolders /\ WeakHolders' = WeakHolders \cup {p}
        <4>1. StrongHolders' = StrongHolders \ {p} /\ WeakHolders' = WeakHolders \cup {p}
          BY <2>2, <1>2, Counted DEF IncStrong, IncWeak, AttemptIncStrong
        <4> QED BY <4>1, <1>3, <2>2 DEF IncStrong, IncWeak, AttemptIncStrong
      <3>2. p \notin WeakHolders /\ (raw \/ WeakHolders # {})
        BY <1>3, <2>2 DEF IncStrong, IncWeak, AttemptIncStrong, StrongSource
      <3> QED
        BY <2>2, <3>1, <3>2 DEF IncStrong, IncWeak, AttemptIncStrong, Lifetime!Refer
    <2> QED BY <1>5, <2>1, <2>2 DEF Begin, Lifetime!Next
  <1>6. CASE IncStrongAdd(p)
    <2>1. mStrong # 0 /\ objLive
      BY <1>6, CountersTell
      DEF IInv, TypeOK, IncStrongAdd, SourcesHeld, StrongSource, RawProtects, Lifecycle, AllGone,
          Outlived
    <2>2. PICK l \in {"sp", "incS.sub"} : pc' = [pc EXCEPT ![p] = l]
      BY <1>6 DEF IncStrongAdd
    <2>3. Lifetime!Acquire(p)
      BY <1>1, <1>6, <2>1, <2>2, Acquires DEF IncStrongAdd
    <2> QED BY <2>3 DEF Lifetime!Next
  <1>7. CASE AttemptCas1(p) \/ AttemptCas2(p)
    <2>1. CASE mStrong # cur[p]
      <3>1. PICK l \in {"att.cas1", "att.cas2", "att.flags", "decW"} : pc' = [pc EXCEPT ![p] = l]
        BY <1>7, <2>1 DEF AttemptCas1, AttemptCas2
      <3>2. pc[p] \in {"att.cas1", "att.cas2"}
        BY <1>7 DEF AttemptCas1, AttemptCas2
      <3>3. StrongHolders' = StrongHolders /\ WeakHolders' = WeakHolders
        BY <3>1, <3>2, Invisible
      <3> QED BY <1>7, <2>1, <3>3 DEF AttemptCas1, AttemptCas2
    <2>2. CASE mStrong = cur[p]
      <3>1. mStrong # 0 /\ objLive
        BY <1>7, <2>2
        DEF IInv, TypeOK, AttemptCas1, AttemptCas2, PromoteKnows, Promotable, Lifecycle, AllGone,
            Outlived
      <3>2. PICK l \in {"sp", "att.sub"} : pc' = [pc EXCEPT ![p] = l]
        BY <1>7, <2>2 DEF AttemptCas1, AttemptCas2
      <3>3. Lifetime!Acquire(p)
        BY <1>1, <1>7, <3>1, <3>2, Acquires DEF AttemptCas1, AttemptCas2
      <3> QED BY <3>3 DEF Lifetime!Next
    <2> QED BY <2>1, <2>2
  <1>8. CASE AttemptAdd(p)
    <2>1. lifetime = "WEAK" /\ objLive
      BY <1>8 DEF IInv, TypeOK, AttemptAdd, PromoteKnows, Lifecycle, AllGone, Outlived
    <2>2. PICK l \in {"sp", "att.sub", "att.lastRef"} : pc' = [pc EXCEPT ![p] = l]
      BY <1>8 DEF AttemptAdd
    <2>3. Lifetime!Acquire(p)
      BY <1>1, <1>8, <2>1, <2>2, Acquires DEF AttemptAdd
    <2> QED BY <2>3 DEF Lifetime!Next
  <1>9. CASE IncStrongSub(p) \/ AttemptSub(p)
    <2>1. StrongHolders' = StrongHolders /\ WeakHolders' = WeakHolders
      BY <1>9, Invisible DEF IncStrongSub, AttemptSub
    <2>2. mStrong # INITIAL
      BY <1>2, <1>9, CountersTell DEF IncStrongSub, AttemptSub
    <2>3. mStrong' # INITIAL
      <3>1. pc'[p] \in StrongPcs
        BY <1>2, <1>9 DEF TypeOK, IncStrongSub, AttemptSub
      <3>2. (TypeOK /\ CountersExact =>
               \A q \in Ptrs : pc[q] \in StrongPcs => mStrong # INITIAL)'
        BY NotInitial, PTL
      <3> QED BY <1>1, <3>1, <3>2
    <2> QED BY <1>9, <2>1, <2>2, <2>3 DEF IncStrongSub, AttemptSub
  <1>10. CASE \/ OnFirstRef(p) \/ OnLastStrongRef(p) \/ AttemptLoad(p) \/ AttemptFlags(p)
              \/ AttemptLastRef(p)
    <2>1. PICK l \in PCs : /\ pc' = [pc EXCEPT ![p] = l]
                           /\ pc[p] \in StrongPcs <=> l \in StrongPcs
                           /\ pc[p] \in UncountedPcs <=> l \in UncountedPcs
      BY <1>10 DEF OnFirstRef, OnLastStrongRef, AttemptLoad, AttemptFlags, AttemptLastRef
    <2>2. StrongHolders' = StrongHolders /\ WeakHolders' = WeakHolders
      BY <2>1, Invisible
    <2> QED
      BY <1>10, <2>2 DEF OnFirstRef, OnLastStrongRef, AttemptLoad, AttemptFlags, AttemptLastRef
  <1>11. CASE AttemptIncWeakCas(p)
    <2>1. CASE UNCHANGED <<mWeak, pc>>
      BY <1>11, <2>1 DEF AttemptIncWeakCas, StrongHolders, WeakHolders, At
    <2>2. CASE Goto(p, "wp")
      <3>0. pc' = [pc EXCEPT ![p] = "wp"] /\ "wp" \in PCs /\ "wp" \notin UncountedPcs
               /\ "wp" \notin StrongPcs
        BY <2>2
      <3>1. StrongHolders' = StrongHolders \ {p} /\ WeakHolders' = WeakHolders \cup {p}
        <4> HIDE DEF PCs, UncountedPcs, StrongPcs
        <4> QED BY <3>0, <1>2, Counted
      <3>2. p \notin StrongHolders /\ p \notin WeakHolders /\ WeakHolders # {}
        BY <1>3, <1>11 DEF IInv, AttemptIncWeakCas, SourcesHeld
      <3>3. Lifetime!Refer(p)
        BY <1>11, <3>1, <3>2 DEF AttemptIncWeakCas, Lifetime!Refer
      <3> QED BY <3>3 DEF Lifetime!Next
    <2> QED BY <1>11, <2>1, <2>2 DEF AttemptIncWeakCas
  <1>12. CASE DeleteThis(p)
    <2>1. StrongHolders' = StrongHolders /\ WeakHolders' = WeakHolders
      BY <1>12, Invisible DEF DeleteThis
    <2>2. lifetime = "STRONG" /\ mStrong = 0 /\ objLive
      BY <1>12
      DEF IInv, TypeOK, DeleteThis, OneDeleter, Deleting, Lifecycle, AllGone, Outlived
    <2>3. StrongHolders = {} /\ mStrong # INITIAL
      BY <1>2, <1>3, <1>4, <2>2, CountersTell, InitialAboveCount, PtrsFinite, FS_CardinalityType
    <2>4. ~raw
      BY <1>12, RawReleases DEF IInv, DeleteThis, Deleting
    <2>5. Lifetime!Destroy
      BY <1>12, <2>1, <2>2, <2>3, <2>4 DEF DeleteThis, Lifetime!Destroy, Lifetime!Unneeded
    <2> QED BY <2>5 DEF Lifetime!Next
  <1>13. CASE DecStrong(p)
    <2>1. PICK l \in {"decS.last", "decW"} : pc' = [pc EXCEPT ![p] = l]
      BY <1>13 DEF DecStrong
    <2>2. StrongHolders' = StrongHolders \ {p} /\ WeakHolders' = WeakHolders \cup {p}
      BY <1>2, <2>1, Counted
    <2>3. p \in StrongHolders /\ p \in WeakHolders /\ mStrong # INITIAL
      BY <1>2, <1>3, <1>13, CountersTell DEF DecStrong
    <2>4. mStrong' # INITIAL
      <3>0. (TypeOK /\ CountersExact =>
               \A q \in Ptrs : pc[q] \in StrongPcs => mStrong # INITIAL)'
        BY NotInitial, PTL
      <3>1. CASE mStrong > INITIAL
        <4>1. PICK q \in Ptrs : pc[q] \in Unbiasing
          BY <1>2, <3>1, CountersTell
        <4>2. pc'[q] \in StrongPcs
          BY <1>2, <1>13, <2>1, <4>1 DEF DecStrong, TypeOK
        <4> QED BY <1>1, <3>0, <4>2
      <3> QED BY <1>2, <1>13, <2>3, <3>1, InitialAboveCount DEF DecStrong, TypeOK
    <2>5. Lifetime!Release(p)
      BY <1>13, <2>2, <2>3, <2>4 DEF DecStrong, Lifetime!Release
    <2> QED BY <2>5 DEF Lifetime!Next
  <1>14. CASE ReleaseWeak(p) \/ DecWeak(p)
    <2>1. PICK l \in {"null", "decW.last"} : pc' = [pc EXCEPT ![p] = l]
      BY <1>14 DEF ReleaseWeak, DecWeak, DecWeakSub
    <2>2. StrongHolders' = StrongHolders \ {p} /\ WeakHolders' = WeakHolders \ {p}
      BY <1>2, <2>1, Counted
    <2>3. p \notin StrongHolders /\ p \in WeakHolders
      BY <1>3, <1>14 DEF ReleaseWeak, DecWeak
    <2>4. Lifetime!Forget(p)
      BY <1>14, <2>2, <2>3 DEF ReleaseWeak, DecWeak, DecWeakSub, Lifetime!Forget
    <2> QED BY <2>4 DEF Lifetime!Next
  <1>15. CASE LastWeakRef(p)
    <2>1. StrongHolders' = StrongHolders /\ WeakHolders' = WeakHolders
      BY <1>15, Invisible DEF LastWeakRef
    <2>2. CASE lifetime = "STRONG"
      BY <1>15, <2>1, <2>2 DEF LastWeakRef
    <2>3. CASE lifetime = "WEAK"
      <3>1. ~raw /\ \A q \in Ptrs : pc[q] \in UncountedPcs
        BY <1>15 DEF IInv, LastWeakRef, OneDeleter
      <3>2. WeakHolders = {}
        BY <1>3, <1>4, <3>1
      <3>3. objLive
        BY <1>15, <2>3 DEF IInv, TypeOK, LastWeakRef, Lifecycle, AllGone, Outlived
      <3>4. Lifetime!Destroy
        BY <1>15, <2>1, <2>3, <3>1, <3>2, <3>3
        DEF LastWeakRef, Lifetime!Destroy, Lifetime!Unneeded
      <3> QED BY <3>4 DEF Lifetime!Next
    <2> QED BY <1>2, <2>2, <2>3 DEF TypeOK
  <1> QED
    BY <1>5, <1>6, <1>7, <1>8, <1>9, <1>10, <1>11, <1>12, <1>13, <1>14, <1>15
    DEF Continue, Release

(* RefBase implements the promise of ObjectLifetime, for any number of     *)
(* handles and threads.                                                    *)
THEOREM Refinement == Spec => ImplementsLifetime
  <1>1. Init => Lifetime!Init
    <2>1. ASSUME Init PROVE StrongHolders = {} /\ WeakHolders = {}
      BY <2>1
      DEF Init, StrongHolders, WeakHolders, At, StrongPcs, UncountedPcs, Unbiasing, Settled
    <2> QED BY <2>1 DEF Init, Lifetime!Init
  <1>2. IInv /\ [Next]_vars => [Lifetime!Next]_(Lifetime!vars)
    <2> SUFFICES ASSUME IInv, [Next]_vars PROVE Lifetime!Next \/ UNCHANGED Lifetime!vars
      OBVIOUS
    <2>1. CASE UNCHANGED vars
      BY <2>1 DEF vars, Lifetime!vars, StrongHolders, WeakHolders, At
    <2>2. CASE DropRaw
      <3>1. Lifetime!LetGo
        BY <2>2 DEF DropRaw, Lifetime!LetGo, StrongHolders, WeakHolders, At
      <3> QED BY <3>1 DEF Lifetime!Next
    <2>3. CASE ExplicitDelete
      <3>1. StrongHolders = {} /\ WeakHolders = {}
        BY <2>3
        DEF ExplicitDelete, StrongHolders, WeakHolders, At, StrongPcs, UncountedPcs, Unbiasing
      <3>2. mStrong = INITIAL
        BY <2>3, <3>1, FS_EmptySet DEF IInv, CountersExact, RawProtects, ExplicitDelete, Unbiasing
      <3>3. StrongHolders' = StrongHolders /\ WeakHolders' = WeakHolders
        BY <2>3 DEF ExplicitDelete, StrongHolders, WeakHolders, At
      <3>4. Lifetime!DestroyUnused
        BY <2>3, <3>1, <3>2, <3>3 DEF ExplicitDelete, Lifetime!DestroyUnused
      <3> QED BY <3>4 DEF Lifetime!Next
    <2> QED BY <2>1, <2>2, <2>3, HandleRefines DEF Next
  <1> QED BY <1>1, <1>2, Invariance, PTL DEF Spec, ImplementsLifetime, Lifetime!Spec
=============================================================================

----------------------------- MODULE VectorImpl -----------------------------
(***************************************************************************)
(* droid::VectorImpl (system/core/libutils/VectorImpl.cpp) as operators on  *)
(* vector values: mCount, the capacity of the SharedBuffer behind mStorage  *)
(* and its slots. A slot is a memory cell: the value its bits spell and     *)
(* whether a constructed, not yet destroyed, element is in it. The bits of  *)
(* a destroyed element stay (no destructor of the repository clears them).  *)
(* A vector is "trivial" when its element type has all the trivial traits   *)
(* (integers, pointers); MessageEnvelope and other classes have none.       *)
(* Storage is never shared: no code calls SharedBuffer::acquire.            *)
(***************************************************************************)
EXTENDS Integers, Sequences

CONSTANT Garbage   \* what uninitialised memory spells

kMinVectorCapacity == 4
Larger(a, b) == IF a > b THEN a ELSE b

Built(x) == [val |-> x, live |-> TRUE]
Unbuilt == [val |-> Garbage, live |-> FALSE]

EmptyVector(trivial) == [trivial |-> trivial, mCount |-> 0, capacity |-> 0, slots |-> <<>>]
With(v, n, c, slots) == [trivial |-> v.trivial, mCount |-> n, capacity |-> c, slots |-> slots]
ItemAt(v, i) == v.slots[i].val
Contents(v) == [k \in 1 .. v.mCount |-> v.slots[k - 1]]

(* move_forward_type. Trivial types use memmove. The others are copied and  *)
(* destroyed one by one, from the last to the first:                        *)
(* `d += n, s += n; while (n > 0) { n--; --d, --s; new(d) TYPE(s);          *)
(* s->~TYPE(); }`, here after the last of its rounds.                       *)
MoveForwardLoop(slots, d, s, n) ==
  LET round[i \in 0 .. n] ==
        IF i = 0 THEN slots
        ELSE [[round[i - 1] EXCEPT ![d + n - i] = round[i - 1][s + n - i]]
                            EXCEPT ![s + n - i].live = FALSE]
  IN  round[n]

(* The loop in closed form (Looper_proofs!LoopMoves): with d below s and    *)
(* the ranges overlapping an element is overwritten before its turn to      *)
(* move, and slot d+k receives the last of the elements k, k+g, k+2g, ...   *)
(* where g = s-d.                                                           *)
LastTaken(d, s, n, k) == IF d < s THEN k + (s - d) * ((n - 1 - k) \div (s - d)) ELSE k

MoveForward(slots, trivial, d, s, n) ==
  [j \in DOMAIN slots |->
     LET k == j - d IN
     IF trivial THEN IF 0 <= k /\ k < n THEN slots[s + k] ELSE slots[j]
     ELSE IF 0 <= k /\ k < n
            THEN [slots[s + LastTaken(d, s, n, k)] EXCEPT !.live = @ /\ (d > s \/ j < s)]
          ELSE IF s <= j /\ j < s + n THEN [slots[j] EXCEPT !.live = FALSE]
          ELSE slots[j]]

(* New storage of c slots: the first `where` elements, a gap of `open`      *)
(* slots, and the elements from `from` on, up to n in all.                  *)
Reallocated(v, c, where, open, from, n) ==
  [j \in 0 .. (c - 1) |->
     IF j < where THEN v.slots[j]
     ELSE IF where + open <= j /\ j < n THEN v.slots[from + (j - where - open)]
     ELSE Unbuilt]

(* Bug: the last element is not moved out of the way.                       *)
growMovesOneLess(v, where, amount) ==
  LET new_size == v.mCount + amount
      new_capacity == Larger(kMinVectorCapacity, new_size + new_size \div 2)
  IN  IF v.capacity < new_size
        THEN With(v, new_size, new_capacity,
                  Reallocated(v, new_capacity, where, amount, where, new_size))
        ELSE With(v, new_size, v.capacity,
                  MoveForward(v.slots, v.trivial, where + amount, where,
                              Larger(v.mCount - where - 1, 0)))

grow(v, where, amount) ==
  LET new_size == v.mCount + amount
      new_capacity == Larger(kMinVectorCapacity, new_size + new_size \div 2)
  IN  IF v.capacity < new_size
        THEN With(v, new_size, new_capacity,
                  Reallocated(v, new_capacity, where, amount, where, new_size))
        ELSE With(v, new_size, v.capacity,
                  MoveForward(v.slots, v.trivial, where + amount, where, v.mCount - where))

insertAt(v, x, index, num) ==
  LET g == grow(v, index, num) IN
  IF index > v.mCount THEN v
  ELSE With(v, g.mCount, g.capacity,
            [j \in DOMAIN g.slots |->
               IF index <= j /\ j < index + num THEN Built(x) ELSE g.slots[j]])

(* _shrink moves in place unless half of the capacity would stay unused.   *)
InPlace(v, amount) == v.mCount - amount >= v.capacity \div 2

shrink(v, where, amount) ==
  LET new_size == v.mCount - amount
      new_capacity == Larger(kMinVectorCapacity, 2 * new_size)
      destroyed == [j \in DOMAIN v.slots |->
                      IF ~v.trivial /\ where <= j /\ j < where + amount
                        THEN [v.slots[j] EXCEPT !.live = FALSE] ELSE v.slots[j]]
  IN  IF v.capacity = 0 THEN v
      ELSE IF ~InPlace(v, amount)
        THEN With(v, new_size, new_capacity,
                  Reallocated(v, new_capacity, where, 0, where + amount, new_size))
        ELSE With(v, new_size, v.capacity,
                  MoveForward(destroyed, v.trivial, where, where + amount,
                              new_size - where))

removeItemsAt(v, index, count) == IF index + count > v.mCount THEN v ELSE shrink(v, index, count)
clear(v) == shrink(v, 0, v.mCount)

setCapacity(v, c) ==
  IF c <= v.mCount THEN v
  ELSE With(v, v.mCount, c, Reallocated(v, c, v.mCount, 0, 0, v.mCount))

(* editItemLocation(index) returns mStorage: element 0, whatever the index. *)
editItemAt(v, index, x) == [v EXCEPT !.slots[0] = Built(x)]

(* The removals whose overlapping move destroys elements that should stay.  *)
Overlaps(v, index, count) ==
  /\ ~v.trivial /\ v.capacity # 0
  /\ index + count <= v.mCount /\ count > 0
  /\ InPlace(v, count)
  /\ v.mCount - index - count > count
=============================================================================

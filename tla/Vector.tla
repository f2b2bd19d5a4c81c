------------------------------- MODULE Vector -------------------------------
(***************************************************************************)
(* One Vector<TYPE> (system/core/include/utils/Vector.h) under any sequence *)
(* of its operations, next to the sequence its owner believes it holds.     *)
(***************************************************************************)
EXTENDS VectorImpl

CONSTANTS Items,      \* the elements inserted
          MaxCount,   \* bound on the size of the vector
          Capacities, \* the arguments of setCapacity
          Trivials    \* the kinds of element type considered

(* Sizes are unsigned (size_t), and an element type is trivial or not.      *)
ASSUME SizesUnsigned == MaxCount \in Nat /\ Capacities \subseteq Nat
ASSUME TrivialOrNot == Trivials \subseteq BOOLEAN

VARIABLES vec,        \* the vector
          model,      \* what a sequence under the same calls would hold
          hit         \* a defective operation hit the vector (history)

vecVars == <<vec, model, hit>>

VecInit == /\ \E t \in Trivials : vec = EmptyVector(t)
           /\ model = <<>>
           /\ hit = FALSE

Copies(x, n) == [k \in 1 .. n |-> x]

InsertAt(x, index, n) ==     \* also push: index = size(), n = 1
  /\ index <= vec.mCount /\ vec.mCount + n <= MaxCount
  /\ vec' = insertAt(vec, x, index, n)
  /\ model' = SubSeq(model, 1, index) \o Copies(x, n) \o SubSeq(model, index + 1, Len(model))
  /\ UNCHANGED hit

RemoveItemsAt(index, n) ==
  /\ vec' = removeItemsAt(vec, index, n)
  /\ model' = IF index + n > Len(model) THEN model
              ELSE SubSeq(model, 1, index) \o SubSeq(model, index + n + 1, Len(model))
  /\ hit' = (hit \/ Overlaps(vec, index, n))

Clear == /\ vec' = clear(vec)
         /\ model' = <<>>
         /\ hit' = FALSE

SetCapacity(c) == /\ vec' = setCapacity(vec, c)
                  /\ UNCHANGED <<model, hit>>

EditItemAt(index, x) ==
  /\ index < vec.mCount
  /\ vec' = editItemAt(vec, index, x)
  /\ model' = [model EXCEPT ![index + 1] = x]
  /\ hit' = (hit \/ index # 0)

VecNext ==
  \/ \E x \in Items, i \in 0 .. MaxCount, n \in 1 .. 2 : InsertAt(x, i, n)
  \/ \E i \in 0 .. MaxCount, n \in 1 .. MaxCount : RemoveItemsAt(i, n)
  \/ \E c \in Capacities : SetCapacity(c)
  \/ \E x \in Items, i \in 0 .. (MaxCount - 1) : EditItemAt(i, x)
  \/ Clear

VecSpec == VecInit /\ [][VecNext]_vecVars

-----------------------------------------------------------------------------
(* The vector holds the sequence it should, in storage that has the slots   *)
(* for it, every element of it constructed and not destroyed, and nothing   *)
(* constructed outside of it, after any sequence of growing, shrinking,     *)
(* moving and reallocating operations that _shrink's overlapping move and   *)
(* editItemLocation's ignored index have not hit.                           *)
HoldsSequence ==
  /\ vec.capacity >= vec.mCount /\ vec.mCount = Len(model)
  /\ vec.capacity # 0 => DOMAIN vec.slots = 0 .. (vec.capacity - 1)
  /\ ~hit => /\ Contents(vec) = [k \in 1 .. Len(model) |-> Built(model[k])]
             /\ vec.trivial \/ \A j \in DOMAIN vec.slots :
                                  j >= vec.mCount => ~vec.slots[j].live
=============================================================================

------------------------------- MODULE Parcel -------------------------------
(***************************************************************************)
(* droid::Parcel (frameworks/native/libs/binder/Parcel.cpp) as operators on *)
(* parcel values, as far as the program uses one: a parcel is made empty    *)
(* and written at its end. It has neither objects nor an owner (nothing     *)
(* calls ipcSetDataReference), is never read and never repositioned.        *)
(* Sizes are in bytes; the data is the sequence of the four-byte words that *)
(* were written. What is behind data in the allocation is uninitialised.    *)
(***************************************************************************)
EXTENDS Integers, Sequences

Word == 4
EmptyParcel == [data |-> <<>>, mDataSize |-> 0, mDataCapacity |-> 0, mError |-> "NO_ERROR"]

(* mDataPos = mDataSize throughout.                                         *)
Fits(p, len) == p.mDataSize + len <= p.mDataCapacity

(* continueWrite to a larger size, for the first data and for more of it.   *)
(* The allocation may also fail: see Writes.                                *)
continueWrite(p, desired) == [p EXCEPT !.mDataCapacity = desired]

(* Bug: the capacity is computed from the addition alone.                   *)
growDataOfLen(p, len) == continueWrite(p, (len * 3) \div 2)

growData(p, len) == continueWrite(p, ((p.mDataSize + len) * 3) \div 2)

finishWrite(p, words) ==
  [p EXCEPT !.data = @ \o words, !.mDataSize = @ + Word * Len(words)]

writeWords(p, words) ==
  LET len == Word * Len(words) IN
  finishWrite(IF Fits(p, len) THEN p ELSE growData(p, len), words)

(* What can become of a write: without the memory it needs, the parcel only *)
(* notes the error, for good.                                               *)
Writes(p, words) ==
  {writeWords(p, words)}
    \cup (IF Fits(p, Word * Len(words)) THEN {} ELSE {[p EXCEPT !.mError = "NO_MEMORY"]})
=============================================================================

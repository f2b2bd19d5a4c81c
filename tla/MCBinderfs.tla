----------------------------- MODULE MCBinderfs -----------------------------
(* Two mounts and two tasks. There are fewer numbers than the two mounts    *)
(* want, and the option max can be one device less than the names there are.*)
EXTENDS Binderfs, TLC

MCNames == {"binder", "binder-control", "x"}
MCDefaultNames == <<"binder">>

MaxOne == [kind |-> "max", n |-> 1]
Stats == [kind |-> "stats", n |-> 0]
Bad == [kind |-> "bad", n |-> 0]

(* A mount is with or without statistics, and each kind of option occurs.   *)
MCOptionLists == {<<Stats>>, <<MaxOne>>, <<Bad>>}

(* The tasks do the same things.                                            *)
SymmetricTasks == Permutations(Tasks)
=============================================================================

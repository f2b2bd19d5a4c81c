------------------------------ MODULE MCLooper ------------------------------
(***************************************************************************)
(* Looper for TLC: two senders and the handlers themselves.                  *)
(***************************************************************************)
EXTENDS Looper

MCTimeouts == {-1, 1}
=============================================================================

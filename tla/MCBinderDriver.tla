--------------------------- MODULE MCBinderDriver ---------------------------
(***************************************************************************)
(* BinderDriver for TLC: two processes of different users, with a task     *)
(* each, and the command buffers they pass.                                 *)
(***************************************************************************)
EXTENDS BinderDriver, TLC

CONSTANTS p1, p2, t1, t2, u1, u2

MCProcess == t1 :> p1 @@ t2 :> p2
MCEuid == p1 :> u1 @@ p2 :> u2
MCBuffers == {<<"TRANSACTION_0">>, <<"TRANSACTION_0", "OTHER">>,
              <<"TRANSACTION_0", "FAULT">>, <<"NO_TARGET">>}
=============================================================================

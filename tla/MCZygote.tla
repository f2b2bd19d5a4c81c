------------------------------ MODULE MCZygote ------------------------------
(***************************************************************************)
(* Two logs instead of four (each further one is opened and closed like     *)
(* them), the server's thread and another, two children (two signals can    *)
(* merge), and a table with room for the logs, the listening socket and one *)
(* connection: the next open fails.                                         *)
(***************************************************************************)
EXTENDS Zygote, TLC

TwoLogs == <<"main", "radio">>
AnyChild == Permutations(Children)

(* The invariants on descriptors say nothing more once a failing thread has *)
(* raced or a socket was closed twice: those states are not followed, but   *)
(* for the nativeClose that is under way.                                   *)
StillPromised ==
  ~broken /\ (misused => \E t \in Threads \ {Main} : At(t, "closeConn"))
=============================================================================

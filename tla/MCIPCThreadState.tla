-------------------------- MODULE MCIPCThreadState --------------------------
(***************************************************************************)
(* IPCThreadState for TLC: the threads of one process, which may ask for a  *)
(* second handle and start with a second driver.                            *)
(***************************************************************************)
EXTENDS IPCThreadState, TLC
CONSTANTS t1, t2
=============================================================================

------------------------------ MODULE MCLogger ------------------------------
(***************************************************************************)
(* Logger for TLC: two users, of which the first reader and the first       *)
(* writer are one.                                                          *)
(***************************************************************************)
EXTENDS Logger, TLC

CONSTANTS w1, w2, r1, r2

MCEuid == w1 :> 1 @@ w2 :> 2 @@ r1 :> 1 @@ r2 :> 2
=============================================================================

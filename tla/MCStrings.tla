----------------------------- MODULE MCStrings -----------------------------
(***************************************************************************)
(* Strings for TLC: of each width the units next to which a conversion      *)
(* changes its mind, and one byte of each kind.                             *)
(***************************************************************************)
EXTENDS Strings

AnyNames == Permutations(Names)

MCAlphabet == [w \in {8, 16, 32} |->
  CASE w = 8  -> {97, 130, 160, 195, 226, 240, 247, 253}
    [] w = 16 -> {0, 97, 233, 8364, 55357, 56832}
    [] w = 32 -> {0, 127, 128, 2047, 2048, 55295, 55296, 57343, 57344, 65535, 65536, 1114111, 1114112}]

MCWorkTexts == {<<97>>, <<195, 160>>, <<195>>, <<8364>>, <<55357, 56832>>, <<55357>>, <<>>}

MCMaxText == [w \in {8, 16, 32} |-> CASE w = 8 -> 5 [] w = 16 -> 4 [] w = 32 -> 3]
=============================================================================

------------------------------- MODULE MCOAuth -------------------------------
(***************************************************************************)
(* A small OAuth: two clients, a code's lifetime shorter than a token's.   *)
(***************************************************************************)
EXTENDS OAuth, TLC

CONSTANTS c1, c2

ClientSymmetry == Permutations(Client)

=============================================================================

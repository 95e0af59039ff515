-------------------------- MODULE MCBootstrapStore --------------------------
(* BootstrapStore with one or two requests in flight.                      *)
EXTENDS BootstrapStore, TLC

CONSTANTS o1, o2, p1, p2

OpSymmetry == Permutations(Op)

=============================================================================

---------------------------- MODULE MCAtomicFile ----------------------------
(* AtomicFile with data of two lengths.                                    *)
EXTENDS AtomicFile, TLC

CONSTANTS w1, w2, short, other, long

MCSize(d) == IF d = long THEN 2 ELSE 1

=============================================================================

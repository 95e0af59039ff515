------------------------- MODULE MCCredentialHandoff -------------------------
(***************************************************************************)
(* Small hand-offs: up to three links, some of them for the same item.     *)
(***************************************************************************)
EXTENDS CredentialHandoff, TLC

CONSTANTS l1, l2, l3, p1, p2, p3, n1, n2, n3, f1, f2

PostSymmetry == Permutations(Post)

\* One link for an item of its own, the others for one item.
SharedName(l) == IF l = l1 THEN n1 ELSE n2

\* Several links for one item.
SameName(l) == n1

OwnFields(l) == IF l = l1 THEN {f1} ELSE IF l = l2 THEN {f2} ELSE {f1, f2}

=============================================================================

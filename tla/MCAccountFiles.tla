--------------------------- MODULE MCAccountFiles ---------------------------
(* The Account Space files with two workspaces and four accounts.          *)
EXTENDS AccountFiles, TLC
CONSTANTS w1, w2, a1, a2, a3, a4
MCDefault == (w1 :> a1) @@ (w2 :> a2)
MCOne     == (w1 :> a1)
\* only the accounts of a migration have names of their own
MCRandom  == Permutations(Spaces \ {a1, a2})
=============================================================================

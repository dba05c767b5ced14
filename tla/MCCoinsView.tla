----------------------------- MODULE MCCoinsView -----------------------------
(* CoinsView with two transactions, two contents and two block hashes: one *)
(* transaction can be fresh while the other is on disk, an output can be   *)
(* created, overwritten, spent and created again across two blocks.        *)
EXTENDS CoinsView, TLC

Symmetry == Permutations(TxIds) \cup Permutations(Coins) \cup Permutations(Blocks)
=============================================================================

--------------------------- MODULE MCChainCommit ----------------------------
(* ChainCommit over two branches, one that ends with a block with a bad    *)
(* transaction, and one that ends with a block with a refused coinbase.    *)
EXTENDS ChainCommit, TLC

TreePrev == [a1 |-> "g", a2 |-> "a1", y3 |-> "a2", b1 |-> "g", x2 |-> "b1"]
TreeBlocks == DOMAIN TreePrev \cup {"g"}
TreeChain == [g |-> <<"g">>, a1 |-> <<"g", "a1">>, a2 |-> <<"g", "a1", "a2">>,
              y3 |-> <<"g", "a1", "a2", "y3">>,
              b1 |-> <<"g", "b1">>, x2 |-> <<"g", "b1", "x2">>]
TreeTxs == [b \in TreeBlocks |-> IF b = "a1" THEN {"t"} ELSE {}]
=============================================================================

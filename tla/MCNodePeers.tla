---------------------------- MODULE MCNodePeers -----------------------------
(* NodePeers with a peer that answers and one that may not, a chain of two *)
(* blocks, beside it a block that is invalid and one with the wrong        *)
(* signer, and three generations of transactions.                          *)
EXTENDS NodePeers

TreePrev == [b1 |-> "g", b2 |-> "b1", c1 |-> "g", d1 |-> "g"]
TreeBlocks == DOMAIN TreePrev \cup {"g"}
TreeChain == [g |-> <<"g">>, b1 |-> <<"g", "b1">>, b2 |-> <<"g", "b1", "b2">>,
              c1 |-> <<"g", "c1">>, d1 |-> <<"g", "d1">>]
TreeTxs == [b \in TreeBlocks |-> IF b = "b1" THEN {"t1"} ELSE {}]
TxParents == [t1 |-> {}, t2 |-> {"t1"}, t3 |-> {"t1", "t2"}, x |-> {"t1"}]
TxOrder == <<"t3", "x", "t2", "t1">>

Plan(c, m, u, t) == [connect |-> c, message |-> m, pause |-> u, tx |-> t]

(* Three questions share the states: pauses, reconnections, transactions.  *)
Plans == {Plan(2, 2, 1, 0), Plan(3, 2, 0, 0), Plan(2, 1, 0, 4)}
=============================================================================

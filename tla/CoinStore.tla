------------------------------ MODULE CoinStore ------------------------------
(***************************************************************************)
(* What the stack of coin views promises to validation: three versions of  *)
(* one set of unspent outputs, each labelled with the block it belongs to. *)
(*   durable    what a restart finds (the chainstate database)             *)
(*   committed  what the node believes at its tip (pcoinsTip)              *)
(*   working    what the block being connected or disconnected has made of *)
(*              it (the CCoinsViewCache on the stack of ConnectTip)        *)
(* There are no caches, no flags and no lazily filled entries here:        *)
(* CoinsView shows that the three layers of storage/coins.cpp behave as if *)
(* there were none.                                                        *)
(***************************************************************************)
CONSTANTS TxIds,      \* transaction ids
          Coins,      \* contents with at least one unspent output
          Pruned,     \* nothing left to spend, or no such transaction
          Blocks,     \* block hashes
          NullHash    \* uint256(0)

VARIABLES durable, committed, working

vars == <<durable, committed, working>>

Version == [coins : [TxIds -> Coins \cup {Pruned}], best : Blocks \cup {NullHash}]

Init == /\ durable \in {v \in Version : /\ v.best = NullHash
                                        /\ \A t \in TxIds : v.coins[t] = Pruned}
        /\ committed = durable
        /\ working = durable

Write(t, c) == /\ working' = [working EXCEPT !.coins[t] = c]
               /\ UNCHANGED <<durable, committed>>

Label(b) == /\ working' = [working EXCEPT !.best = b]
            /\ UNCHANGED <<durable, committed>>

(* A block's changes and its label appear together or not at all.          *)
Commit == committed' = working /\ UNCHANGED <<durable, working>>

Abort == working' = committed /\ UNCHANGED <<durable, committed>>

Persist == /\ working = committed
           /\ durable' = committed
           /\ UNCHANGED <<committed, working>>

(* A process crash loses everything that was not persisted.                *)
Crash == committed' = durable /\ working' = durable /\ UNCHANGED durable

Next == \/ \E t \in TxIds, c \in Coins \cup {Pruned} : Write(t, c)
        \/ \E b \in Blocks : Label(b)
        \/ Commit \/ Abort \/ Persist \/ Crash

Spec == Init /\ [][Next]_vars
=============================================================================

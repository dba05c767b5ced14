----------------------------- MODULE NodePeers ------------------------------
(***************************************************************************)
(* What a node keeps about its peers: the blocks it asks of them           *)
(* (BlockDownload) and the orphan transactions they sent (OrphanTxs).      *)
(* The two meet in FinalizeNode, in ConnectTip and in the misbehaviour     *)
(* score of a peer.                                                        *)
(***************************************************************************)
EXTENDS BlockDownload, OrphanTxs

CONSTANTS TxsOf   \* the transactions of a block

ASSUME TxsOfAssumption == TxsOf \in [Blocks -> SUBSET Txs]

vars == <<downloadVars, orphanVars>>

MinedAt(b) == UNION {TxsOf[Chain[b][i]] : i \in DOMAIN Chain[b]}

Init == InitDownload /\ InitOrphans

Finalize(p) ==
  /\ FinalizeNode(p)
  /\ orphans' = EraseOrphansFor(orphans, p) /\ UNCHANGED pool

Block(p, b) == ReceiveBlock(p, b) /\ ConnectTxs(MinedAt(tip), MinedAt(tip'))

(* The "tx" message is dropped while incoming is paused. The sender of an  *)
(* orphan that turns out bad is punished, not the sender of its parent.    *)
Tx(p, t) ==
  /\ Served(p) /\ ~paused /\ Spend("tx")
  /\ \E punished \in SUBSET Connected :
       /\ ReceiveTx(p, t, MinedAt(tip), punished)
       /\ \E S \in SUBSET punished :
            peers' = [peers EXCEPT !.node =
              [q \in Connected |->
                [peers.node[q] EXCEPT !.fShouldBan = @ \/ q \in S]]]
  /\ UNCHANGED <<chainVars, old, requested, paused>>

Next ==
  \/ \E p \in Peers : \/ PeerMoves(p) /\ UNCHANGED orphanVars
                      \/ Finalize(p)
                      \/ \E b \in Blocks \ {Genesis} : Block(p, b)
                      \/ \E t \in Txs : Tx(p, t)
  \/ TimePasses /\ UNCHANGED orphanVars

(* Fairness. Time passes. The other conjuncts are weak fairness of steps   *)
(* that are disabled once taken, with their enabling conditions written    *)
(* out: the socket thread takes peers away that are to be disconnected;    *)
(* the message thread comes to every peer until there is nothing to send;  *)
(* a block that stays the oldest in flight of a peer times out; a peer     *)
(* that answers, answers every request. Nobody has to end a pause.         *)
Unchanged == [peers |-> peers, requested |-> requested]
Closing(p) == p \in Connected /\ peers.node[p].fDisconnect
Busy(p) == Served(p) /\ Sent(p, FALSE, FALSE) # Unchanged
Oldest(p, b) == /\ Served(p) /\ FromPeer(peers, p) # <<>> /\ ~paused
                /\ Head(FromPeer(peers, p)).hash = b
Unanswered(p, b) == Served(p) /\ b \in requested[p]

(* The blocks that are not stored from the start.                          *)
ToGet == Blocks \ ({Genesis} \cup Failed)

Fairness ==
  /\ WF_vars(\E b \in Greedy : BlockAges(b) /\ UNCHANGED orphanVars)
  /\ \A p \in Peers : []<>(~Closing(p)) /\ []<>(~Busy(p))
  /\ \A p \in Peers, b \in ToGet : []<>(~Oldest(p, b))
  /\ \A p \in Answering, b \in ToGet : []<>(~Unanswered(p, b))

Spec == Init /\ [][Next]_vars /\ Fairness

-----------------------------------------------------------------------------
(* Properties.                                                             *)

OrphansType ==
  /\ orphans.from \in [Orphans(orphans) -> Peers]
  /\ Orphans(orphans) \subseteq Txs
  /\ orphans.byPrev \in [DOMAIN orphans.byPrev -> SUBSET Txs]

(* Every variable has its type. The memory pool never holds a transaction  *)
(* that is in the active chain, and an orphan is kept only as long as the  *)
(* peer that sent it.                                                      *)
TypeOK == /\ DownloadTypeOK /\ OrphansType
          /\ pool \subseteq Txs \ MinedAt(tip)
          /\ ToSet(orphans.from) \subseteq Connected

(* A "tx" that is accepted takes along every orphan it completes, through  *)
(* any number of generations. One stays behind only if its sender gave a   *)
(* bad orphan that was met first.                                          *)
OrphansResolved ==
  [][\A o \in Orphans(orphans') :
       (Parents[o] \cap (pool' \ pool) # {} /\ tip' = tip) =>
         \/ ~(Parents[o] \subseteq pool' \cup MinedAt(tip))
         \/ \E x \in Orphans(orphans) \ Orphans(orphans') :
              x \in DoSTxs /\ orphans.from[x] = orphans'.from[o]]_vars

(* The blocks in flight of a peer whose count is beyond them: the end of a *)
(* pause cleared the list.                                                 *)
Leaked(p) == peers.node[p].nBlocksInFlight > Len(FromPeer(peers, p))

Wants(p, b) ==
  /\ Served(p) /\ ~paused /\ ~Leaked(p)
  /\ peers.node[p].pindexBestKnownBlock # NoBlock
  /\ OnChain(b, peers.node[p].pindexBestKnownBlock)
  /\ Height(peers.node[p].pindexBestKnownBlock) >= Height(tip)
  /\ b \notin stored

(* A block on the best chain of a peer that answers is downloaded, though  *)
(* silent peers may have it in flight first, though VerifyBlockWindow      *)
(* refuses it as long as it is recent, and though blocks with the wrong    *)
(* signer take up room until they time out; unless the peer goes or        *)
(* announces another chain, the node is paused, or its count of blocks in  *)
(* flight has leaked in a pause.                                           *)
BlocksArrive ==
  \A p \in Answering, b \in ToGet \ BadSigned : Wants(p, b) ~> ~Wants(p, b)
=============================================================================

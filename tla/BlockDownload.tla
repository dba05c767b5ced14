--------------------------- MODULE BlockDownload ----------------------------
(***************************************************************************)
(* Which block is asked of which peer (core/main.cpp: CNodeState,          *)
(* mapBlocksInFlight, FindNextBlocksToDownload, the "inv", "headers" and   *)
(* "block" messages, SendMessages; net/net.cpp: AskFor).                   *)
(*                                                                         *)
(* Every handler holds cs_main while it touches this state, so a handler   *)
(* is one action. Peers announce, answer, stay silent and go as they like. *)
(* Time is left open: a time-out may expire whenever its condition holds.  *)
(* With the pause command of the node incoming blocks are ignored.         *)
(*                                                                         *)
(* A block that is received is dropped if its signer is wrong, is refused  *)
(* by VerifyBlockWindow as long as it is recent, or is stored; the other   *)
(* checks and the choice of the tip are the subject of ChainState. The     *)
(* locked block, banned transactions, the request for headers (they come   *)
(* unasked here), the two minutes between two requests of AskFor and the   *)
(* handshake are left out.                                                 *)
(***************************************************************************)
EXTENDS Naturals, Sequences, FiniteSets, SequencesExt, Functions

CONSTANTS
  Blocks, Genesis, NoBlock,
  Prev,          \* hashPrevBlock of every block but the genesis block
  Chain,         \* the blocks from the genesis block to a block
  Failed,        \* known blocks marked invalid before
  Greedy,        \* blocks of a miner inside its block window
  BadSigned,     \* VerifyBlockSignature or CheckBlockSigner fails
  Peers, NoPeer,
  Answering,     \* peers that answer getdata
  Whitelisted,   \* fWhitelisted
  BLOCK_DOWNLOAD_WINDOW,
  MAX_BLOCKS_IN_TRANSIT_PER_PEER,
  Budgets        \* bound: how many connections, messages nobody asked for,
                 \* pauses and transactions a behaviour has

ASSUME DownloadAssumption ==
  /\ Genesis \in Blocks /\ NoBlock \notin Blocks /\ NoPeer \notin Peers
  /\ Prev \in [Blocks \ {Genesis} -> Blocks]
  /\ Chain \in [Blocks -> Seq(Blocks)]
  /\ Chain[Genesis] = <<Genesis>>
  /\ \A b \in Blocks \ {Genesis} : Chain[b] = Append(Chain[Prev[b]], b)
  /\ Failed \subseteq Blocks \ {Genesis} /\ Greedy \subseteq Blocks
  /\ \A b \in Failed : Prev[b] = Genesis
  /\ BadSigned \subseteq Blocks \ (Failed \cup {Genesis})
  /\ Answering \subseteq Peers /\ Whitelisted \subseteq Peers
  /\ BLOCK_DOWNLOAD_WINDOW \in Nat \ {0}
  /\ MAX_BLOCKS_IN_TRANSIT_PER_PEER \in Nat \ {0}
  /\ Budgets \subseteq [{"connect", "message", "pause", "tx"} -> Nat]

VARIABLES
  headers,     \* mapBlockIndex
  stored,      \* BLOCK_HAVE_DATA
  tip,         \* chainActive.Tip()
  old,         \* greedy blocks older than 20 block times
  peers,       \* mapNodeState, mapBlocksInFlight and nQueuedValidatedHeaders
  requested,   \* blocks in a getdata a peer has not answered
  paused,      \* MC_NPS_INCOMING
  left         \* what is left of the budget

chainVars == <<headers, stored, tip>>
downloadVars == <<chainVars, old, peers, requested, paused, left>>

Height(b) == Len(Chain[b]) - 1
OnChain(b, c) == \E i \in DOMAIN Chain[c] : Chain[c][i] = b
Linked(S) == {b \in S : \A i \in DOMAIN Chain[b] : Chain[b][i] \in S}

(* CNodeState, with fDisconnect, fLastIgnoreIncoming and mapAskFor of      *)
(* CNode.                                                                  *)
NewNode == [pindexBestKnownBlock |-> NoBlock, hashLastUnknownBlock |-> NoBlock,
            pindexLastCommonBlock |-> NoBlock, vBlocksInFlight |-> <<>>,
            nBlocksInFlight |-> 0, stalling |-> FALSE, fShouldBan |-> FALSE,
            fDisconnect |-> FALSE, fLastIgnoreIncoming |-> FALSE, mapAskFor |-> {}]

Connected == DOMAIN peers.node

Spend(kind) == left[kind] > 0 /\ left' = [left EXCEPT ![kind] = @ - 1]

InitDownload ==
  /\ headers = {Genesis} \cup Failed /\ stored = headers /\ tip = Genesis
  /\ old = {}
  /\ peers = [node |-> <<>>, inFlight |-> [b \in Blocks |-> NoPeer], nQueued |-> 0]
  /\ requested = [p \in Peers |-> {}]
  /\ paused = FALSE /\ left \in Budgets

-----------------------------------------------------------------------------
(* The helpers below take the peers' state as s and return the new one.    *)

FromPeer(s, p) == s.node[p].vBlocksInFlight
At(list, b) == CHOOSE i \in DOMAIN list : list[i].hash = b

(* Mutant: a block that was not counted is taken off the count.            *)
CountsAlways(q) == 1

(* What the block adds to nQueuedValidatedHeaders.                         *)
Counts(q) == IF q.fValidatedHeaders THEN 1 ELSE 0

MarkBlockAsReceived(s, b) ==
  LET p == s.inFlight[b]
      at == At(FromPeer(s, p), b)   \* the iterator
  IN IF p = NoPeer THEN s
     ELSE [s EXCEPT !.inFlight[b] = NoPeer,
                    !.nQueued = @ - Counts(FromPeer(s, p)[at]),
                    !.node[p].vBlocksInFlight = RemoveAt(@, at),
                    !.node[p].nBlocksInFlight = @ - 1,
                    !.node[p].stalling = FALSE]

MarkBlockAsInFlight(s, p, b, validated) ==
  [MarkBlockAsReceived(s, b) EXCEPT
     !.inFlight[b] = p,
     !.nQueued = @ + (IF validated THEN 1 ELSE 0),
     !.node[p].vBlocksInFlight = Append(@, [hash |-> b, fValidatedHeaders |-> validated]),
     !.node[p].nBlocksInFlight = @ + 1]

(* A block at least as high as the best known one takes its place.         *)
BetterOf(best, b) == IF best = NoBlock \/ Height(b) >= Height(best) THEN b ELSE best

ProcessBlockAvailability(s, p, known) ==
  LET n == s.node[p]
  IN IF n.hashLastUnknownBlock \notin known THEN s
     ELSE [s EXCEPT !.node[p].pindexBestKnownBlock = BetterOf(@, n.hashLastUnknownBlock),
                    !.node[p].hashLastUnknownBlock = NoBlock]

UpdateBlockAvailability(s, p, b, known) ==
  LET t == ProcessBlockAvailability(s, p, known)
  IN IF b \in known
     THEN [t EXCEPT !.node[p].pindexBestKnownBlock = BetterOf(@, b)]
     ELSE [t EXCEPT !.node[p].hashLastUnknownBlock = b]

LastCommonAncestor(a, b) ==
  Chain[a][CHOOSE i \in DOMAIN Chain[a] :
             /\ OnChain(Chain[a][i], b)
             /\ \A j \in DOMAIN Chain[a] : OnChain(Chain[a][j], b) => j <= i]

(* Mutant: the last common block stays where it is.                        *)
MoveCommonNever(at, b) == at

(* nChainTx: the block is stored down to the genesis block.                *)
MoveCommon(at, b) == IF b \in Linked(stored) THEN [at EXCEPT !.common = b] ELSE at

(* FindNextBlocksToDownload: the walk from the last common block towards   *)
(* the best known one. at is where it stands: the blocks to get, whom it   *)
(* waits for, and whether it has returned.                                 *)
WalkStep(s, p, windowEnd, count, at, b) ==
  IF at.returned THEN at
  ELSE IF b \in Failed THEN [at EXCEPT !.returned = TRUE]
  ELSE IF b \in stored THEN MoveCommon(at, b)
  ELSE IF s.inFlight[b] # NoPeer
       THEN IF at.waitingfor = NoPeer THEN [at EXCEPT !.waitingfor = s.inFlight[b]] ELSE at
  ELSE IF Height(b) > windowEnd
       THEN [at EXCEPT !.returned = TRUE,
                       !.staller = IF at.get = <<>> /\ at.waitingfor # p
                                   THEN at.waitingfor ELSE NoPeer]
  ELSE [at EXCEPT !.get = Append(@, b), !.returned = Len(at.get) + 1 = count]

Nothing(common) == [common |-> common, get |-> <<>>, waitingfor |-> NoPeer,
                    staller |-> NoPeer, returned |-> FALSE]

Smaller(i, j) == IF i < j THEN i ELSE j

FindNextBlocksToDownload(s, p, count) ==
  LET best == s.node[p].pindexBestKnownBlock
      last == s.node[p].pindexLastCommonBlock
  IN IF best = NoBlock \/ Height(best) < Height(tip) THEN Nothing(last)
     ELSE LET guess == IF last # NoBlock THEN last
                       ELSE Chain[tip][Smaller(Height(best), Height(tip)) + 1]
              common == LastCommonAncestor(guess, best)
              windowEnd == Height(common) + BLOCK_DOWNLOAD_WINDOW
              walk == SubSeq(Chain[best], Height(common) + 2,
                             Smaller(Height(best), windowEnd + 1) + 1)
              at[i \in 0..Len(walk)] ==
                IF i = 0 THEN Nothing(common)
                ELSE WalkStep(s, p, windowEnd, count, at[i - 1], walk[i])
          IN at[Len(walk)]

-----------------------------------------------------------------------------
(* Connections.                                                            *)

(* The CNode constructor, InitializeNode.                                  *)
Connect(p) ==
  /\ p \notin Connected /\ Spend("connect")
  /\ peers' = [peers EXCEPT !.node = [q \in Connected \cup {p} |->
                                       IF q = p THEN NewNode ELSE @[q]]]
  /\ UNCHANGED <<chainVars, old, requested, paused>>

(* CloseSocketDisconnect.                                                  *)
SocketCloses(p) ==
  /\ p \in Connected /\ ~peers.node[p].fDisconnect
  /\ peers' = [peers EXCEPT !.node[p].fDisconnect = TRUE]
  /\ UNCHANGED <<chainVars, old, requested, paused, left>>

(* Mutant: the blocks in flight keep the peer that is gone.                *)
ForgetPeerKeeps(s, p) ==
  [s EXCEPT !.node = [q \in DOMAIN s.node \ {p} |-> @[q]]]

ForgetPeer(s, p) ==
  [s EXCEPT !.inFlight = [b \in Blocks |-> IF @[b] = p THEN NoPeer ELSE @[b]],
            !.node = [q \in DOMAIN s.node \ {p} |-> @[q]]]

(* FinalizeNode. nQueuedValidatedHeaders stays as it is.                   *)
FinalizeNode(p) ==
  /\ p \in Connected /\ peers.node[p].fDisconnect
  /\ peers' = ForgetPeer(peers, p)
  /\ requested' = [requested EXCEPT ![p] = {}]
  /\ UNCHANGED <<chainVars, old, paused, left>>

(* ThreadMessageHandler passes over peers that are to be disconnected.     *)
Served(p) == p \in Connected /\ ~peers.node[p].fDisconnect

-----------------------------------------------------------------------------
(* Messages.                                                               *)

AlreadyHave(b) == b \in headers

(* Misbehaving: the score goes up, and reaches the threshold or not.       *)
Misbehaving(s, p) == {s, [s EXCEPT !.node[p].fShouldBan = TRUE]}

(* "inv" of a block. The block itself is asked for at once when the tip is *)
(* recent and the peer has room. If the peer's send buffer is full the     *)
(* handler returns before the getdata, with the block marked as in flight. *)
ReceiveInv(p, b) ==
  /\ Served(p) /\ Spend("message")
  /\ LET s == UpdateBlockAvailability(peers, p, b, headers)
         mayAsk == /\ ~AlreadyHave(b) /\ s.inFlight[b] = NoPeer /\ ~paused
                   /\ s.node[p].nBlocksInFlight < MAX_BLOCKS_IN_TRANSIT_PER_PEER
         marked == MarkBlockAsInFlight(s, p, b, FALSE)
     IN \/ mayAsk /\ peers' = marked
                  /\ requested' = [requested EXCEPT ![p] = @ \cup {b}]
        \/ mayAsk /\ peers' \in Misbehaving(marked, p) /\ UNCHANGED requested
        \/ peers' \in Misbehaving(s, p) /\ UNCHANGED requested
  /\ UNCHANGED <<chainVars, old, paused>>

(* AcceptBlockHeader. A header that is marked invalid is dropped; one      *)
(* whose predecessor is not known or invalid counts against the peer.      *)
BadPrev(b) == b \notin headers /\ (Prev[b] \notin headers \/ Prev[b] \in Failed)

(* "headers" of the chain of b from its i-th block on.                     *)
ReceiveHeaders(p, b, i) ==
  /\ Served(p) /\ Spend("message") /\ i \in 2..Len(Chain[b])
  /\ LET first == Chain[b][i]
     IN \/ BadPrev(first) /\ peers' \in Misbehaving(peers, p) /\ UNCHANGED headers
        \/ /\ ~BadPrev(first) /\ first \notin Failed
           /\ headers' = headers \cup ToSet(Chain[b])
           /\ peers' = UpdateBlockAvailability(peers, p, b, headers')
  /\ UNCHANGED <<stored, tip, old, requested, paused>>

(* The tip ActivateBestChain ends at: it moves for more work only.         *)
Tips == LET S == {b \in Linked(stored') : ~\E i \in DOMAIN Chain[b] : Chain[b][i] \in Failed}
        IN {b \in S : \A c \in S : Height(c) <= Height(b)}
NextTip == IF \E b \in Tips : Height(b) > Height(tip) THEN Tips ELSE {tip}

(* Mutant: a block that is ignored is not asked for again.                 *)
AskForNothing(s, p, b) == s

AskFor(s, p, b) == [s EXCEPT !.node[p].mapAskFor = @ \cup {b}]

(* "block". While incoming is paused the block is put on mapAskFor.        *)
(* Otherwise ProcessNewBlock: a block with the wrong signer is dropped and *)
(* stays in flight, and only a bad signature counts against the peer. Any  *)
(* other is off the list of blocks in flight, and is refused if its        *)
(* miner's window has not passed (unless it is old), if its predecessor is *)
(* not known or invalid.                                                   *)
ReceiveBlock(p, b) ==
  /\ Served(p)
  /\ IF b \in requested[p] THEN UNCHANGED left ELSE Spend("message")
  /\ requested' = [requested EXCEPT ![p] = @ \ {b}]
  /\ IF paused
     THEN /\ peers' = AskFor(peers, p, b)
          /\ UNCHANGED chainVars
     ELSE IF b \in BadSigned
     THEN peers' \in Misbehaving(peers, p) /\ UNCHANGED chainVars
     ELSE LET s == MarkBlockAsReceived(peers, b)
          IN \/ /\ b \in Greedy \ old
                /\ peers' = s /\ UNCHANGED chainVars
             \/ /\ b \in Failed \ (Greedy \ old)
                /\ peers' = s /\ UNCHANGED chainVars
             \/ /\ b \notin Greedy \ old /\ BadPrev(b)
                /\ peers' \in Misbehaving(s, p) /\ UNCHANGED chainVars
             \/ /\ b \notin Failed \cup (Greedy \ old) /\ ~BadPrev(b)
                /\ peers' = s
                /\ headers' = headers \cup {b} /\ stored' = stored \cup {b}
                /\ tip' \in NextTip
  /\ UNCHANGED <<old, paused>>

(* Time passes: VerifyBlockWindow lets a block pass that is old.           *)
BlockAges(b) ==
  /\ b \in Greedy \ old
  /\ old' = old \cup {b}
  /\ UNCHANGED <<chainVars, peers, requested, paused, left>>

(* The pause and resume commands.                                          *)
Pause ==
  /\ ~paused /\ Spend("pause") /\ paused' = TRUE
  /\ UNCHANGED <<chainVars, old, peers, requested>>

Resume ==
  /\ paused /\ paused' = FALSE
  /\ UNCHANGED <<chainVars, old, peers, requested, left>>

-----------------------------------------------------------------------------
(* SendMessages.                                                           *)

(* The first part: a ban, a stall that lasts too long, the end of a pause, *)
(* a block in flight for too long. stalled and timeout say whether the     *)
(* timers have run out. The else that belongs to "not whitelisted" binds   *)
(* to the if of the log message, so that the ban falls on the whitelisted  *)
(* peers, and on no others. The end of a pause empties vBlocksInFlight,    *)
(* and not nBlocksInFlight or nQueuedValidatedHeaders.                     *)
ResumeIncoming(s, p) ==
  [s EXCEPT !.inFlight = [b \in Blocks |-> IF @[b] = p THEN NoPeer ELSE @[b]],
            !.node[p].vBlocksInFlight = <<>>]

CheckPeer(s, p, stalled, timeout) ==
  LET r == IF ~paused /\ s.node[p].fLastIgnoreIncoming THEN ResumeIncoming(s, p) ELSE s
      drop == \/ s.node[p].fShouldBan /\ p \in Whitelisted
              \/ stalled /\ s.node[p].stalling
              \/ timeout /\ ~paused /\ FromPeer(r, p) # <<>>
  IN [r EXCEPT !.node[p].fShouldBan = FALSE,
               !.node[p].fDisconnect = r.node[p].fDisconnect \/ drop]

Room(n) == MAX_BLOCKS_IN_TRANSIT_PER_PEER - n.nBlocksInFlight

(* The second part: ask for blocks, and start the clock of a peer that     *)
(* holds the window up.                                                    *)
AskBlocks(s, p) ==
  LET n == s.node[p]
      t == ProcessBlockAvailability(s, p, headers)
      found == FindNextBlocksToDownload(t, p, Room(n))
      marked[i \in 0..Len(found.get)] ==
        IF i = 0 THEN [t EXCEPT !.node[p].pindexLastCommonBlock = found.common]
        ELSE MarkBlockAsInFlight(marked[i - 1], p, found.get[i], TRUE)
      asked == marked[Len(found.get)]
  IN IF paused \/ n.fDisconnect \/ Room(n) = 0
     THEN [state |-> s, get |-> <<>>]
     ELSE [state |-> IF asked.node[p].nBlocksInFlight = 0 /\ found.staller # NoPeer
                     THEN [asked EXCEPT !.node[found.staller].stalling = TRUE] ELSE asked,
           get |-> found.get]

(* What SendMessages leaves behind, the blocks of mapAskFor asked again.   *)
Sent(p, stalled, timeout) ==
  LET s == CheckPeer(peers, p, stalled, timeout)
      a == AskBlocks(s, p)
      again == IF paused \/ s.node[p].fDisconnect THEN {} ELSE s.node[p].mapAskFor
  IN [peers |-> [a.state EXCEPT !.node[p].mapAskFor = @ \ again,
                                !.node[p].fLastIgnoreIncoming = paused],
      requested |-> [requested EXCEPT ![p] = @ \cup ToSet(a.get) \cup again]]

SendMessages(p, stalled, timeout) ==
  /\ Served(p)
  /\ LET sent == Sent(p, stalled, timeout)
     IN peers' = sent.peers /\ requested' = sent.requested
  /\ UNCHANGED <<chainVars, old, paused, left>>

-----------------------------------------------------------------------------
(* The steps that other state of the peers has no part in.                 *)
PeerMoves(p) ==
  \/ Connect(p) \/ SocketCloses(p)
  \/ \E b \in Blocks \ {Genesis} :
       ReceiveInv(p, b) \/ \E i \in DOMAIN Chain[b] : ReceiveHeaders(p, b, i)
  \/ \E stalled, timeout \in BOOLEAN : SendMessages(p, stalled, timeout)

TimePasses == \/ \E b \in Blocks : BlockAges(b)
              \/ Pause \/ Resume

-----------------------------------------------------------------------------
(* Properties.                                                             *)

InFlightType == [hash : Blocks, fValidatedHeaders : BOOLEAN]
NodeType == [pindexBestKnownBlock : Blocks \cup {NoBlock},
             hashLastUnknownBlock : Blocks \cup {NoBlock},
             pindexLastCommonBlock : Blocks \cup {NoBlock},
             vBlocksInFlight : Seq(InFlightType), nBlocksInFlight : Nat,
             stalling : BOOLEAN, fShouldBan : BOOLEAN, fDisconnect : BOOLEAN,
             fLastIgnoreIncoming : BOOLEAN, mapAskFor : SUBSET Blocks]

(* Every variable has its type; in particular no count ever falls below    *)
(* zero.                                                                   *)
DownloadTypeOK ==
  /\ {headers, stored, old} \subseteq SUBSET Blocks /\ tip \in stored
  /\ Connected \subseteq Peers
  /\ \A p \in Connected : peers.node[p] \in NodeType
  /\ peers.inFlight \in [Blocks -> Peers \cup {NoPeer}] /\ peers.nQueued \in Nat
  /\ requested \in [Peers -> SUBSET Blocks]
  /\ paused \in BOOLEAN /\ left \in [{"connect", "message", "pause", "tx"} -> Nat]

HashesOf(p) == [i \in DOMAIN FromPeer(peers, p) |-> FromPeer(peers, p)[i].hash]

(* mapBlocksInFlight holds iterators into the lists of the peers: it has   *)
(* an entry for each element of each list, once, and no entry of a peer    *)
(* that is gone, through disconnections, time-outs and resumed pauses. It  *)
(* has none of a block that is stored: no peer is timed out for one.       *)
InFlightAgree ==
  /\ \A p \in Connected : IsInjective(HashesOf(p))
  /\ \A b \in Blocks, p \in Peers :
       peers.inFlight[b] = p <=> p \in Connected /\ b \in ToSet(HashesOf(p))
  /\ \A b \in stored : peers.inFlight[b] = NoPeer

Validated(p) == {b \in Blocks : \E q \in ToSet(FromPeer(peers, p)) :
                                  q.hash = b /\ q.fValidatedHeaders}

(* The counts never fall short of the blocks in flight, so no peer is      *)
(* asked for more than it may be, and FindNextBlocksToDownload is never    *)
(* given more room than there is. They may be too high: FinalizeNode and   *)
(* the end of a pause forget blocks without taking them off.               *)
CountsCover ==
  /\ \A p \in Connected :
       /\ Len(FromPeer(peers, p)) <= peers.node[p].nBlocksInFlight
       /\ peers.node[p].nBlocksInFlight <= MAX_BLOCKS_IN_TRANSIT_PER_PEER
  /\ Cardinality(UNION {Validated(p) : p \in Connected}) <= peers.nQueued

(* The peer owes an answer, or will be asked again.                        *)
Awaited(p, b) == b \in requested[p] \cup peers.node[p].mapAskFor

(* A block that SendMessages marked as in flight has been asked of its     *)
(* peer and not answered, or is going to be asked again, pauses and blocks *)
(* that are refused included: no download waits for an answer that was     *)
(* dropped. The exception is a block with the wrong signer, which          *)
(* ProcessNewBlock drops and leaves in flight.                             *)
AskedInFlight ==
  \A p \in Connected : \A q \in ToSet(FromPeer(peers, p)) :
    q.fValidatedHeaders => Awaited(p, q.hash) \/ q.hash \in BadSigned
=============================================================================

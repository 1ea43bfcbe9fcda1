----------------------------- MODULE ChainState -----------------------------
(***************************************************************************)
(* The block index and the choice of the active chain (validation.cpp).    *)
(*                                                                         *)
(* Headers and blocks arrive in any order (ProcessNewBlockHeaders,         *)
(* ProcessNewBlock); ActivateBestChain moves the tip, block by block, to   *)
(* the best entry of setBlockIndexCandidates; invalidateblock,             *)
(* reconsiderblock and preciousblock interfere; a restart rebuilds the     *)
(* sets from what is on disk.                                              *)
(*                                                                         *)
(* Two locks matter.  cs_main guards all of the state; a step that ends in *)
(* one of the phases of CsMainHeld keeps it, and nothing else moves until  *)
(* it is released.  m_cs_chainstate is held through a whole call of        *)
(* ActivateBestChain or InvalidateBlock, both of which release cs_main     *)
(* between their rounds.  The node never prunes here, so BLOCK_HAVE_DATA   *)
(* is nTx > 0.                                                             *)
(***************************************************************************)
EXTENDS Integers, FiniteSets

CONSTANTS
    Blocks, Genesis, NoBlock,
    Parent, Height, Chain,  \* pprev, nHeight; the block and its ancestors
    Work,                   \* nChainWork
    Address,                \* order of the CBlockIndex objects in memory
    Malformed,              \* blocks that fail ContextualCheckBlock
    Invalid,                \* blocks that fail ConnectBlock
    Unapplicable,           \* blocks whose MWEB block does not apply (BLOCK_MUTATED)
    KeepBlocks,             \* MIN_BLOCKS_TO_KEEP
    MinimumWork,            \* nMinimumChainWork
    Invalidated, Reconsidered, Precious,  \* blocks the operator names in each RPC
    MaxPrecious,            \* bound on the uses of preciousblock
    Restarts, Crashes       \* may the node be restarted; may it crash

ASSUME BlockTree ==
    /\ Genesis \in Blocks /\ IsFiniteSet(Blocks)
    /\ NoBlock \notin Blocks
    /\ Parent \in [Blocks -> Blocks \cup {NoBlock}]
    /\ \A b \in Blocks : Parent[b] = NoBlock <=> b = Genesis
    /\ Height \in [Blocks -> Nat]
    /\ \A b \in Blocks \ {Genesis} : Height[b] = Height[Parent[b]] + 1
    /\ Chain[Genesis] = {Genesis}
    /\ \A b \in Blocks \ {Genesis} : Chain[b] = Chain[Parent[b]] \cup {b}
    /\ Work \in [Blocks -> Nat]
    /\ \A b \in Blocks \ {Genesis} : Work[b] > Work[Parent[b]]
    /\ Address \in [Blocks -> Nat]
    /\ \A b, c \in Blocks : Address[b] = Address[c] => b = c

ASSUME OperatorInput ==
    /\ Genesis \notin Invalid
    /\ Invalidated \subseteq Blocks \ {Genesis}
    /\ Reconsidered \subseteq Blocks /\ Precious \subseteq Blocks
    /\ {Restarts, Crashes} \subseteq BOOLEAN
    /\ MaxPrecious \in Nat

VARIABLES
    idx,          \* nStatus, nTx and nChainTx of the block index, as sets of blocks
    failedBlocks, \* m_failed_blocks
    unlinked,     \* m_blocks_unlinked: blocks with data below a block without
    candidates,   \* setBlockIndexCandidates
    seq,          \* nSequenceId
    counters,     \* nBlockSequenceId, nBlockReverseSequenceId, nLastPreciousChainwork
    tip,          \* m_chain.Tip()
    coinsTip,     \* best block of the coins database
    best,         \* pindexBestHeader and pindexBestInvalid
    pending,      \* a call of ActivateBestChain waits for m_cs_chainstate
    act           \* the call that holds m_cs_chainstate

vars == <<idx, failedBlocks, unlinked, candidates, seq, counters, tip, coinsTip,
          best, pending, act>>

\* CBlockIndexWorkComparator: x sorts before y.
Worse(ids, x, y) ==
    \/ Work[x] < Work[y]
    \/ Work[x] = Work[y] /\ ids[x] > ids[y]
    \/ Work[x] = Work[y] /\ ids[x] = ids[y] /\ Address[x] > Address[y]

Failed(i) == i.failedValid \cup i.failedChild

Descendants(b) == {d \in idx.known : b \in Chain[d]}

\* IsValid(BLOCK_VALID_TRANSACTIONS) && HaveTxsDownloaded().
Usable(i) == (i.data \cap i.linked) \ Failed(i)

NoCall == [phase |-> "idle", target |-> NoBlock, start |-> NoBlock,
           oldTip |-> NoBlock, mark |-> NoBlock, byWork |-> {}]

CsMainHeld == act.phase \in {"finding", "disconnecting", "connecting"}

\* After LoadGenesisBlock and the first ActivateBestChain.
Init ==
    /\ idx = [known |-> {Genesis}, data |-> {Genesis}, linked |-> {Genesis},
              scripts |-> {}, failedValid |-> {}, failedChild |-> {}]
    /\ failedBlocks = {} /\ unlinked = {} /\ candidates = {Genesis}
    /\ seq = [b \in Blocks |-> IF b = Genesis THEN 1 ELSE 0]
    /\ counters = [next |-> 2, reverse |-> -1, lastPrecious |-> 0]
    /\ tip = Genesis /\ coinsTip = Genesis
    /\ best = [header |-> Genesis, invalid |-> NoBlock]
    /\ pending = FALSE
    /\ act = NoCall

-----------------------------------------------------------------------------
(* Headers and blocks from the network.                                    *)

\* Failed blocks below b's parent that AcceptBlockHeader looks for: only when
\* the parent was never connected.
FailedBelow(b) ==
    IF Parent[b] \in idx.scripts THEN {} ELSE failedBlocks \cap Chain[Parent[b]]

\* AcceptBlockHeader succeeds.
HeaderOk(b) ==
    \/ b \in idx.known \ Failed(idx)
    \/ b \notin idx.known /\ Parent[b] \in idx.known \ Failed(idx) /\ FailedBelow(b) = {}

\* AddToBlockIndex: the first header with the most work is the best one.
BestWithHeader(b) ==
    IF b \notin idx.known /\ Work[best.header] < Work[b]
    THEN [best EXCEPT !.header = b] ELSE best

ProcessNewBlockHeaders(b) ==
    /\ ~CsMainHeld
    /\ b \notin idx.known /\ HeaderOk(b)
    /\ idx' = [idx EXCEPT !.known = @ \cup {b}]
    /\ best' = BestWithHeader(b)
    /\ UNCHANGED <<failedBlocks, unlinked, candidates, seq, counters, tip, coinsTip,
                   pending, act>>

\* The header descends from a failed block: everything between is marked.
RejectHeader(b) ==
    /\ ~CsMainHeld
    /\ b \notin idx.known /\ Parent[b] \in idx.known \ Failed(idx)
    /\ \E f \in FailedBelow(b) :
          idx' = [idx EXCEPT !.failedChild = @ \cup (Chain[Parent[b]] \ Chain[f])]
    /\ UNCHANGED <<failedBlocks, unlinked, candidates, seq, counters, tip, coinsTip,
                   best, pending, act>>

\* ReceivedBlockTransactions: the blocks that b links to the genesis block.
NewlyLinked(b) ==
    IF Parent[b] \in idx.linked
    THEN {b} \cup {d \in Descendants(b) \ {b} : Chain[d] \ Chain[b] \subseteq unlinked}
    ELSE {}

\* The queue is worked off parents first; siblings come in any order.
SequenceIds(S) ==
    {ids \in [S -> counters.next .. counters.next + Cardinality(S) - 1] :
        \A c, d \in S : /\ c # d => ids[c] # ids[d]
                        /\ Height[c] < Height[d] => ids[c] < ids[d]}

ReceivedBlockTransactions(b) ==
    \E ids \in SequenceIds(NewlyLinked(b)) :
        /\ seq' = [c \in Blocks |-> IF c \in NewlyLinked(b) THEN ids[c] ELSE seq[c]]
        /\ counters' = [counters EXCEPT !.next = @ + Cardinality(NewlyLinked(b))]
        /\ candidates' = candidates \cup {c \in NewlyLinked(b) : ~Worse(seq', c, tip)}
        /\ idx' = [idx EXCEPT !.known = @ \cup {b}, !.data = @ \cup {b},
                              !.linked = @ \cup NewlyLinked(b)]
        /\ unlinked' = IF NewlyLinked(b) = {} /\ Parent[b] \notin Failed(idx)
                       THEN unlinked \cup {b} ELSE unlinked \ NewlyLinked(b)

\* AcceptBlock stores a block it asked for, or one that may advance the tip.
Stored(b, requested) ==
    \/ requested
    \/ /\ Work[b] >= Work[tip]
       /\ Height[b] <= Height[tip] + KeepBlocks
       /\ Work[b] >= MinimumWork

\* ProcessNewBlock: AcceptBlock, then a call of ActivateBestChain.
ProcessNewBlock(b, requested) ==
    /\ ~CsMainHeld
    /\ HeaderOk(b) /\ b \notin idx.data
    /\ best' = BestWithHeader(b)
    /\ \/ /\ Stored(b, requested) /\ b \notin Malformed
          /\ ReceivedBlockTransactions(b)
          /\ pending' = TRUE
       \/ /\ Stored(b, requested) /\ b \in Malformed
          /\ idx' = [idx EXCEPT !.known = @ \cup {b}, !.failedValid = @ \cup {b}]
          /\ UNCHANGED <<unlinked, candidates, seq, counters, pending>>
       \/ /\ ~Stored(b, requested)
          /\ idx' = [idx EXCEPT !.known = @ \cup {b}]
          /\ pending' = TRUE
          /\ UNCHANGED <<unlinked, candidates, seq, counters>>
    /\ UNCHANGED <<failedBlocks, tip, coinsTip, act>>

-----------------------------------------------------------------------------
(* ActivateBestChain.  A round runs from FindMostWorkChain to the release  *)
(* of cs_main; act.start is the tip when the round began, act.oldTip the   *)
(* tip when the step of the round began.                                   *)

StartActivation ==
    /\ act.phase = "idle" /\ pending
    /\ pending' = FALSE
    /\ act' = [NoCall EXCEPT !.phase = "active"]
    /\ UNCHANGED <<idx, failedBlocks, unlinked, candidates, seq, counters, tip, coinsTip, best>>

Start == IF act.phase = "active" THEN tip ELSE act.start

\* ActivateBestChainStep towards t begins, if there is anything to do.
BeginStep(t) ==
    act' = IF t = tip THEN NoCall
           ELSE [act EXCEPT !.phase = IF tip \in Chain[t] THEN "connecting" ELSE "disconnecting",
                            !.target = t, !.start = Start, !.oldTip = tip]

\* The target of an earlier round, or of an earlier step, is still set.
ContinueToTarget ==
    /\ act.phase \in {"active", "finding"} /\ act.target # NoBlock
    /\ BeginStep(act.target)
    /\ UNCHANGED <<idx, failedBlocks, unlinked, candidates, seq, counters, tip, coinsTip,
                   best, pending>>

\* x is the last candidate in the order of the set.
MostWork(x) == x \in candidates /\ \A y \in candidates \ {x} : Worse(seq, y, x)

BestInvalid(old, x) == IF old = NoBlock \/ Work[x] > Work[old] THEN x ELSE old

\* Mutant: the flags of the chain are not looked at.
FindMostWorkChainUnchecked ==
    /\ act.phase \in {"active", "finding"} /\ act.target = NoBlock
    /\ IF candidates = {} THEN act' = NoCall
       ELSE \E x \in candidates : MostWork(x) /\ BeginStep(x)
    /\ UNCHANGED <<idx, failedBlocks, unlinked, candidates, seq, counters, tip, coinsTip,
                   best, pending>>

\* FindMostWorkChain takes the best candidate ...
FindMostWorkChain ==
    /\ act.phase \in {"active", "finding"} /\ act.target = NoBlock
    /\ IF candidates = {} THEN act' = NoCall
       ELSE \E x \in candidates :
               /\ MostWork(x) /\ (Chain[x] \ Chain[tip]) \cap Failed(idx) = {}
               /\ BeginStep(x)
    /\ UNCHANGED <<idx, failedBlocks, unlinked, candidates, seq, counters, tip, coinsTip,
                   best, pending>>

\* ... and drops it, down to the failed block, when there is one below.
DropInvalidCandidate ==
    /\ act.phase \in {"active", "finding"} /\ act.target = NoBlock
    /\ \E x \in candidates : \E f \in (Chain[x] \ Chain[tip]) \cap Failed(idx) :
          /\ MostWork(x)
          /\ \A c \in Chain[x] \ Chain[f] : c \notin Failed(idx)
          /\ candidates' = candidates \ ({f} \cup (Chain[x] \ Chain[f]))
          /\ idx' = [idx EXCEPT !.failedChild = @ \cup (Chain[x] \ Chain[f])]
          /\ best' = [best EXCEPT !.invalid = BestInvalid(@, x)]
    /\ act' = [act EXCEPT !.phase = "finding", !.start = Start]
    /\ UNCHANGED <<failedBlocks, unlinked, seq, counters, tip, coinsTip, pending>>

\* Mutant: the call returns after one round.
AfterStepReturns(t, target) ==
    IF Worse(seq, t, act.start) THEN [act EXCEPT !.phase = "finding", !.target = target]
    ELSE NoCall

\* The step is over: go on while the tip is worse than it was, else release
\* cs_main; return once the target is the tip.
AfterStep(t, target) ==
    IF Worse(seq, t, act.start) THEN [act EXCEPT !.phase = "finding", !.target = target]
    ELSE IF t = target THEN NoCall
    ELSE [NoCall EXCEPT !.phase = "active", !.target = target]

\* Mutant: the loop does not stop at the fork.
DisconnectTipPastFork ==
    /\ act.phase = "disconnecting"
    /\ tip' = Parent[tip]
    /\ UNCHANGED <<idx, failedBlocks, unlinked, candidates, seq, counters, coinsTip,
                   best, pending, act>>

\* One turn of ActivateBestChainStep's first loop.
DisconnectTip ==
    /\ act.phase = "disconnecting"
    /\ tip' = Parent[tip]
    /\ act' = IF tip' = act.target THEN AfterStep(tip', act.target)
              ELSE IF tip' \in Chain[act.target] THEN [act EXCEPT !.phase = "connecting"]
              ELSE act
    /\ UNCHANGED <<idx, failedBlocks, unlinked, candidates, seq, counters, coinsTip,
                   best, pending>>

Connecting(b) == act.phase = "connecting" /\ b \in Chain[act.target] /\ Parent[b] = tip

PruneBlockIndexCandidates(c, ids, t) == {x \in c : ~Worse(ids, x, t)}

\* ConnectTip, PruneBlockIndexCandidates, and the end of the step once the tip
\* has more work than before.
ConnectTip(b) ==
    /\ Connecting(b) /\ b \notin Invalid \cup Unapplicable
    /\ tip' = b
    /\ idx' = [idx EXCEPT !.scripts = @ \cup {b}]
    /\ candidates' = PruneBlockIndexCandidates(candidates, seq, b)
    /\ act' = IF Work[b] > Work[act.oldTip] \/ b = act.target
              THEN AfterStep(b, act.target) ELSE act
    /\ UNCHANGED <<failedBlocks, unlinked, seq, counters, coinsTip, best, pending>>

\* InvalidChainFound.
WithInvalid(bst, x, t) ==
    [header  |-> IF x \in Chain[bst.header] THEN t ELSE bst.header,
     invalid |-> BestInvalid(bst.invalid, x)]

\* Mutant: the target is kept.
ConnectTipInvalidKeepsTarget(b) ==
    /\ Connecting(b) /\ b \in Invalid
    /\ idx' = [idx EXCEPT !.failedValid = @ \cup {b}]
    /\ failedBlocks' = failedBlocks \cup {b}
    /\ candidates' = candidates \ {b}
    /\ best' = WithInvalid(WithInvalid(best, b, tip), act.target, tip)
    /\ act' = AfterStep(tip, act.target)
    /\ UNCHANGED <<unlinked, seq, counters, tip, coinsTip, pending>>

\* InvalidBlockFound, and InvalidChainFound for the target; the target is forgotten.
ConnectTipInvalid(b) ==
    /\ Connecting(b) /\ b \in Invalid
    /\ idx' = [idx EXCEPT !.failedValid = @ \cup {b}]
    /\ failedBlocks' = failedBlocks \cup {b}
    /\ candidates' = candidates \ {b}
    /\ best' = WithInvalid(WithInvalid(best, b, tip), act.target, tip)
    /\ act' = AfterStep(tip, NoBlock)
    /\ UNCHANGED <<unlinked, seq, counters, tip, coinsTip, pending>>

\* BLOCK_MUTATED: InvalidBlockFound does nothing; the target is forgotten.
ConnectTipMutated(b) ==
    /\ Connecting(b) /\ b \in Unapplicable \ Invalid
    /\ act' = AfterStep(tip, NoBlock)
    /\ UNCHANGED <<idx, failedBlocks, unlinked, candidates, seq, counters, tip, coinsTip,
                   best, pending>>

Activate ==
    \/ StartActivation \/ ContinueToTarget \/ FindMostWorkChain \/ DropInvalidCandidate
    \/ DisconnectTip
    \/ \E b \in Blocks : ConnectTip(b) \/ ConnectTipInvalid(b) \/ ConnectTipMutated(b)

-----------------------------------------------------------------------------
(* invalidateblock, reconsiderblock, preciousblock.                        *)

\* InvalidateBlock takes m_cs_chainstate and collects the blocks that may
\* become candidates when the tip goes back.
StartInvalidate(b) ==
    /\ act.phase = "idle"
    /\ b \in (Invalidated \cap idx.known) \ {Genesis}
    /\ act' = [NoCall EXCEPT !.phase = "invalidating", !.target = b, !.mark = b,
                 !.byWork = {c \in Usable(idx) \ Chain[tip] : ~Worse(seq, c, Parent[b])}]
    /\ UNCHANGED <<idx, failedBlocks, unlinked, candidates, seq, counters, tip, coinsTip,
                   best, pending>>

\* Mutant: the parent does not become a candidate.
InvalidateTipDropsParent ==
    /\ act.phase = "invalidating" /\ act.target \in Chain[tip]
    /\ tip' = Parent[tip]
    /\ idx' = [idx EXCEPT !.failedValid = @ \cup {tip}]
    /\ candidates' = candidates \ {tip}
    /\ act' = [act EXCEPT !.mark = tip]
    /\ UNCHANGED <<failedBlocks, unlinked, seq, counters, coinsTip, best, pending>>

\* One turn of its loop, with cs_main.  The condition under which the block
\* disconnected before becomes BLOCK_FAILED_CHILD compares it with the parent
\* of the present one.
InvalidateTip ==
    LET parent == Parent[tip]
        found == {c \in act.byWork : ~Worse(seq, c, parent)}
        marked == [idx EXCEPT !.failedValid = @ \cup {tip}]
    IN /\ act.phase = "invalidating" /\ act.target \in Chain[tip]
       /\ tip' = parent
       /\ idx' = IF parent = act.mark /\ act.mark \in marked.failedValid
                 THEN [marked EXCEPT !.failedValid = @ \ {act.mark},
                                     !.failedChild = @ \cup {act.mark}]
                 ELSE marked
       /\ candidates' = (candidates \ {tip}) \cup {parent} \cup found
       /\ act' = [act EXCEPT !.mark = tip, !.byWork = @ \ found]
       /\ UNCHANGED <<failedBlocks, unlinked, seq, counters, coinsTip, best, pending>>

\* Mutant: a block that never was in the chain is not marked.
FinishInvalidateUnmarked ==
    /\ act.phase = "invalidating" /\ act.target \notin Chain[tip]
    /\ failedBlocks' = failedBlocks \cup {act.mark}
    /\ candidates' = (candidates \ {act.mark}) \cup
                        {b \in Usable(idx) : ~Worse(seq, b, tip)}
    /\ best' = WithInvalid(best, act.mark, tip)
    /\ pending' = TRUE
    /\ act' = NoCall
    /\ UNCHANGED <<idx, unlinked, seq, counters, tip, coinsTip>>

\* Mutant: blocks that came in between are not looked for.
FinishInvalidateNoNew ==
    /\ act.phase = "invalidating" /\ act.target \notin Chain[tip]
    /\ idx' = [idx EXCEPT !.failedValid = @ \cup {act.mark}]
    /\ failedBlocks' = failedBlocks \cup {act.mark}
    /\ candidates' = candidates \ {act.mark}
    /\ best' = WithInvalid(best, act.mark, tip)
    /\ pending' = TRUE
    /\ act' = NoCall
    /\ UNCHANGED <<unlinked, seq, counters, tip, coinsTip>>

\* The block is out of the chain: it is marked, candidates that came in between
\* are added, and the RPC goes on to call ActivateBestChain.
FinishInvalidate ==
    /\ act.phase = "invalidating" /\ act.target \notin Chain[tip]
    /\ idx' = [idx EXCEPT !.failedValid = @ \cup {act.mark}]
    /\ failedBlocks' = failedBlocks \cup {act.mark}
    /\ candidates' = (candidates \ {act.mark}) \cup
                        {c \in Usable(idx') : ~Worse(seq, c, tip)}
    /\ best' = WithInvalid(best, act.mark, tip)
    /\ pending' = TRUE
    /\ act' = NoCall
    /\ UNCHANGED <<unlinked, seq, counters, tip, coinsTip>>

\* ResetBlockFailureFlags under cs_main alone: descendants and ancestors of b.
ReconsiderBlock(b) ==
    LET cleared == Descendants(b) \cap Failed(idx)
        all == cleared \cup (Chain[b] \cap Failed(idx))
    IN /\ ~CsMainHeld
       /\ b \in Reconsidered \cap idx.known
       /\ idx' = [idx EXCEPT !.failedValid = @ \ all, !.failedChild = @ \ all]
       /\ candidates' = candidates \cup {c \in cleared \cap Usable(idx') : Worse(seq, tip, c)}
       /\ failedBlocks' = failedBlocks \ all
       /\ best' = IF best.invalid \in cleared THEN [best EXCEPT !.invalid = NoBlock] ELSE best
       /\ pending' = TRUE
       /\ UNCHANGED <<unlinked, seq, counters, tip, coinsTip, act>>

\* PreciousBlock: b sorts before everything of the same work.
PreciousBlock(b) ==
    LET reverse == IF Work[tip] > counters.lastPrecious THEN -1 ELSE counters.reverse
        ids == [seq EXCEPT ![b] = reverse]
    IN /\ ~CsMainHeld
       /\ b \in Precious \cap idx.known
       /\ Work[b] >= Work[tip]
       /\ reverse >= -MaxPrecious
       /\ counters' = [counters EXCEPT !.reverse = reverse - 1, !.lastPrecious = Work[tip]]
       /\ seq' = ids
       /\ candidates' = IF b \in Usable(idx)
                        THEN PruneBlockIndexCandidates(candidates \cup {b}, ids, tip)
                        ELSE candidates \ {b}
       /\ pending' = TRUE
       /\ UNCHANGED <<idx, failedBlocks, unlinked, tip, coinsTip, best, act>>

-----------------------------------------------------------------------------
(* Restart.                                                                *)

FlushCoins ==
    /\ Crashes /\ coinsTip # tip
    /\ coinsTip' = tip
    /\ UNCHANGED <<idx, failedBlocks, unlinked, candidates, seq, counters, tip, best,
                   pending, act>>

\* Mutant: nChainTx is not computed.
ReloadedUnlinked ==
    [idx EXCEPT !.failedChild = @ \cup {b \in idx.known \ Failed(idx) :
                                           Chain[b] \cap Failed(idx) # {}},
                !.linked = {}]

\* BlockManager::LoadBlockIndex: marks the children of failed blocks ...
Reloaded ==
    [idx EXCEPT !.failedChild = @ \cup {b \in idx.known \ Failed(idx) :
                                           Chain[b] \cap Failed(idx) # {}},
                !.linked = {b \in idx.data : Chain[b] \subseteq idx.data}]

\* Mutant: m_blocks_unlinked stays empty.
UnlinkedForgotten(i) == {}

\* ... collects the blocks that wait for one below ...
UnlinkedAfterLoad(i) == i.data \ i.linked

\* ... and finds the best header and the best invalid block again.
ReloadedBest(i, ids) ==
    [header  |-> CHOOSE h \in i.known \ Failed(i) :
                    \A c \in (i.known \ Failed(i)) \ {h} : Worse(ids, c, h),
     invalid |-> IF Failed(i) = {} THEN NoBlock
                 ELSE CHOOSE h \in Failed(i) : \A c \in Failed(i) :
                         \/ Work[c] < Work[h]
                         \/ Work[c] = Work[h] /\ Height[h] < Height[c]
                         \/ /\ Work[c] = Work[h] /\ Height[h] = Height[c]
                            /\ Address[h] <= Address[c]]

\* Shutdown or crash, then LoadBlockIndex, LoadChainTip and, from ThreadImport,
\* ActivateBestChain.  The block index is written no later than the coins.
Restart(t) ==
    LET ids == [b \in Blocks |-> 0]
    IN /\ \/ Restarts /\ ~CsMainHeld /\ t = tip
          \/ Crashes /\ t = coinsTip
       /\ idx' = Reloaded
       /\ seq' = ids
       /\ counters' = [next |-> 1, reverse |-> -1, lastPrecious |-> 0]
       /\ failedBlocks' = {}
       /\ unlinked' = UnlinkedAfterLoad(idx')
       /\ tip' = t /\ coinsTip' = t
       /\ candidates' = PruneBlockIndexCandidates(Usable(idx'), ids, t)
       /\ best' = ReloadedBest(idx', ids)
       /\ pending' = TRUE
       /\ act' = NoCall

Next ==
    \/ \E b \in Blocks :
          \/ ProcessNewBlockHeaders(b) \/ RejectHeader(b)
          \/ \E requested \in BOOLEAN : ProcessNewBlock(b, requested)
          \/ StartInvalidate(b) \/ ReconsiderBlock(b) \/ PreciousBlock(b)
          \/ Restart(b)
    \/ Activate
    \/ InvalidateTip \/ FinishInvalidate
    \/ FlushCoins

Spec == Init /\ [][Next]_vars

\* ActivateBestChain and InvalidateBlock run to their end once called.
FairSpec == Spec /\ WF_vars(Activate) /\ WF_vars(InvalidateTip \/ FinishInvalidate)

-----------------------------------------------------------------------------
(* Properties.  The first ones are what CheckBlockIndex asserts, at every  *)
(* moment at which another thread could call it.                           *)

\* Every variable keeps its type.
TypeOK ==
    /\ idx \in [known : SUBSET Blocks, data : SUBSET Blocks, linked : SUBSET Blocks,
                scripts : SUBSET Blocks, failedValid : SUBSET Blocks,
                failedChild : SUBSET Blocks]
    /\ {failedBlocks, unlinked, candidates} \subseteq SUBSET Blocks
    /\ seq \in [Blocks -> Int]
    /\ counters \in [next : Nat, reverse : Int, lastPrecious : Nat]
    /\ tip \in Blocks /\ coinsTip \in Blocks
    /\ best \in [header : Blocks, invalid : Blocks \cup {NoBlock}]
    /\ pending \in BOOLEAN
    /\ act.phase \in {"idle", "active", "finding", "disconnecting", "connecting", "invalidating"}

\* A block that sorts at least as well as the tip, with all its data and no
\* invalid block below it, is in setBlockIndexCandidates (CheckBlockIndex).
\* InvalidateBlock restores this only when it ends, as its comment says.
CandidatesComplete ==
    ~CsMainHeld /\ act.phase # "invalidating" =>
        \A b \in idx.linked : ~Worse(seq, b, tip) /\ Chain[b] \cap idx.failedValid = {}
                                => b \in candidates

\* Nothing that sorts worse than the tip, or that lacks a block below it, is
\* left in setBlockIndexCandidates (CheckBlockIndex).
CandidatesSound ==
    ~CsMainHeld => \A b \in candidates : ~Worse(seq, b, tip) /\ Chain[b] \subseteq idx.data

\* setBlockIndexCandidates is what CheckBlockIndex demands, whatever invalidateblock,
\* reconsiderblock, preciousblock and arriving blocks did to it between two rounds:
\* every chain the node could switch to is there, and nothing else.
CandidatesExact == CandidatesComplete /\ CandidatesSound

\* PruneBlockIndexCandidates' assertion: the tip or a successor is left.
CandidatesLeft == candidates # {}

\* A block with data below which a block was never received waits in
\* m_blocks_unlinked, so that it is found when that block arrives.
UnlinkedComplete ==
    \A b \in idx.data : ~(Chain[b] \subseteq idx.data) /\ Chain[b] \cap idx.failedValid = {}
                           => b \in unlinked

\* No block carries a failure flag without a BLOCK_FAILED_VALID block below it, and
\* the members of m_failed_blocks are marked so (AcceptBlockHeader's assertion).
FailuresAgree ==
    /\ ~CsMainHeld => \A b \in Failed(idx) : Chain[b] \cap idx.failedValid # {}
    /\ failedBlocks \subseteq idx.failedValid

\* The active chain never holds a block that is marked as failed, although
\* ActivateBestChain keeps its target while cs_main is released.
ActiveChainValid == ~CsMainHeld => Chain[tip] \cap Failed(idx) = {}

\* When no call is under way or waiting, no chain with all its data and without
\* a failed block sorts better than the active chain.
Settled ==
    act.phase = "idle" /\ ~pending =>
        \A b \in Blocks : Chain[b] \subseteq idx.data /\ Chain[b] \cap Failed(idx) = {}
                             => ~Worse(seq, tip, b)

\* Every call of ActivateBestChain ends: "we absolutely may not unlock cs_main
\* until we've made forward progress".
ActivationEnds == act.phase # "idle" ~> act.phase = "idle"
=============================================================================

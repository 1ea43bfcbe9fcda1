----------------------------- MODULE ChainFlush -----------------------------
(***************************************************************************)
(* Writing the chainstate to disk and getting it back after a crash.       *)
(*                                                                         *)
(* CChainState::FlushStateToDisk writes the block index and then the coins *)
(* cache; CCoinsViewDB::BatchWrite (txdb.cpp) splits the coins into        *)
(* several database batches and marks the database, by DB_HEAD_BLOCKS, as  *)
(* being in transit from an old tip to a new one; the last batch also      *)
(* carries the MWEB coins and the number of the MMR files (libmw).  After  *)
(* a crash CChainState::ReplayBlocks rolls the old branch back and the new *)
(* branch forward over a database of which only part was written.          *)
(*                                                                         *)
(* The node holds cs_main for the whole of a flush and of a start-up, so   *)
(* the only thing that can happen between two of the steps below is a      *)
(* crash.  The FRESH flag and the layers of caches are the subject of      *)
(* module CoinsCache; here the cache is the set of its dirty entries.      *)
(***************************************************************************)
EXTENDS Integers, Sequences, FiniteSets

CONSTANTS
    Blocks, Genesis, NoBlock, \* the block tree; NoBlock is the null hash
    Parent, Height,           \* pprev and nHeight of each block
    Chain,                    \* a block's ancestors and the block itself
    Outpoints,
    Creates, Spends,          \* outpoints each block's transactions create and spend
    UtxoAt,                   \* the UTXO set as of each block (the reference)
    Spent, NotCached,
    MwebHeight,               \* first height whose blocks carry an extension block
    KeepBlocks,               \* MIN_BLOCKS_TO_KEEP
    PowerLoss,                \* may the machine lose writes that were not synced?
    MaxMmrIndex               \* bound on the number of flushes of MWEB data

Coins == {Height[b] : b \in Blocks}

Utxos == [Outpoints -> Coins \cup {Spent}]

\* AddCoins (coins.cpp) and SpendCoin applied transaction by transaction: an
\* output created and spent in the same block ends up spent.
Applied(b, coins) ==
    [o \in Outpoints |-> CASE o \in Spends[b] -> Spent
                           [] o \in Creates[b] \ Spends[b] -> Height[b]
                           [] OTHER -> coins[o]]

ASSUME BlockTree ==
    /\ Genesis \in Blocks
    /\ NoBlock \notin Blocks
    /\ Parent \in [Blocks -> Blocks \cup {NoBlock}]
    /\ \A b \in Blocks : Parent[b] = NoBlock <=> b = Genesis
    /\ Height \in [Blocks -> Nat]
    /\ \A b \in Blocks \ {Genesis} : Height[b] = Height[Parent[b]] + 1
    /\ Chain[Genesis] = {Genesis}
    /\ \A b \in Blocks \ {Genesis} : Chain[b] = Chain[Parent[b]] \cup {b}

\* Blocks are consensus valid: a block spends what exists, and never creates
\* an output over an unspent one (BIP30).  Genesis creates no spendable coin.
ASSUME ValidBlocks ==
    /\ Creates \in [Blocks -> SUBSET Outpoints]
    /\ Spends \in [Blocks -> SUBSET Outpoints]
    /\ Spent \notin Coins
    /\ NotCached \notin Coins \cup {Spent}
    /\ UtxoAt \in [Blocks -> Utxos]
    /\ Creates[Genesis] = {} /\ Spends[Genesis] = {}
    /\ UtxoAt[Genesis] = [o \in Outpoints |-> Spent]
    /\ \A b \in Blocks \ {Genesis} :
          /\ UtxoAt[b] = Applied(b, UtxoAt[Parent[b]])
          /\ \A o \in Creates[b] : UtxoAt[Parent[b]][o] = Spent
          /\ \A o \in Spends[b] \ Creates[b] : UtxoAt[Parent[b]][o] # Spent

ASSUME Limits ==
    /\ MwebHeight \in Nat
    /\ KeepBlocks \in Nat
    /\ MaxMmrIndex \in Nat
    /\ PowerLoss \in BOOLEAN

VARIABLES
    db,        \* the chainstate database
    synced,    \* what of it a power loss would leave
    mmrFiles,  \* leaf set and PMMR files: number -> the block they describe
    index,     \* the block index in memory
    diskIndex, \* the block index in blocks/index (written with fSync)
    files,     \* blocks whose blk and rev data is on disk
    undo,      \* the coins each rev record restores
    node,      \* what the process is doing
    flush,     \* the parameters of the flush in progress
    tip,       \* CoinsTip().GetBestBlock()
    cache,     \* the dirty entries of the coins cache
    mweb,      \* the MWEB view above the database: header and MMR state
    at         \* ReplayBlocks: block whose state the replay has reached

vars == <<db, synced, mmrFiles, index, diskIndex, files, undo, node, flush,
          tip, cache, mweb, at>>

chainVars == <<index, diskIndex, files, undo>>

HashOrNull == Blocks \cup {NoBlock}

IndexEntries == [known : SUBSET Blocks, data : SUBSET Blocks, undo : SUBSET Blocks]

Phases == {"down", "running", "writing index", "unlinking", "writing coins",
           "writing batch", "compacting", "rolling back", "rolling forward",
           "refused"}

NoFlush == [prune |-> {}, full |-> FALSE]

EmptyCache == [o \in Outpoints |-> NotCached]

NothingSpendable == [o \in Outpoints |-> Spent]

\* What a read through the cache sees.
Through(entries, coins) ==
    [o \in Outpoints |-> IF entries[o] = NotCached THEN coins[o] ELSE entries[o]]

View == Through(cache, db.coins)

\* ConnectBlock's UpdateCoins and RollforwardBlock: both spend and create
\* through the cache, whatever was there before.
Connected(b, entries) ==
    [o \in Outpoints |-> CASE o \in Spends[b] -> Spent
                           [] o \in Creates[b] \ Spends[b] -> Height[b]
                           [] OTHER -> entries[o]]

\* DisconnectBlock: transactions in reverse order, so the outputs a block
\* creates go last and win over the inputs it restores (ApplyTxInUndo).
Disconnected(b, entries) ==
    [o \in Outpoints |-> CASE o \in Creates[b] -> Spent
                           [] o \in Spends[b] \ Creates[b] -> undo[b][o]
                           [] OTHER -> entries[o]]

\* The MWEB state that belongs to a block: none before activation.
MwebAt(b) == IF b # NoBlock /\ Height[b] >= MwebHeight THEN b ELSE NoBlock

Init ==
    /\ db = [coins |-> NothingSpendable, best |-> NoBlock, heads |-> <<>>,
             mweb |-> NoBlock, mmr |-> 0]
    /\ synced = db
    /\ mmrFiles = [i \in 0 .. MaxMmrIndex |-> NoBlock]
    /\ index = [known |-> {Genesis}, data |-> {Genesis}, undo |-> {}]
    /\ diskIndex = [known |-> {}, data |-> {}, undo |-> {}]
    /\ files = {Genesis}
    /\ undo = [b \in Blocks |-> NothingSpendable]
    /\ node = "running"
    /\ flush = NoFlush
    /\ tip = NoBlock
    /\ cache = EmptyCache
    /\ mweb = [header |-> NoBlock, state |-> NoBlock]
    /\ at = NoBlock

-----------------------------------------------------------------------------
(* The running node.                                                       *)

\* AcceptBlock: the block goes to a blk file and into the index in memory.
AcceptBlock(b) ==
    /\ node = "running"
    /\ b \notin index.data
    /\ Parent[b] \in index.known
    /\ index' = [index EXCEPT !.known = @ \cup {b}, !.data = @ \cup {b}]
    /\ files' = files \cup {b}
    /\ UNCHANGED <<db, synced, mmrFiles, diskIndex, undo, node, flush, tip,
                   cache, mweb, at>>

\* WriteUndoDataForBlock: the coins the block spends, as the view has them.
UndoOf(b) == [o \in Outpoints |-> IF o \in Spends[b] \ Creates[b] THEN View[o] ELSE Spent]

\* ConnectTip: the block's coins, its undo record (written once) and its MWEB
\* block.  mw::CoinsViewCache::ApplyBlock throws unless the MMR roots and the
\* kernel offset follow from the view's own state; the block then stays
\* unconnected and nothing changes.
ConnectTip(b) ==
    /\ node = "running"
    /\ b \in index.data
    /\ Parent[b] = tip
    /\ Height[b] >= MwebHeight =>
          mweb = [header |-> MwebAt(tip), state |-> MwebAt(tip)]
    /\ cache' = Connected(b, cache)
    /\ undo' = IF b = Genesis \/ b \in index.undo THEN undo ELSE [undo EXCEPT ![b] = UndoOf(b)]
    /\ index' = IF b = Genesis THEN index ELSE [index EXCEPT !.undo = @ \cup {b}]
    /\ mweb' = IF Height[b] >= MwebHeight THEN [header |-> b, state |-> b] ELSE mweb
    /\ tip' = b
    /\ UNCHANGED <<db, synced, mmrFiles, diskIndex, files, node, flush, at>>

\* mw::CoinsViewCache::UndoBlock in DisconnectTip's own view, then the flush of
\* that view into the tip's.  CoinsViewCache::Flush returns at once when the
\* view's best header is null, which it is after the first MWEB block is undone.
MwebUndone(b) ==
    IF Height[b] >= MwebHeight /\ MwebAt(Parent[b]) # NoBlock
    THEN [header |-> Parent[b], state |-> Parent[b]]
    ELSE mweb

\* DisconnectTip.  UndoBlock throws when the rewound roots do not match.
DisconnectTip ==
    /\ node = "running"
    /\ tip \in (index.data \cap index.undo) \ {Genesis}
    /\ MwebAt(Parent[tip]) # NoBlock => mweb.state = tip
    /\ cache' = Disconnected(tip, cache)
    /\ mweb' = MwebUndone(tip)
    /\ tip' = Parent[tip]
    /\ UNCHANGED <<db, synced, mmrFiles, chainVars, node, flush, at>>

-----------------------------------------------------------------------------
(* FlushStateToDisk.                                                       *)

\* Mutant: the blocks near the tip may go too.
PrunableAnyHeight == {b \in index.data : tip # NoBlock}

\* FindFilesToPrune: only blocks KeepBlocks or more below the tip.
Prunable == {b \in index.data : tip # NoBlock /\ Height[b] + KeepBlocks <= Height[tip]}

\* Mutant: the files go before the index is written.
StartFlushUnlinks(prune, full) ==
    /\ node = "running"
    /\ prune # {} => full
    /\ full => db.mmr < MaxMmrIndex
    /\ index' = [index EXCEPT !.data = @ \ prune, !.undo = @ \ prune]
    /\ files' = files \ prune
    /\ flush' = [prune |-> prune, full |-> full]
    /\ node' = "writing index"
    /\ UNCHANGED <<db, synced, mmrFiles, diskIndex, undo, tip, cache, mweb, at>>

\* A flush is asked for; pruning clears the flags in memory (PruneOneBlockFile)
\* and forces the coins to be written too.
StartFlush(prune, full) ==
    /\ node = "running"
    /\ prune # {} => full
    /\ full => db.mmr < MaxMmrIndex
    /\ index' = [index EXCEPT !.data = @ \ prune, !.undo = @ \ prune]
    /\ flush' = [prune |-> prune, full |-> full]
    /\ node' = "writing index"
    /\ UNCHANGED <<db, synced, mmrFiles, diskIndex, files, undo, tip, cache, mweb, at>>

\* FlushBlockFile, then CBlockTreeDB::WriteBatchSync.
WriteIndex ==
    /\ node = "writing index"
    /\ diskIndex' = index
    /\ node' = "unlinking"
    /\ UNCHANGED <<db, synced, mmrFiles, index, files, undo, flush, tip, cache, mweb, at>>

\* UnlinkPrunedFiles; the coins follow if this is a full flush.
UnlinkPrunedFiles ==
    /\ node = "unlinking"
    /\ files' = files \ flush.prune
    /\ node' = IF flush.full /\ tip # NoBlock THEN "writing coins" ELSE "running"
    /\ flush' = NoFlush
    /\ UNCHANGED <<db, synced, mmrFiles, index, diskIndex, undo, tip, cache, mweb, at>>

\* BatchWrite's old_tip: the best block, or the old head of the interrupted
\* flush that a replay is finishing.
OldTip(d) ==
    CASE d.best # NoBlock -> d.best
      [] d.best = NoBlock /\ d.heads # <<>> -> d.heads[2]
      [] OTHER -> NoBlock

Dirty == {o \in Outpoints : cache[o] # NotCached}

Only(entries, S) == [o \in Outpoints |-> IF o \in S THEN entries[o] ELSE NotCached]

\* Mutant: the heads are left to the last batch.
WritePartialBatchUnmarked(S) ==
    /\ node = "writing coins"
    /\ S # {}
    /\ db' = [db EXCEPT !.coins = Through(Only(cache, S), @)]
    /\ cache' = Only(cache, Dirty \ S)
    /\ UNCHANGED <<synced, mmrFiles, chainVars, node, flush, tip, mweb, at>>

\* The batch outgrew -dbbatchsize: the entries so far are written, and with the
\* first batch the heads.  The map's order is arbitrary.
WritePartialBatch(S) ==
    /\ node = "writing coins"
    /\ S # {}
    /\ db' = [db EXCEPT !.coins = Through(Only(cache, S), @),
                        !.best = NoBlock,
                        !.heads = <<tip, OldTip(db)>>]
    /\ cache' = Only(cache, Dirty \ S)
    /\ UNCHANGED <<synced, mmrFiles, chainVars, node, flush, tip, mweb, at>>

\* Mutant: the old files are removed with the new ones written.
FlushMwebCompacts ==
    /\ node = "writing coins"
    /\ mmrFiles' = IF mweb.header = NoBlock THEN mmrFiles
                   ELSE [i \in DOMAIN mmrFiles |->
                            IF i = db.mmr + 1 THEN mweb.state ELSE NoBlock]
    /\ node' = "writing batch"
    /\ UNCHANGED <<db, synced, chainVars, flush, tip, cache, mweb, at>>

\* derivedView->Flush: a no-op without a header, else new MMR files under the
\* next number.  The database does not name them yet.
FlushMweb ==
    /\ node = "writing coins"
    /\ mmrFiles' = IF mweb.header = NoBlock THEN mmrFiles
                   ELSE [mmrFiles EXCEPT ![db.mmr + 1] = mweb.state]
    /\ node' = "writing batch"
    /\ UNCHANGED <<db, synced, chainVars, flush, tip, cache, mweb, at>>

\* The last batch: remaining coins, MWEB coins, MMR number and DB_BEST_BLOCK.
WriteFinalBatch ==
    /\ node = "writing batch"
    /\ db' = [coins |-> View, best |-> tip, heads |-> <<>>,
              mweb |-> IF mweb.header = NoBlock THEN db.mweb ELSE mweb.state,
              mmr |-> IF mweb.header = NoBlock THEN db.mmr ELSE db.mmr + 1]
    /\ cache' = EmptyCache
    /\ node' = "compacting"
    /\ UNCHANGED <<synced, mmrFiles, chainVars, flush, tip, mweb, at>>

\* Compact: the MMR files of earlier numbers are removed.
Compact ==
    /\ node = "compacting"
    /\ mmrFiles' = [i \in DOMAIN mmrFiles |-> IF i < db.mmr THEN NoBlock ELSE mmrFiles[i]]
    /\ node' = "running"
    /\ UNCHANGED <<db, synced, chainVars, flush, tip, cache, mweb, at>>

-----------------------------------------------------------------------------
(* Crashes and start-up.                                                   *)

\* The process loses what is only in memory.
Forget ==
    /\ node' = "down"
    /\ index' = diskIndex
    /\ flush' = NoFlush
    /\ tip' = NoBlock
    /\ cache' = EmptyCache
    /\ mweb' = [header |-> NoBlock, state |-> NoBlock]
    /\ at' = NoBlock
    /\ UNCHANGED <<mmrFiles, diskIndex, files, undo>>

Crash ==
    /\ node \notin {"down", "refused"}
    /\ Forget
    /\ UNCHANGED <<db, synced>>

\* LevelDB writes without fSync reach the disk at some later time, in order.
SyncDatabase ==
    /\ PowerLoss
    /\ synced # db
    /\ synced' = db
    /\ UNCHANGED <<db, mmrFiles, chainVars, node, flush, tip, cache, mweb, at>>

LosePower ==
    /\ PowerLoss
    /\ node \notin {"down", "refused"}
    /\ Forget
    /\ db' = synced
    /\ UNCHANGED synced

\* The latest block common to both tips; from nothing when this is the first flush.
LastCommonAncestor(a, b) ==
    IF a = NoBlock THEN NoBlock
    ELSE CHOOSE c \in Chain[a] \cap Chain[b] :
            \A d \in Chain[a] \cap Chain[b] : Height[d] <= Height[c]

\* LoadBlockIndex, InitCoinsDB and the beginning of ReplayBlocks.  InitCoinsDB
\* reads the best block (there is none mid-flush) for its MWEB header, and opens
\* the MMR files by number, creating empty ones if they are missing.
Restart ==
    LET known == db.heads = <<>> \/
                 {db.heads[1], db.heads[2]} \subseteq index.known \cup {NoBlock}
        readable == db.best = NoBlock \/ db.best \in index.data
    IN /\ node = "down"
       /\ node' = CASE ~known \/ ~readable -> "refused"
                    [] known /\ readable /\ db.heads = <<>> -> "running"
                    [] OTHER -> "rolling back"
       /\ tip' = db.best
       /\ mweb' = [header |-> MwebAt(db.best), state |-> mmrFiles[db.mmr]]
       /\ at' = IF db.heads = <<>> THEN NoBlock ELSE db.heads[2]
       /\ index' = [known |-> index.known \cup {Genesis},
                    data |-> index.data \cup (IF Genesis \in index.known THEN {} ELSE {Genesis}),
                    undo |-> index.undo]
       /\ UNCHANGED <<db, synced, mmrFiles, diskIndex, files, undo, flush, cache>>

\* Mutant: the loop does not move to pprev.
RollBackInPlace ==
    /\ node = "rolling back"
    /\ at # LastCommonAncestor(db.heads[2], db.heads[1])
    /\ cache' = Disconnected(at, cache)
    /\ UNCHANGED <<db, synced, mmrFiles, chainVars, node, flush, tip, mweb, at>>

\* One turn of the rollback loop.  DisconnectBlock undoes the MWEB block in the
\* replay's own cache.
RollBack ==
    LET fork == LastCommonAncestor(db.heads[2], db.heads[1])
        readable == at \in index.data \cap index.undo
        undoable == Height[at] >= MwebHeight /\ MwebAt(Parent[at]) # NoBlock
                       => mweb.state = at
    IN /\ node = "rolling back"
       /\ at # fork
       /\ IF readable /\ undoable
          THEN /\ cache' = Disconnected(at, cache)
               /\ mweb' = IF Height[at] >= MwebHeight
                          THEN [header |-> MwebAt(Parent[at]), state |-> MwebAt(Parent[at])]
                          ELSE mweb
               /\ at' = Parent[at]
               /\ UNCHANGED node
          ELSE node' = "refused" /\ UNCHANGED <<cache, mweb, at>>
       /\ UNCHANGED <<db, synced, mmrFiles, chainVars, flush, tip>>

\* Mutant: the old branch is not rolled back.
ReachedForkAtOnce ==
    /\ node = "rolling back"
    /\ at' = LET fork == LastCommonAncestor(db.heads[2], db.heads[1])
             IN IF fork = NoBlock THEN Genesis ELSE fork
    /\ node' = "rolling forward"
    /\ UNCHANGED <<db, synced, mmrFiles, chainVars, flush, tip, cache, mweb>>

\* The rollback loop ends at the fork; with no old tip there was none.
ReachedFork ==
    /\ node = "rolling back"
    /\ at = LastCommonAncestor(db.heads[2], db.heads[1])
    /\ at' = IF at = NoBlock THEN Genesis ELSE at
    /\ node' = "rolling forward"
    /\ UNCHANGED <<db, synced, mmrFiles, chainVars, flush, tip, cache, mweb>>

\* RollforwardBlock on pindexNew->GetAncestor(nHeight).  It applies the block's
\* transactions and not its MWEB block.
RollForward ==
    /\ node = "rolling forward"
    /\ at # db.heads[1]
    /\ \E b \in Chain[db.heads[1]] :
          /\ Parent[b] = at
          /\ IF b \in index.data
             THEN cache' = Connected(b, cache) /\ at' = b /\ UNCHANGED node
             ELSE node' = "refused" /\ UNCHANGED <<cache, at>>
    /\ UNCHANGED <<db, synced, mmrFiles, chainVars, flush, tip, mweb>>

\* SetBestBlock and Flush, straight to the database.
ReplayDone ==
    /\ node = "rolling forward"
    /\ at = db.heads[1]
    /\ tip' = at
    /\ at' = NoBlock
    /\ node' = "writing coins"
    /\ UNCHANGED <<db, synced, mmrFiles, chainVars, flush, cache, mweb>>

Replay == RollBack \/ ReachedFork \/ RollForward \/ ReplayDone

Write ==
    \/ WriteIndex
    \/ UnlinkPrunedFiles
    \/ \E S \in SUBSET Dirty : WritePartialBatch(S)
    \/ FlushMweb
    \/ WriteFinalBatch
    \/ Compact

Next ==
    \/ \E b \in Blocks : AcceptBlock(b) \/ ConnectTip(b)
    \/ DisconnectTip
    \/ \E prune \in SUBSET Prunable, full \in BOOLEAN : StartFlush(prune, full)
    \/ Write
    \/ Crash
    \/ SyncDatabase
    \/ LosePower
    \/ Restart
    \/ Replay

Spec == Init /\ [][Next]_vars

\* The flush and the start-up are straight-line code of one thread.
FairSpec == Spec /\ WF_vars(Write) /\ WF_vars(Replay)

-----------------------------------------------------------------------------
(* Properties.                                                             *)

CoinsAt(b) == IF b = NoBlock THEN NothingSpendable ELSE UtxoAt[b]

Databases ==
    [coins : Utxos, best : HashOrNull,
     heads : {<<>>} \cup (Blocks \X HashOrNull),
     mweb : HashOrNull, mmr : 0 .. MaxMmrIndex]

\* Every variable keeps its type; the number of the MMR files stays in bounds.
TypeOK ==
    /\ db \in Databases
    /\ synced \in Databases
    /\ mmrFiles \in [0 .. MaxMmrIndex -> HashOrNull]
    /\ index \in IndexEntries
    /\ diskIndex \in IndexEntries
    /\ files \in SUBSET Blocks
    /\ undo \in [Blocks -> Utxos]
    /\ node \in Phases
    /\ flush \in [prune : SUBSET Blocks, full : BOOLEAN]
    /\ tip \in HashOrNull
    /\ cache \in [Outpoints -> Coins \cup {Spent, NotCached}]
    /\ mweb \in [header : HashOrNull, state : HashOrNull]
    /\ at \in HashOrNull

\* A database that names a best block holds exactly that block's UTXO set; one
\* that names two heads holds, for every outpoint, the old or the new value.
InTransit(d) ==
    IF d.heads = <<>> THEN d.coins = CoinsAt(d.best)
    ELSE /\ d.best = NoBlock
         /\ \A o \in Outpoints :
               d.coins[o] \in {CoinsAt(d.heads[2])[o], UtxoAt[d.heads[1]][o]}

\* Whatever batch BatchWrite had reached when the process or the machine
\* stopped, DB_BEST_BLOCK and DB_HEAD_BLOCKS describe the coins on disk.
DatabaseInTransit == InTransit(db) /\ InTransit(synced)

\* Outside of start-up, what CoinsTip() answers is the UTXO set of its best
\* block: after any number of interrupted flushes, interrupted replays and
\* reorganisations, ReplayBlocks gave back exactly the state of the new tip.
ViewIsChain ==
    node \notin {"down", "refused", "rolling back", "rolling forward"} =>
        View = CoinsAt(tip)

\* FlushStateToDisk writes the block index before the coins, so ReplayBlocks
\* and LoadChainTip never meet a block that they do not know.
HeadsKnown ==
    \A d \in {db, synced} :
        /\ d.best \in diskIndex.known \cup {NoBlock}
        /\ d.heads # <<>> =>
              {d.heads[1], d.heads[2]} \subseteq diskIndex.known \cup {NoBlock}

\* The assertion in BatchWrite: when it finishes an interrupted flush it goes
\* to the same new tip.
SameTransition ==
    node = "writing coins" /\ db.heads # <<>> => db.heads[1] = tip

\* UnlinkPrunedFiles runs after the index was written: the index on disk never
\* says that a block is there when its file is gone.
IndexNamesFiles == diskIndex.data \subseteq files

\* The MMR files that the database names exist and hold the state its MWEB
\* coins belong to: BatchWrite writes new ones first and removes old ones last.
MmrFilesMatch == db.mmr > 0 => mmrFiles[db.mmr] = db.mweb

\* Without pruned blocks and before MWEB is active, ReplayBlocks always finds
\* what it needs: a crash never costs a rebuild.
NeverRefused == node # "refused"

\* A replay comes to an end, unless it is itself interrupted.
ReplayEnds ==
    node \in {"rolling back", "rolling forward"} ~> node \in {"running", "refused", "down"}

\* "The on-disk coinsdb is now in a good state" (init.cpp, after ReplayBlocks):
\* when the best block has an extension block, the MWEB coins and MMRs of the
\* database are those of that block.  After a replay it does not hold: ReplayBlocks
\* rolls forward without extension blocks.
MwebFollowsDatabase ==
    node = "running" /\ MwebAt(db.best) # NoBlock => db.mweb = MwebAt(db.best)
=============================================================================

-------------------------- MODULE ChainFlushProofs --------------------------
(***************************************************************************)
(* For every block tree, every choice of batches and every sequence of     *)
(* crashes and power losses, ReplayBlocks gives back the UTXO set of the   *)
(* new tip.  The argument needs no induction over branches: at every step  *)
(* of a replay, the view holds for each outpoint either what the block the *)
(* replay has reached says, or what the new tip says, and each step moves  *)
(* the first alternative along.                                            *)
(***************************************************************************)
EXTENDS ChainFlush, WellFoundedInduction, TLAPS

Caches == [Outpoints -> Coins \cup {Spent, NotCached}]

Idle == {"running", "writing index", "unlinking", "compacting"}

Writing == {"writing coins", "writing batch"}

Rolling == {"rolling back", "rolling forward"}

\* Only a flush or a replay in progress leaves heads behind.
HeadsInPlace ==
    /\ node \in Idle => db.heads = <<>>
    /\ node \in Rolling => db.heads # <<>>
    /\ node \in Writing => tip \in Blocks
    /\ node \in Writing /\ db.heads # <<>> => db.heads[1] = tip
    /\ node = "down" => cache = EmptyCache
    /\ node = "rolling forward" => at \in Blocks

\* What an undo record that the index vouches for holds.
UndoRight ==
    \A b \in index.undo \cup diskIndex.undo :
        /\ b # Genesis
        /\ \A o \in Spends[b] \ Creates[b] : undo[b][o] = UtxoAt[Parent[b]][o]

\* The view of a replay lies between the block reached and the new tip.
ReplayBetween ==
    node \in Rolling =>
        \A o \in Outpoints : View[o] \in {CoinsAt(at)[o], UtxoAt[db.heads[1]][o]}

\* There is a free number for the MMR files of a flush that has begun.
MmrRoom ==
    /\ db.heads # <<>> => db.mmr < MaxMmrIndex
    /\ synced.heads # <<>> => synced.mmr < MaxMmrIndex
    /\ flush.full => db.mmr < MaxMmrIndex /\ node \in {"writing index", "unlinking"}
    /\ node \in Writing => db.mmr < MaxMmrIndex

IInv ==
    /\ TypeOK
    /\ DatabaseInTransit
    /\ ViewIsChain
    /\ HeadsInPlace
    /\ UndoRight
    /\ ReplayBetween
    /\ MmrRoom

-----------------------------------------------------------------------------
(* Facts about the operators.                                              *)

\* Reading through the cache gives a UTXO set.
LEMMA ThroughType ==
    ASSUME NEW e \in Caches, NEW c \in Utxos
    PROVE  Through(e, c) \in Utxos
BY Zenon DEF Through, Caches, Utxos

\* An empty cache shows the database.
LEMMA ThroughEmpty ==
    ASSUME NEW c \in Utxos
    PROVE  EmptyCache \in Caches /\ Through(EmptyCache, c) = c
BY Zenon DEF Through, EmptyCache, Caches, Utxos

\* The UTXO set of each block, and of none.
LEMMA CoinsAtType ==
    ASSUME NEW b \in HashOrNull
    PROVE  CoinsAt(b) \in Utxos
BY ValidBlocks, Zenon DEF CoinsAt, HashOrNull, NothingSpendable, Utxos

\* ConnectBlock and RollforwardBlock: an outpoint the block touches has the
\* block's value, any other is as it was, and as it is in the parent.
LEMMA ConnectFacts ==
    ASSUME NEW b \in Blocks \ {Genesis}, NEW e \in Caches, NEW c \in Utxos
    PROVE  /\ Connected(b, e) \in Caches
           /\ \A o \in Outpoints :
                 \/ Through(Connected(b, e), c)[o] = UtxoAt[b][o]
                 \/ /\ Through(Connected(b, e), c)[o] = Through(e, c)[o]
                    /\ UtxoAt[b][o] = UtxoAt[Parent[b]][o]
<1>1. Height[b] \in Coins
  BY Zenon DEF Coins
<1>2. Connected(b, e) \in Caches
  BY <1>1, Zenon DEF Connected, Caches
<1>3. ASSUME NEW o \in Outpoints
      PROVE  \/ Through(Connected(b, e), c)[o] = UtxoAt[b][o]
             \/ /\ Through(Connected(b, e), c)[o] = Through(e, c)[o]
                /\ UtxoAt[b][o] = UtxoAt[Parent[b]][o]
  <2>1. UtxoAt[b] = Applied(b, UtxoAt[Parent[b]])
    BY ValidBlocks, Zenon
  <2>2. UtxoAt[b][o] = CASE o \in Spends[b] -> Spent
                         [] o \in Creates[b] \ Spends[b] -> Height[b]
                         [] OTHER -> UtxoAt[Parent[b]][o]
    BY <2>1, Zenon DEF Applied
  <2>3. Connected(b, e)[o] = CASE o \in Spends[b] -> Spent
                               [] o \in Creates[b] \ Spends[b] -> Height[b]
                               [] OTHER -> e[o]
    BY Zenon DEF Connected
  <2>4. Height[b] # NotCached /\ Spent # NotCached
    BY <1>1, ValidBlocks, Zenon
  <2> QED
    BY <2>2, <2>3, <2>4, Zenon DEF Through
<1> QED
  BY <1>2, <1>3, Zenon

\* DisconnectBlock, given the right undo record: the same towards the parent.
LEMMA DisconnectFacts ==
    ASSUME NEW b \in Blocks \ {Genesis}, NEW e \in Caches, NEW c \in Utxos,
           \A o \in Spends[b] \ Creates[b] : undo[b][o] = UtxoAt[Parent[b]][o]
    PROVE  /\ Disconnected(b, e) \in Caches
           /\ \A o \in Outpoints :
                 \/ Through(Disconnected(b, e), c)[o] = UtxoAt[Parent[b]][o]
                 \/ /\ Through(Disconnected(b, e), c)[o] = Through(e, c)[o]
                    /\ UtxoAt[b][o] = UtxoAt[Parent[b]][o]
<1>1. Parent[b] \in Blocks
  BY BlockTree, Zenon
<1>2. \A o \in Outpoints : UtxoAt[Parent[b]][o] \in Coins \cup {Spent}
  BY <1>1, ValidBlocks DEF Utxos
<1>3. \A o \in Outpoints :
         Disconnected(b, e)[o] = CASE o \in Creates[b] -> Spent
                                   [] o \in Spends[b] \ Creates[b] -> UtxoAt[Parent[b]][o]
                                   [] OTHER -> e[o]
  BY Zenon DEF Disconnected
<1>4. Disconnected(b, e) \in Caches
  BY <1>2, <1>3, Zenon DEF Disconnected, Caches
<1>5. ASSUME NEW o \in Outpoints
      PROVE  \/ Through(Disconnected(b, e), c)[o] = UtxoAt[Parent[b]][o]
             \/ /\ Through(Disconnected(b, e), c)[o] = Through(e, c)[o]
                /\ UtxoAt[b][o] = UtxoAt[Parent[b]][o]
  <2>1. UtxoAt[b] = Applied(b, UtxoAt[Parent[b]])
    BY ValidBlocks, Zenon
  <2>2. UtxoAt[b][o] = CASE o \in Spends[b] -> Spent
                         [] o \in Creates[b] \ Spends[b] -> Height[b]
                         [] OTHER -> UtxoAt[Parent[b]][o]
    BY <2>1, Zenon DEF Applied
  <2>3. o \in Creates[b] => UtxoAt[Parent[b]][o] = Spent
    BY ValidBlocks, Zenon
  <2>4. Spent # NotCached /\ UtxoAt[Parent[b]][o] # NotCached
    BY <1>2, ValidBlocks, Zenon
  <2> QED
    BY <1>3, <2>2, <2>3, <2>4, Zenon DEF Through
<1> QED
  BY <1>4, <1>5, Zenon

-----------------------------------------------------------------------------
(* The invariant.                                                          *)

\* A fresh data directory satisfies the invariant.
LEMMA InitIInv == Init => IInv
<1> SUFFICES ASSUME Init PROVE IInv
  BY Zenon
<1>1. NothingSpendable \in Utxos /\ EmptyCache \in Caches
  BY Zenon DEF NothingSpendable, Utxos, EmptyCache, Caches
<1>2. TypeOK
  <2>1. db \in Databases
    BY <1>1, Limits DEF Init, Databases, HashOrNull
  <2>2. index \in IndexEntries /\ diskIndex \in IndexEntries
    BY BlockTree, Zenon DEF Init, IndexEntries
  <2>3. undo \in [Blocks -> Utxos] /\ cache \in [Outpoints -> Coins \cup {Spent, NotCached}]
    BY <1>1, Zenon DEF Init, Caches
  <2> QED
    BY <2>1, <2>2, <2>3, BlockTree, Zenon DEF Init, TypeOK, HashOrNull, Phases, NoFlush
<1>3. DatabaseInTransit
  BY DEF Init, DatabaseInTransit, InTransit, CoinsAt
<1>4. ViewIsChain
  BY <1>1, ThroughEmpty DEF Init, ViewIsChain, View, CoinsAt
<1>5. HeadsInPlace /\ UndoRight /\ ReplayBetween /\ MmrRoom
  BY DEF Init, HeadsInPlace, UndoRight, ReplayBetween, MmrRoom, Idle, Writing, Rolling,
         NoFlush
<1> QED
  BY <1>2, <1>3, <1>4, <1>5 DEF IInv

\* Types that the steps below use over and over.
LEMMA TypeFacts ==
    ASSUME TypeOK
    PROVE  /\ cache \in Caches
           /\ db.coins \in Utxos
           /\ View \in Utxos
           /\ db.heads # <<>> => db.heads[1] \in Blocks /\ db.heads[2] \in HashOrNull
<1>1. cache \in Caches /\ db.coins \in Utxos
  BY DEF TypeOK, Caches, Databases
<1>2. View \in Utxos
  BY <1>1, ThroughType DEF View
<1>3. db.heads # <<>> => db.heads[1] \in Blocks /\ db.heads[2] \in HashOrNull
  BY DEF TypeOK, Databases
<1> QED
  BY <1>1, <1>2, <1>3

\* AcceptBlock touches the index in memory and the files.
LEMMA AcceptBlockStep ==
    ASSUME IInv, NEW b \in Blocks, AcceptBlock(b)
    PROVE  IInv'
<1> USE DEF AcceptBlock
<1>1. TypeOK'
  BY Zenon DEF IInv, TypeOK, IndexEntries
<1>2. DatabaseInTransit' /\ ViewIsChain' /\ ReplayBetween'
  BY DEF IInv, DatabaseInTransit, InTransit, ViewIsChain, View, ReplayBetween, Rolling
<1>3. HeadsInPlace' /\ MmrRoom'
  BY DEF IInv, HeadsInPlace, MmrRoom
<1>4. index'.undo = index.undo
  BY DEF IInv, TypeOK, IndexEntries
<1>5. UndoRight'
  BY <1>4 DEF IInv, UndoRight
<1> QED
  BY <1>1, <1>2, <1>3, <1>5 DEF IInv

\* ConnectTip moves an exact view to the child and records its undo data.
LEMMA ConnectTipStep ==
    ASSUME IInv, NEW b \in Blocks, ConnectTip(b)
    PROVE  IInv'
<1> USE DEF ConnectTip
<1>1. cache \in Caches /\ db.coins \in Utxos /\ View \in Utxos
  BY TypeFacts DEF IInv
<1>2. View = CoinsAt(tip)
  BY DEF IInv, ViewIsChain
<1>3. cache' \in Caches /\ View' = UtxoAt[b]
  <2>1. CASE b = Genesis
    <3>1. cache' = cache
      BY <1>1, <2>1, ValidBlocks DEF Connected, Caches
    <3>2. tip = NoBlock
      BY <2>1, BlockTree
    <3> QED
      BY <1>1, <1>2, <2>1, <3>1, <3>2, ValidBlocks DEF View, CoinsAt, NothingSpendable
  <2>2. CASE b # Genesis
    <3>1. tip = Parent[b] /\ Parent[b] \in Blocks
      BY <2>2, BlockTree
    <3>2. View = UtxoAt[Parent[b]]
      BY <1>2, <3>1, BlockTree DEF CoinsAt
    <3>3. /\ Connected(b, cache) \in Caches
          /\ \A o \in Outpoints : Through(Connected(b, cache), db.coins)[o] = UtxoAt[b][o]
      BY <1>1, <2>2, <3>2, ConnectFacts DEF View
    <3>4. Through(Connected(b, cache), db.coins) \in Utxos /\ UtxoAt[b] \in Utxos
      BY <1>1, <3>3, ThroughType, ValidBlocks
    <3>5. Through(Connected(b, cache), db.coins) = UtxoAt[b]
      BY <3>3, <3>4 DEF Utxos
    <3> QED
      BY <3>3, <3>5 DEF View
  <2> QED
    BY <2>1, <2>2
<1>4. UndoOf(b) \in Utxos
  BY <1>1 DEF UndoOf, Utxos
<1>5. TypeOK'
  <2>1. index' \in IndexEntries
    BY DEF IInv, TypeOK, IndexEntries
  <2>2. undo' \in [Blocks -> Utxos]
    BY <1>4 DEF IInv, TypeOK
  <2>3. mweb' \in [header : HashOrNull, state : HashOrNull]
    BY SMTT(60) DEF IInv, TypeOK, HashOrNull
  <2> QED
    BY <1>3, <2>1, <2>2, <2>3 DEF IInv, TypeOK, Caches, HashOrNull
<1>6. DatabaseInTransit'
  BY DEF IInv, DatabaseInTransit, InTransit
<1>7. ViewIsChain'
  BY <1>3, BlockTree DEF ViewIsChain, CoinsAt
<1>8. HeadsInPlace' /\ ReplayBetween' /\ MmrRoom'
  BY DEF IInv, HeadsInPlace, ReplayBetween, MmrRoom, Idle, Writing, Rolling
<1>9. UndoRight'
  <2>1. CASE b = Genesis \/ b \in index.undo
    <3>1. undo' = undo /\ index'.undo \subseteq index.undo
      BY <2>1 DEF IInv, TypeOK, IndexEntries
    <3> QED
      BY <3>1 DEF IInv, UndoRight
  <2>2. CASE b # Genesis /\ b \notin index.undo
    <3>1. index'.undo = index.undo \cup {b} /\ undo' = [undo EXCEPT ![b] = UndoOf(b)]
      BY <2>2 DEF IInv, TypeOK, IndexEntries
    <3>2. \A o \in Spends[b] \ Creates[b] : UndoOf(b)[o] = UtxoAt[Parent[b]][o]
      <4>1. View = UtxoAt[Parent[b]]
        BY <1>2, <2>2, BlockTree DEF CoinsAt
      <4>2. Spends[b] \subseteq Outpoints
        BY ValidBlocks
      <4> QED
        BY <4>1, <4>2 DEF UndoOf
    <3>3. undo \in [Blocks -> Utxos] /\ index.undo \cup diskIndex.undo \subseteq Blocks
      BY DEF IInv, TypeOK, IndexEntries
    <3>4. undo'[b] = UndoOf(b) /\ \A x \in Blocks \ {b} : undo'[x] = undo[x]
      BY <3>1, <3>3
    <3> QED
      BY <2>2, <3>1, <3>2, <3>3, <3>4 DEF IInv, UndoRight
  <2> QED
    BY <2>1, <2>2
<1> QED
  BY <1>5, <1>6, <1>7, <1>8, <1>9 DEF IInv

\* DisconnectTip moves an exact view to the parent.
LEMMA DisconnectTipStep ==
    ASSUME IInv, DisconnectTip
    PROVE  IInv'
<1> USE DEF DisconnectTip
<1>1. cache \in Caches /\ db.coins \in Utxos /\ View \in Utxos
  BY TypeFacts DEF IInv
<1>2. tip \in Blocks \ {Genesis} /\ Parent[tip] \in Blocks /\ tip # NoBlock
  BY BlockTree DEF IInv, TypeOK, IndexEntries
<1>3. View = UtxoAt[tip]
  BY <1>2 DEF IInv, ViewIsChain, CoinsAt
<1>4. \A o \in Spends[tip] \ Creates[tip] : undo[tip][o] = UtxoAt[Parent[tip]][o]
  BY DEF IInv, UndoRight
<1>5. cache' \in Caches /\ View' = UtxoAt[Parent[tip]]
  <2>1. /\ Disconnected(tip, cache) \in Caches
        /\ \A o \in Outpoints :
              Through(Disconnected(tip, cache), db.coins)[o] = UtxoAt[Parent[tip]][o]
    BY <1>1, <1>2, <1>3, <1>4, DisconnectFacts, SMTT(60) DEF View
  <2>2. Through(Disconnected(tip, cache), db.coins) \in Utxos /\ UtxoAt[Parent[tip]] \in Utxos
    BY <1>1, <1>2, <2>1, ThroughType, ValidBlocks, SMTT(60)
  <2>3. Through(Disconnected(tip, cache), db.coins) = UtxoAt[Parent[tip]]
    BY <2>1, <2>2, SMTT(60) DEF Utxos
  <2> QED
    BY <2>1, <2>3 DEF View
<1>6. TypeOK'
  <2>1. mweb' \in [header : HashOrNull, state : HashOrNull]
    BY <1>2, SMTT(60) DEF IInv, TypeOK, HashOrNull, MwebUndone
  <2> QED
    BY <1>2, <1>5, <2>1, SMTT(60) DEF IInv, TypeOK, Caches, HashOrNull, chainVars
<1>7. DatabaseInTransit' /\ UndoRight'
  BY DEF IInv, DatabaseInTransit, InTransit, UndoRight, chainVars
<1>8. ViewIsChain'
  BY <1>2, <1>5, BlockTree DEF ViewIsChain, CoinsAt
<1>9. HeadsInPlace' /\ ReplayBetween' /\ MmrRoom'
  BY DEF IInv, HeadsInPlace, ReplayBetween, MmrRoom, Idle, Writing, Rolling
<1> QED
  BY <1>6, <1>7, <1>8, <1>9 DEF IInv

\* The steps of FlushStateToDisk that leave the coins alone.
LEMMA IndexSteps ==
    ASSUME IInv,
           \/ \E prune \in SUBSET Prunable, full \in BOOLEAN : StartFlush(prune, full)
           \/ WriteIndex
           \/ UnlinkPrunedFiles
           \/ FlushMweb
           \/ Compact
    PROVE  IInv'
<1>1. db' = db /\ synced' = synced /\ cache' = cache /\ tip' = tip /\ mweb' = mweb /\ at' = at
      /\ undo' = undo
  BY ZenonT(60) DEF StartFlush, WriteIndex, UnlinkPrunedFiles, FlushMweb, Compact, chainVars
<1>2. DatabaseInTransit' /\ View' = View
  BY <1>1 DEF IInv, DatabaseInTransit, InTransit, View
<1>3. node \in Idle \cup Writing /\ node' \in Idle \cup Writing
  BY Zenon DEF StartFlush, WriteIndex, UnlinkPrunedFiles, FlushMweb, Compact, Idle, Writing
<1>4. ViewIsChain' /\ ReplayBetween'
  BY <1>1, <1>2, <1>3, ZenonT(60)
     DEF IInv, ViewIsChain, ReplayBetween, Idle, Writing, Rolling
<1>5. HeadsInPlace'
  BY <1>1, Zenon DEF IInv, HeadsInPlace, TypeOK, HashOrNull, Idle, Writing, Rolling,
              StartFlush, WriteIndex, UnlinkPrunedFiles, FlushMweb, Compact
<1>6. UndoRight' /\ TypeOK' /\ MmrRoom'
  <2>1. CASE \E prune \in SUBSET Prunable, full \in BOOLEAN : StartFlush(prune, full)
    <3>1. PICK prune \in SUBSET Prunable, full \in BOOLEAN : StartFlush(prune, full)
      BY <2>1
    <3>2. Prunable \subseteq Blocks
      BY SMTT(60) DEF Prunable, IInv, TypeOK, IndexEntries
    <3>3. index' \in IndexEntries /\ index'.undo \subseteq index.undo /\ diskIndex' = diskIndex
      BY <3>1, Zenon DEF StartFlush, IInv, TypeOK, IndexEntries
    <3>4. UndoRight'
      BY <1>1, <3>3, SMTT(60) DEF IInv, UndoRight
    <3>5. TypeOK'
      BY <3>1, <3>2, <3>3, ZenonT(60) DEF StartFlush, IInv, TypeOK, Phases
    <3>6. MmrRoom'
      BY <3>1, Zenon DEF StartFlush, IInv, MmrRoom, Writing
    <3> QED
      BY <3>4, <3>5, <3>6
  <2>2. CASE WriteIndex
    <3>1. UndoRight'
      BY <2>2, ZenonT(60) DEF WriteIndex, IInv, UndoRight
    <3>2. TypeOK'
      BY <2>2, Zenon DEF WriteIndex, IInv, TypeOK, Phases
    <3>3. MmrRoom'
      BY <2>2, Zenon DEF WriteIndex, IInv, MmrRoom, Writing
    <3> QED
      BY <3>1, <3>2, <3>3
  <2>3. CASE UnlinkPrunedFiles
    <3>1. UndoRight'
      BY <2>3, Zenon DEF UnlinkPrunedFiles, IInv, UndoRight
    <3>2. TypeOK'
      BY <2>3, ZenonT(60) DEF UnlinkPrunedFiles, IInv, TypeOK, Phases, NoFlush
    <3>3. MmrRoom'
      BY <2>3, Zenon DEF UnlinkPrunedFiles, IInv, MmrRoom, Writing, NoFlush
    <3> QED
      BY <3>1, <3>2, <3>3
  <2>4. CASE FlushMweb
    <3>1. UndoRight'
      BY <2>4, Zenon DEF FlushMweb, IInv, UndoRight, chainVars
    <3>2. mmrFiles' \in [0 .. MaxMmrIndex -> HashOrNull]
      BY <2>4, Zenon DEF FlushMweb, IInv, TypeOK
    <3>3. TypeOK'
      BY <2>4, <3>2, ZenonT(60) DEF FlushMweb, IInv, TypeOK, Phases, chainVars
    <3>4. MmrRoom'
      BY <2>4, Zenon DEF FlushMweb, IInv, MmrRoom, Writing
    <3> QED
      BY <3>1, <3>3, <3>4, SMTT(60)
  <2>5. CASE Compact
    <3>1. UndoRight'
      BY <2>5 DEF Compact, IInv, UndoRight, chainVars
    <3>2. mmrFiles' \in [0 .. MaxMmrIndex -> HashOrNull]
      BY <2>5 DEF Compact, IInv, TypeOK, HashOrNull
    <3>3. TypeOK'
      BY <2>5, <3>2 DEF Compact, IInv, TypeOK, Phases, chainVars
    <3>4. MmrRoom'
      BY <2>5 DEF Compact, IInv, MmrRoom, Writing
    <3> QED
      BY <3>1, <3>3, <3>4
  <2> QED
    BY <2>1, <2>2, <2>3, <2>4, <2>5
<1> QED
  BY <1>2, <1>4, <1>5, <1>6 DEF IInv

\* A partial batch: each coin written has its final value, the others are
\* still the old tip's or, in a flush that finishes another, either.
LEMMA WritePartialBatchStep ==
    ASSUME IInv, NEW S \in SUBSET Dirty, WritePartialBatch(S)
    PROVE  IInv'
<1> USE DEF WritePartialBatch
<1>1. cache \in Caches /\ db.coins \in Utxos /\ View \in Utxos /\ db \in Databases
  BY TypeFacts, Zenon DEF IInv, TypeOK
<1>2. tip \in Blocks /\ tip # NoBlock /\ View = UtxoAt[tip] /\ UtxoAt[tip] \in Utxos
  BY BlockTree, ValidBlocks, Zenon DEF IInv, HeadsInPlace, Writing, ViewIsChain, CoinsAt
<1>3. S \subseteq Outpoints /\ \A o \in S : cache[o] # NotCached
  BY Zenon DEF Dirty
<1>4. cache' \in Caches /\ Only(cache, S) \in Caches
  BY <1>1, Zenon DEF Only, Caches
<1>5. db'.coins = Through(Only(cache, S), db.coins) /\ db'.coins \in Utxos
  BY <1>1, <1>4, ThroughType, Zenon DEF Databases
<1>6. OldTip(db) \in HashOrNull
  BY <1>1, TypeFacts, Zenon DEF IInv, OldTip, Databases, HashOrNull
<1>7. /\ db'.best = NoBlock /\ db'.heads = <<tip, OldTip(db)>> /\ db'.heads # <<>>
      /\ db'.heads[1] = tip /\ db'.heads[2] = OldTip(db)
      /\ db'.mmr = db.mmr /\ db'.mweb = db.mweb
  BY <1>1, Zenon DEF Databases
<1>8. \A o \in Outpoints : db'.coins[o] = IF o \in S THEN UtxoAt[tip][o] ELSE db.coins[o]
  BY <1>2, <1>3, <1>5, ZenonT(60) DEF Only, Through, View
<1>9. View' = View
  <2>1. \A o \in Outpoints :
           Through(cache', db'.coins)[o] = Through(cache, db.coins)[o]
    BY <1>3, <1>5, ZenonT(60) DEF Through, Only, Dirty
  <2>2. Through(cache', db'.coins) = Through(cache, db.coins)
    BY <2>1, Zenon DEF Through
  <2> QED
    BY <2>2, Zenon DEF View
<1>10. TypeOK'
  <2>1. db' \in Databases
    BY <1>1, <1>2, <1>5, <1>6, <1>7, Zenon DEF Databases, HashOrNull
  <2> QED
    BY <1>4, <2>1, Zenon DEF IInv, TypeOK, Caches, chainVars
<1>11. \A o \in Outpoints : db.coins[o] \in {CoinsAt(OldTip(db))[o], UtxoAt[tip][o]}
  <2>1. CASE db.heads = <<>>
    <3>1. db.coins = CoinsAt(db.best) /\ OldTip(db) = db.best
      BY <2>1, Zenon DEF IInv, DatabaseInTransit, InTransit, OldTip
    <3> QED
      BY <3>1, Zenon
  <2>2. CASE db.heads # <<>>
    <3>1. db.best = NoBlock /\ db.heads[1] = tip
      BY <2>2, Zenon DEF IInv, DatabaseInTransit, InTransit, HeadsInPlace, Writing
    <3>2. OldTip(db) = db.heads[2]
      BY <2>2, <3>1, ZenonT(60) DEF OldTip
    <3> QED
      BY <2>2, <3>1, <3>2, Zenon DEF IInv, DatabaseInTransit, InTransit
  <2> QED
    BY <2>1, <2>2, Zenon
<1>12. DatabaseInTransit'
  <2>1. \A o \in Outpoints : db'.coins[o] \in {CoinsAt(OldTip(db))[o], UtxoAt[tip][o]}
    BY <1>8, <1>11, Zenon
  <2>2. InTransit(db')
    BY <1>7, <2>1, Zenon DEF InTransit
  <2>3. InTransit(synced')
    BY Zenon DEF IInv, DatabaseInTransit
  <2> QED
    BY <2>2, <2>3, Zenon DEF DatabaseInTransit, InTransit, CoinsAt
<1>13. ViewIsChain' /\ ReplayBetween'
  BY <1>9, Zenon DEF IInv, ViewIsChain, ReplayBetween, Rolling
<1>14. HeadsInPlace' /\ MmrRoom'
  BY <1>2, <1>7, Zenon DEF IInv, HeadsInPlace, MmrRoom, Idle, Writing, Rolling
<1>15. UndoRight'
  BY Zenon DEF IInv, UndoRight, chainVars
<1> QED
  BY <1>10, <1>12, <1>13, <1>14, <1>15, Zenon DEF IInv

\* The next number is still a number of MMR files.
LEMMA NextNumber ==
    ASSUME NEW m \in 0 .. MaxMmrIndex, m < MaxMmrIndex
    PROVE  m + 1 \in 0 .. MaxMmrIndex
<1>1. MaxMmrIndex \in Nat
  BY Limits
<1> QED
  BY <1>1

\* The last batch makes the database exact.
LEMMA WriteFinalBatchStep ==
    ASSUME IInv, WriteFinalBatch
    PROVE  IInv'
<1> USE DEF WriteFinalBatch
<1>1. View \in Utxos /\ db \in Databases
  BY TypeFacts, Zenon DEF IInv, TypeOK
<1>2. tip \in Blocks /\ View = CoinsAt(tip)
  BY Zenon DEF IInv, HeadsInPlace, Writing, ViewIsChain
<1>3. db'.coins = View /\ db'.best = tip /\ db'.heads = <<>>
  BY Zenon
<1>4. EmptyCache \in Caches /\ View' = View
  BY <1>1, <1>3, ThroughEmpty, Zenon DEF View
<1>5. db' \in Databases
  <2>1. db.mmr \in 0 .. MaxMmrIndex /\ db.mmr < MaxMmrIndex
    BY <1>1, Zenon DEF Databases, IInv, MmrRoom, Writing
  <2>2. db.mmr + 1 \in 0 .. MaxMmrIndex
    BY <2>1, NextNumber, Zenon
  <2>3. db.mweb \in HashOrNull /\ mweb.state \in HashOrNull /\ tip \in HashOrNull
    BY <1>1, <1>2, Zenon DEF Databases, IInv, TypeOK, HashOrNull
  <2> QED
    BY <1>1, <2>1, <2>2, <2>3, Zenon DEF Databases
<1>6. TypeOK'
  BY <1>4, <1>5, ZenonT(60) DEF IInv, TypeOK, Caches, Phases, chainVars
<1>7. DatabaseInTransit'
  BY <1>2, <1>3, ZenonT(60) DEF IInv, DatabaseInTransit, InTransit, CoinsAt
<1>8. ViewIsChain' /\ ReplayBetween'
  BY <1>2, <1>4, ZenonT(60) DEF ViewIsChain, ReplayBetween, Rolling, CoinsAt
<1>9. HeadsInPlace'
  BY <1>3, Zenon DEF HeadsInPlace, Idle, Writing, Rolling
<1>10. MmrRoom'
  BY <1>3, ZenonT(60) DEF IInv, MmrRoom, Writing
<1>11. UndoRight'
  BY Zenon DEF IInv, UndoRight, chainVars
<1> QED
  BY <1>6, <1>7, <1>8, <1>9, <1>10, <1>11, ZenonT(60) DEF IInv

\* A crash forgets the cache, a power loss also what was not synced; what is
\* left of the database describes itself.
LEMMA CrashStep ==
    ASSUME IInv, Crash \/ LosePower
    PROVE  IInv'
<1>1. Forget /\ (db' = db \/ db' = synced) /\ synced' = synced
  BY DEF Crash, LosePower
<1>2. EmptyCache \in Caches
  BY SMTT(60) DEF EmptyCache, Caches
<1>3. TypeOK'
  BY <1>1, <1>2, ZenonT(60) DEF IInv, TypeOK, Forget, Caches, Phases, NoFlush, HashOrNull
<1>4. DatabaseInTransit'
  BY <1>1 DEF IInv, DatabaseInTransit, InTransit
<1>5. ViewIsChain' /\ ReplayBetween' /\ HeadsInPlace'
  BY <1>1, SMTT(60)
     DEF Forget, ViewIsChain, ReplayBetween, HeadsInPlace, Idle, Writing, Rolling
<1>6. UndoRight'
  BY <1>1, Zenon DEF IInv, UndoRight, Forget
<1>7. MmrRoom'
  BY <1>1, Zenon DEF IInv, MmrRoom, Forget, NoFlush, Writing
<1> QED
  BY <1>3, <1>4, <1>5, <1>6, <1>7 DEF IInv

\* Start-up looks at the heads; the cache is empty.
LEMMA RestartStep ==
    ASSUME IInv, Restart
    PROVE  IInv'
<1>1. cache = EmptyCache /\ db.coins \in Utxos /\ db \in Databases
  BY TypeFacts, Zenon DEF IInv, Restart, HeadsInPlace, TypeOK
<1>2. View = db.coins
  BY <1>1, ThroughEmpty DEF View
<1>3. View' = View /\ db' = db /\ synced' = synced /\ cache' = cache /\ tip' = db.best
      /\ flush' = flush /\ undo' = undo /\ node = "down"
  BY Zenon DEF Restart, View
<1>4. \/ node' = "refused"
      \/ node' = "running" /\ db.heads = <<>>
      \/ node' = "rolling back" /\ db.heads # <<>> /\ at' = db.heads[2]
  BY Zenon DEF Restart
<1>5. index' \in IndexEntries /\ index'.undo = index.undo /\ diskIndex' = diskIndex
  BY BlockTree, ZenonT(60) DEF Restart, IInv, TypeOK, IndexEntries
<1>6. TypeOK'
  <2>1. at' \in HashOrNull /\ db.best \in HashOrNull
    BY <1>1, TypeFacts, Zenon DEF Restart, IInv, Databases, HashOrNull
  <2>2. mweb' \in [header : HashOrNull, state : HashOrNull]
    BY <1>1, ZenonT(60) DEF Restart, IInv, TypeOK, Databases, MwebAt, HashOrNull
  <2> QED
    BY <1>3, <1>4, <1>5, <2>1, <2>2, Zenon DEF Restart, IInv, TypeOK, Phases
<1>7. DatabaseInTransit'
  BY <1>3, Zenon DEF IInv, DatabaseInTransit, InTransit
<1>8. ViewIsChain'
  BY <1>2, <1>3, <1>4, ZenonT(60)
     DEF IInv, DatabaseInTransit, InTransit, ViewIsChain, CoinsAt
<1>9. ReplayBetween'
  BY <1>2, <1>3, <1>4, ZenonT(60)
     DEF IInv, DatabaseInTransit, InTransit, ReplayBetween, Rolling, CoinsAt
<1>10. HeadsInPlace'
  BY <1>3, <1>4, Zenon DEF HeadsInPlace, Idle, Writing, Rolling
<1>11. UndoRight'
  BY <1>3, <1>5, Zenon DEF IInv, UndoRight
<1>12. MmrRoom'
  BY <1>3, <1>4, ZenonT(60) DEF IInv, MmrRoom, Writing
<1> QED
  BY <1>6, <1>7, <1>8, <1>9, <1>10, <1>11, <1>12 DEF IInv

\* One block rolled back: outpoints it touches are as in its parent.
LEMMA RollBackStep ==
    ASSUME IInv, RollBack
    PROVE  IInv'
<1>1. cache \in Caches /\ db.coins \in Utxos /\ db.heads # <<>>
  BY TypeFacts, ZenonT(60) DEF IInv, HeadsInPlace, RollBack, Rolling
<1>2. UNCHANGED <<db, synced, mmrFiles, index, diskIndex, files, undo, flush, tip>>
  BY ZenonT(60) DEF RollBack, chainVars
<1>3. DatabaseInTransit' /\ UndoRight'
  BY <1>2 DEF IInv, DatabaseInTransit, InTransit, UndoRight
<1>4. CASE node' = "refused" /\ UNCHANGED <<cache, mweb, at>>
  <2>1. TypeOK'
    BY <1>2, <1>4, Zenon DEF IInv, TypeOK, Phases
  <2>2. ViewIsChain' /\ ReplayBetween' /\ HeadsInPlace'
    BY <1>4, Zenon DEF ViewIsChain, ReplayBetween, HeadsInPlace, Idle, Writing, Rolling
  <2>3. MmrRoom'
    BY <1>2, <1>4, Zenon DEF IInv, MmrRoom, Writing, RollBack
  <2> QED
    BY <1>3, <2>1, <2>2, <2>3 DEF IInv
<1>5. CASE /\ at \in index.data \cap index.undo
           /\ cache' = Disconnected(at, cache)
           /\ mweb' = IF Height[at] >= MwebHeight
                      THEN [header |-> MwebAt(Parent[at]), state |-> MwebAt(Parent[at])]
                      ELSE mweb
           /\ at' = Parent[at]
           /\ node' = node
  <2>1. at \in Blocks \ {Genesis} /\ Parent[at] \in Blocks /\ at # NoBlock /\ Parent[at] # NoBlock
    BY <1>5, BlockTree, Zenon DEF IInv, TypeOK, IndexEntries, UndoRight
  <2>2. \A o \in Spends[at] \ Creates[at] : undo[at][o] = UtxoAt[Parent[at]][o]
    BY <1>5, SMTT(60) DEF IInv, UndoRight
  <2>3. /\ Disconnected(at, cache) \in Caches
        /\ \A o \in Outpoints :
              \/ Through(Disconnected(at, cache), db.coins)[o] = UtxoAt[Parent[at]][o]
              \/ /\ Through(Disconnected(at, cache), db.coins)[o] = Through(cache, db.coins)[o]
                 /\ UtxoAt[at][o] = UtxoAt[Parent[at]][o]
    BY <1>1, <2>1, <2>2, DisconnectFacts, SMTT(60)
  <2>4. \A o \in Outpoints :
           Through(cache, db.coins)[o] \in {UtxoAt[at][o], UtxoAt[db.heads[1]][o]}
    BY <2>1, ZenonT(60) DEF IInv, ReplayBetween, RollBack, Rolling, View, CoinsAt
  <2>5. ReplayBetween'
    BY <1>2, <1>5, <2>1, <2>3, <2>4, SMTT(60) DEF ReplayBetween, View, CoinsAt
  <2>6. TypeOK'
    <3>1. mweb' \in [header : HashOrNull, state : HashOrNull]
      BY <1>5, <2>1, Zenon DEF IInv, TypeOK, MwebAt, HashOrNull
    <3> QED
      BY <1>2, <1>5, <2>1, <2>3, <3>1, SMTT(60) DEF IInv, TypeOK, Caches, HashOrNull
  <2>7. ViewIsChain' /\ HeadsInPlace'
    BY <1>1, <1>2, <1>5, ZenonT(60)
       DEF RollBack, ViewIsChain, HeadsInPlace, Idle, Writing, Rolling
  <2>8. MmrRoom'
    BY <1>2, <1>5, Zenon DEF IInv, MmrRoom
  <2> QED
    BY <1>3, <2>5, <2>6, <2>7, <2>8, SMTT(60) DEF IInv
<1> QED
  BY <1>4, <1>5, ZenonT(60) DEF RollBack

\* At the fork; when there was no old tip, nothing was ever written but coins
\* of the new tip.
LEMMA ReachedForkStep ==
    ASSUME IInv, ReachedFork
    PROVE  IInv'
<1>1. UNCHANGED <<db, synced, mmrFiles, index, diskIndex, files, undo, flush, tip, cache, mweb>>
  BY Zenon DEF ReachedFork, chainVars
<1>2. at' \in Blocks /\ CoinsAt(at') = CoinsAt(at)
  <2>1. at \in HashOrNull /\ Genesis \in Blocks /\ NoBlock \notin Blocks
    BY BlockTree, Zenon DEF IInv, TypeOK
  <2>2. UtxoAt[Genesis] = NothingSpendable
    BY ValidBlocks, Zenon DEF NothingSpendable
  <2> QED
    BY <2>1, <2>2, Zenon DEF ReachedFork, HashOrNull, CoinsAt
<1>3. View' = View /\ db.heads # <<>>
  BY <1>1, ZenonT(60) DEF View, IInv, HeadsInPlace, ReachedFork, Rolling
<1>4. TypeOK'
  BY <1>1, <1>2, ZenonT(60) DEF ReachedFork, IInv, TypeOK, Phases, HashOrNull
<1>5. DatabaseInTransit' /\ UndoRight'
  BY <1>1, ZenonT(60) DEF IInv, DatabaseInTransit, InTransit, UndoRight
<1>6. ReplayBetween'
  BY <1>1, <1>2, <1>3, Zenon DEF IInv, ReplayBetween, ReachedFork, Rolling, CoinsAt
<1>7. ViewIsChain' /\ HeadsInPlace'
  BY <1>1, <1>2, <1>3, ZenonT(60)
     DEF ReachedFork, ViewIsChain, HeadsInPlace, Idle, Writing, Rolling
<1>8. MmrRoom'
  BY <1>1, Zenon DEF IInv, MmrRoom, ReachedFork, Writing
<1> QED
  BY <1>4, <1>5, <1>6, <1>7, <1>8 DEF IInv

\* One block rolled forward: outpoints it touches are as in the block.
LEMMA RollForwardStep ==
    ASSUME IInv, RollForward
    PROVE  IInv'
<1>1. cache \in Caches /\ db.coins \in Utxos /\ db.heads # <<>> /\ at \in Blocks
  BY TypeFacts, Zenon DEF IInv, HeadsInPlace, RollForward, Rolling
<1>2. UNCHANGED <<db, synced, mmrFiles, index, diskIndex, files, undo, flush, tip, mweb>>
  BY ZenonT(60) DEF RollForward, chainVars
<1>3. DatabaseInTransit' /\ UndoRight'
  BY <1>2 DEF IInv, DatabaseInTransit, InTransit, UndoRight
<1>4. CASE node' = "refused" /\ UNCHANGED <<cache, at>>
  <2>1. TypeOK'
    BY <1>2, <1>4, Zenon DEF IInv, TypeOK, Phases
  <2>2. ViewIsChain' /\ ReplayBetween' /\ HeadsInPlace'
    BY <1>4, Zenon DEF ViewIsChain, ReplayBetween, HeadsInPlace, Idle, Writing, Rolling
  <2>3. MmrRoom'
    BY <1>2, <1>4, Zenon DEF IInv, MmrRoom, Writing, RollForward
  <2> QED
    BY <1>3, <2>1, <2>2, <2>3, SMTT(60) DEF IInv
<1>5. ASSUME NEW b \in index.data, Parent[b] = at, cache' = Connected(b, cache), at' = b,
             node' = node
      PROVE  IInv'
  <2>1. b \in Blocks \ {Genesis} /\ at # NoBlock /\ b # NoBlock
    BY <1>1, <1>5, BlockTree, SMTT(60) DEF IInv, TypeOK, IndexEntries
  <2>2. /\ Connected(b, cache) \in Caches
        /\ \A o \in Outpoints :
              \/ Through(Connected(b, cache), db.coins)[o] = UtxoAt[b][o]
              \/ /\ Through(Connected(b, cache), db.coins)[o] = Through(cache, db.coins)[o]
                 /\ UtxoAt[b][o] = UtxoAt[Parent[b]][o]
    BY <1>1, <2>1, ConnectFacts, SMTT(60)
  <2>3. \A o \in Outpoints :
           Through(cache, db.coins)[o] \in {UtxoAt[at][o], UtxoAt[db.heads[1]][o]}
    BY <2>1, ZenonT(60) DEF IInv, ReplayBetween, RollForward, Rolling, View, CoinsAt
  <2>4. ReplayBetween'
    BY <1>2, <1>5, <2>1, <2>2, <2>3, Zenon DEF ReplayBetween, View, CoinsAt
  <2>5. TypeOK'
    BY <1>2, <1>5, <2>1, <2>2, Zenon DEF IInv, TypeOK, Caches, HashOrNull
  <2>6. ViewIsChain' /\ HeadsInPlace'
    BY <1>1, <1>2, <1>5, <2>1, ZenonT(60)
       DEF RollForward, ViewIsChain, HeadsInPlace, Idle, Writing, Rolling
  <2>7. MmrRoom'
    BY <1>2, <1>5, Zenon DEF IInv, MmrRoom
  <2> QED
    BY <1>3, <2>4, <2>5, <2>6, <2>7, SMTT(60) DEF IInv
<1> QED
  BY <1>4, <1>5, Zenon DEF RollForward

\* At the new tip both alternatives agree: the view is exact.
LEMMA ReplayDoneStep ==
    ASSUME IInv, ReplayDone
    PROVE  IInv'
<1>1. UNCHANGED <<db, synced, mmrFiles, index, diskIndex, files, undo, flush, cache, mweb>>
  BY ZenonT(60) DEF ReplayDone, chainVars
<1>2. /\ db.heads # <<>> /\ at = db.heads[1] /\ at \in Blocks /\ at # NoBlock /\ tip' = at
      /\ node' = "writing coins" /\ at' = NoBlock /\ node = "rolling forward"
  BY BlockTree, Zenon DEF IInv, HeadsInPlace, ReplayDone, Rolling
<1>3. View = UtxoAt[at]
  <2>1. \A o \in Outpoints : View[o] = UtxoAt[at][o]
    BY <1>2, ZenonT(60) DEF IInv, ReplayBetween, Rolling, CoinsAt
  <2>2. View \in Utxos /\ UtxoAt[at] \in Utxos
    BY <1>2, TypeFacts, ValidBlocks, ZenonT(60) DEF IInv
  <2> QED
    BY <2>1, <2>2, SMTT(60) DEF Utxos
<1>4. TypeOK'
  BY <1>1, <1>2, ZenonT(60) DEF IInv, TypeOK, Phases, HashOrNull
<1>5. DatabaseInTransit' /\ UndoRight'
  BY <1>1, Zenon DEF IInv, DatabaseInTransit, InTransit, UndoRight
<1>6. ViewIsChain'
  BY <1>1, <1>2, <1>3, Zenon DEF ViewIsChain, View, CoinsAt
<1>7. ReplayBetween' /\ HeadsInPlace'
  BY <1>1, <1>2, ZenonT(60) DEF ReplayBetween, HeadsInPlace, Idle, Writing, Rolling
<1>8. MmrRoom'
  BY <1>1, <1>2, Zenon DEF IInv, MmrRoom, Writing
<1> QED
  BY <1>4, <1>5, <1>6, <1>7, <1>8, SMTT(60) DEF IInv

\* Every step keeps the invariant.
LEMMA StepIInv == IInv /\ [Next]_vars => IInv'
<1> SUFFICES ASSUME IInv, [Next]_vars PROVE IInv'
  BY Zenon
<1>1. ASSUME NEW b \in Blocks, AcceptBlock(b) PROVE IInv'
  BY <1>1, AcceptBlockStep, Zenon
<1>2. ASSUME NEW b \in Blocks, ConnectTip(b) PROVE IInv'
  BY <1>2, ConnectTipStep, Zenon
<1>3. CASE DisconnectTip
  BY <1>3, DisconnectTipStep, Zenon
<1>4. CASE \E prune \in SUBSET Prunable, full \in BOOLEAN : StartFlush(prune, full)
  BY <1>4, IndexSteps, Zenon
<1>5. CASE Write
  BY <1>5, IndexSteps, WritePartialBatchStep, WriteFinalBatchStep, Zenon DEF Write
<1>6. CASE Crash \/ LosePower
  BY <1>6, CrashStep
<1>7. CASE SyncDatabase
  <2>1. TypeOK' /\ MmrRoom'
    BY <1>7, ZenonT(60) DEF SyncDatabase, IInv, TypeOK, MmrRoom, chainVars
  <2>2. DatabaseInTransit' /\ ViewIsChain' /\ ReplayBetween'
    BY <1>7, ZenonT(60)
       DEF SyncDatabase, IInv, DatabaseInTransit, InTransit, ViewIsChain, ReplayBetween, View
  <2>3. HeadsInPlace' /\ UndoRight'
    BY <1>7, Zenon DEF SyncDatabase, IInv, HeadsInPlace, UndoRight, chainVars
  <2> QED
    BY <2>1, <2>2, <2>3, SMTT(60) DEF IInv
<1>8. CASE Restart
  BY <1>8, RestartStep, Zenon
<1>9. CASE Replay
  BY <1>9, RollBackStep, ReachedForkStep, RollForwardStep, ReplayDoneStep DEF Replay
<1>10. CASE UNCHANGED vars
  <2>1. TypeOK' /\ MmrRoom'
    BY <1>10, ZenonT(60) DEF vars, IInv, TypeOK, MmrRoom
  <2>2. DatabaseInTransit' /\ ViewIsChain' /\ ReplayBetween'
    BY <1>10, ZenonT(60)
       DEF vars, IInv, DatabaseInTransit, InTransit, ViewIsChain, ReplayBetween, View
  <2>3. HeadsInPlace' /\ UndoRight'
    BY <1>10, ZenonT(60) DEF vars, IInv, HeadsInPlace, UndoRight
  <2> QED
    BY <2>1, <2>2, <2>3, SMTT(60) DEF IInv
<1> QED
  BY <1>1, <1>2, <1>3, <1>4, <1>5, <1>6, <1>7, <1>8, <1>9, <1>10 DEF Next

\* The invariant holds throughout.
LEMMA InductiveInvariant == Spec => []IInv
<1>1. Init => IInv
  BY InitIInv, Zenon
<1>2. IInv /\ [Next]_vars => IInv'
  BY StepIInv
<1> QED
  BY <1>1, <1>2, PTL DEF Spec

-----------------------------------------------------------------------------
(* What the index knows.                                                   *)

Closed(S) == \A b \in S \ {Genesis} : Parent[b] \in S

HeadsIn(d, S) ==
    /\ d.best \in S \cup {NoBlock}
    /\ d.heads # <<>> => {d.heads[1], d.heads[2]} \subseteq S \cup {NoBlock}

\* The index on disk is part of the one in memory, both hold the ancestors of
\* what they hold, and coins are only written for a tip that is on disk.
KnownInv ==
    /\ HeadsKnown
    /\ diskIndex.known \subseteq index.known
    /\ Closed(index.known) /\ Closed(diskIndex.known)
    /\ index.data \subseteq index.known /\ diskIndex.data \subseteq diskIndex.known
    /\ tip \in index.known \cup {NoBlock}
    /\ node \in Writing \cup {"unlinking"} => tip \in diskIndex.known \cup {NoBlock}

\* Nothing is on disk at first.
LEMMA InitKnown == Init => KnownInv
BY DEF Init, KnownInv, HeadsKnown, Closed, Writing

\* The block index keeps ahead of the coins at every step.
LEMMA StepKnown == IInv /\ KnownInv /\ [Next]_vars => KnownInv'
<1> SUFFICES ASSUME IInv, KnownInv, [Next]_vars PROVE KnownInv'
  BY Zenon
<1>1. index \in IndexEntries /\ diskIndex \in IndexEntries
  BY DEF IInv, TypeOK
<1>2. ASSUME NEW b \in Blocks, AcceptBlock(b) PROVE KnownInv'
  <2>1. index'.known = index.known \cup {b} /\ index'.data = index.data \cup {b}
    BY <1>1, <1>2, Zenon DEF AcceptBlock, IndexEntries
  <2> QED
    BY <1>2, <2>1 DEF AcceptBlock, KnownInv, HeadsKnown, Closed, Writing
<1>3. ASSUME NEW b \in Blocks, ConnectTip(b) PROVE KnownInv'
  <2>1. index'.known = index.known /\ index'.data = index.data
    BY <1>1, <1>3, Zenon DEF ConnectTip, IndexEntries
  <2> QED
    BY <1>3, <2>1 DEF ConnectTip, KnownInv, HeadsKnown, Closed, Writing
<1>4. CASE DisconnectTip
  BY <1>4, ZenonT(60) DEF DisconnectTip, KnownInv, HeadsKnown, Closed, Writing, chainVars
<1>5. CASE \E prune \in SUBSET Prunable, full \in BOOLEAN : StartFlush(prune, full)
  <2>1. index'.known = index.known /\ index'.data \subseteq index.data
    BY <1>1, <1>5, ZenonT(60) DEF StartFlush, IndexEntries
  <2>2. UNCHANGED <<db, synced, diskIndex, tip>> /\ node' = "writing index"
    BY <1>5, Zenon DEF StartFlush
  <2>3. HeadsKnown'
    BY <2>2, Zenon DEF KnownInv, HeadsKnown
  <2> QED
    BY <2>1, <2>2, <2>3, Zenon DEF KnownInv, Closed, Writing
<1>6. CASE Write
  <2>1. CASE WriteIndex
    BY <2>1, ZenonT(60) DEF WriteIndex, KnownInv, HeadsKnown, Closed, Writing
  <2>2. CASE UnlinkPrunedFiles
    BY <2>2, Zenon DEF UnlinkPrunedFiles, KnownInv, HeadsKnown, Closed, Writing
  <2>3. ASSUME NEW S \in SUBSET Dirty, WritePartialBatch(S) PROVE KnownInv'
    <3>1. /\ db'.best = NoBlock /\ db'.heads # <<>>
          /\ db'.heads[1] = tip /\ db'.heads[2] = OldTip(db)
      BY <2>3, Zenon DEF WritePartialBatch, IInv, TypeOK, Databases
    <3>2. OldTip(db) \in diskIndex.known \cup {NoBlock}
      BY Zenon DEF KnownInv, HeadsKnown, OldTip
    <3>4. tip \in diskIndex.known \cup {NoBlock}
      BY <2>3, Zenon DEF WritePartialBatch, KnownInv, Writing
    <3>5. synced' = synced /\ diskIndex' = diskIndex
      BY <2>3, Zenon DEF WritePartialBatch, chainVars
    <3>6. HeadsIn(db', diskIndex.known)
      BY <3>1, <3>2, <3>4, Zenon DEF HeadsIn
    <3>7. HeadsIn(synced', diskIndex.known)
      BY <3>5, Zenon DEF KnownInv, HeadsKnown, HeadsIn
    <3>3. HeadsKnown'
      BY <3>5, <3>6, <3>7, Zenon DEF HeadsKnown, HeadsIn
    <3> QED
      BY <2>3, <3>3, Zenon DEF WritePartialBatch, KnownInv, Closed, Writing, chainVars
  <2>4. CASE FlushMweb
    BY <2>4, ZenonT(60) DEF FlushMweb, KnownInv, HeadsKnown, Closed, Writing, chainVars
  <2>5. CASE WriteFinalBatch
    <3>1. db'.best = tip /\ db'.heads = <<>> /\ synced' = synced /\ diskIndex' = diskIndex
      BY <2>5, ZenonT(60) DEF WriteFinalBatch, chainVars
    <3>2. tip \in diskIndex.known \cup {NoBlock}
      BY <2>5, Zenon DEF WriteFinalBatch, KnownInv, Writing
    <3>3. HeadsIn(db', diskIndex.known)
      BY <3>1, <3>2, Zenon DEF HeadsIn
    <3>4. HeadsIn(synced', diskIndex.known)
      BY <3>1, Zenon DEF KnownInv, HeadsKnown, HeadsIn
    <3>5. HeadsKnown'
      BY <3>1, <3>3, <3>4, Zenon DEF HeadsKnown, HeadsIn
    <3> QED
      BY <2>5, <3>2, <3>5, ZenonT(60)
         DEF WriteFinalBatch, KnownInv, Closed, Writing, chainVars
  <2>6. CASE Compact
    BY <2>6, Zenon DEF Compact, KnownInv, HeadsKnown, Closed, Writing, chainVars
  <2> QED
    BY <1>6, <2>1, <2>2, <2>3, <2>4, <2>5, <2>6, SMTT(60) DEF Write
<1>7. CASE Crash \/ LosePower
  <2>1. Forget /\ (db' = db \/ db' = synced) /\ synced' = synced
    BY <1>7, Zenon DEF Crash, LosePower
  <2> QED
    BY <2>1, ZenonT(60) DEF Forget, KnownInv, HeadsKnown, Closed, Writing
<1>8. CASE SyncDatabase
  BY <1>8, ZenonT(60) DEF SyncDatabase, KnownInv, HeadsKnown, Closed, Writing, chainVars
<1>9. CASE Restart
  <2>1. /\ index'.known = index.known \cup {Genesis}
        /\ index'.data \subseteq index.data \cup {Genesis}
    BY <1>9, Zenon DEF Restart
  <2>2. node' \notin Writing \cup {"unlinking"}
    BY <1>9, ZenonT(60) DEF Restart, Writing
  <2> QED
    BY <1>9, <2>1, <2>2, Zenon DEF Restart, KnownInv, HeadsKnown, Closed
<1>10. CASE RollBack \/ ReachedFork \/ RollForward
  <2>1. UNCHANGED <<db, synced, index, diskIndex, tip>> /\ node' \notin Writing \cup {"unlinking"}
    BY <1>10, ZenonT(60) DEF RollBack, ReachedFork, RollForward, chainVars, Writing
  <2> QED
    BY <2>1, SMTT(60) DEF KnownInv, HeadsKnown, Closed
<1>11. CASE ReplayDone
  <2>1. db.heads # <<>> /\ tip' = db.heads[1]
    BY <1>11, ZenonT(60) DEF ReplayDone, IInv, HeadsInPlace, Rolling
  <2> QED
    BY <1>11, <2>1, Zenon DEF ReplayDone, KnownInv, HeadsKnown, Closed, chainVars
<1>12. CASE UNCHANGED vars
  BY <1>12, Zenon DEF vars, KnownInv, HeadsKnown, Closed
<1> QED
  BY <1>2, <1>3, <1>4, <1>5, <1>6, <1>7, <1>8, <1>9, <1>10, <1>11, <1>12 DEF Next, Replay

-----------------------------------------------------------------------------
(* The theorems.                                                           *)

\* Type correctness; in particular the MMR file number stays in its range.
THEOREM TypeCorrect == Spec => []TypeOK
BY InductiveInvariant, PTL DEF IInv

\* At every batch boundary of BatchWrite, DB_BEST_BLOCK and DB_HEAD_BLOCKS
\* describe the coins on disk, before and after a crash or a power loss.
THEOREM DatabaseDescribed == Spec => []DatabaseInTransit
BY InductiveInvariant, PTL DEF IInv

\* ReplayBlocks recovers the UTXO set exactly, for every block tree, whatever
\* part of however many flushes and replays had been written.
THEOREM RecoveryExact == Spec => []ViewIsChain
BY InductiveInvariant, PTL DEF IInv

\* BatchWrite's assertion on the heads of an interrupted flush never fails.
THEOREM AssertionHolds == Spec => []SameTransition
<1>1. IInv => SameTransition
  BY Zenon DEF IInv, HeadsInPlace, SameTransition, Writing
<1> QED
  BY <1>1, InductiveInvariant, PTL

\* ReplayBlocks never meets an unknown block: FlushStateToDisk's order works.
THEOREM HeadsAlwaysKnown == Spec => []HeadsKnown
<1>1. Init => KnownInv
  BY InitKnown, Zenon
<1>2. IInv /\ KnownInv /\ [Next]_vars => KnownInv'
  BY StepKnown, Zenon
<1>3. KnownInv => HeadsKnown
  BY DEF KnownInv
<1> QED
  BY <1>1, <1>2, <1>3, InductiveInvariant, PTL DEF Spec

-----------------------------------------------------------------------------
(* Pruning: the index is on disk before the files go.                      *)

\* A block that is about to be unlinked is in neither index any more, and the genesis
\* block, which start-up adds to an index that lacks it, has its file as long as the index
\* on disk does not know it.
FilesKept ==
    /\ index.data \subseteq files /\ diskIndex.data \subseteq files
    /\ node = "down" => index = diskIndex
    /\ node # "down" => Genesis \in index.known
    /\ Genesis \in files \cup diskIndex.known
    /\ node \in {"writing index", "unlinking"} => index.data \cap flush.prune = {}
    /\ node = "unlinking" => Genesis \in diskIndex.known /\ diskIndex.data \cap flush.prune = {}

\* No file is pruned at first.
LEMMA InitFiles == Init => FilesKept
BY DEF Init, FilesKept

\* A file goes only after the index on disk has forgotten it.
LEMMA StepFiles == IInv /\ FilesKept /\ [Next]_vars => FilesKept'
<1> SUFFICES ASSUME IInv, FilesKept, [Next]_vars  PROVE FilesKept'
  BY Zenon
<1>1. index \in IndexEntries /\ diskIndex \in IndexEntries
  BY DEF IInv, TypeOK
<1>2. ASSUME NEW b \in Blocks, AcceptBlock(b)  PROVE FilesKept'
  <2>1. index'.known = index.known \cup {b} /\ index'.data = index.data \cup {b}
    BY <1>1, <1>2 DEF AcceptBlock, IndexEntries
  <2> QED  BY <1>2, <2>1 DEF AcceptBlock, FilesKept
<1>3. ASSUME NEW b \in Blocks, ConnectTip(b)  PROVE FilesKept'
  <2>1. index'.known = index.known /\ index'.data = index.data
    BY <1>1, <1>3 DEF ConnectTip, IndexEntries
  <2> QED  BY <1>3, <2>1 DEF ConnectTip, FilesKept
<1>4. ASSUME NEW prune, NEW full, StartFlush(prune, full)  PROVE FilesKept'
  <2>1. index'.known = index.known /\ index'.data = index.data \ prune
    BY <1>1, <1>4, Zenon DEF StartFlush, IndexEntries
  <2>2. /\ node = "running" /\ node' = "writing index" /\ flush'.prune = prune
        /\ UNCHANGED <<diskIndex, files>>
    BY <1>4, Zenon DEF StartFlush
  <2> QED  BY <2>1, <2>2, Zenon DEF FilesKept
<1>5. CASE WriteIndex
  BY <1>5, Zenon DEF WriteIndex, FilesKept
<1>6. CASE UnlinkPrunedFiles
  <2>1. node' \in {"running", "writing coins"}
    BY <1>6, Zenon DEF UnlinkPrunedFiles
  <2> QED  BY <1>6, <2>1, Zenon DEF UnlinkPrunedFiles, FilesKept
<1>7. CASE Crash \/ LosePower
  BY <1>7, Zenon DEF Crash, LosePower, Forget, FilesKept
<1>8. CASE Restart
  <2>1. /\ index'.known = index.known \cup {Genesis}
        /\ index'.data = index.data \cup (IF Genesis \in index.known THEN {} ELSE {Genesis})
        /\ node = "down" /\ node' \in {"refused", "running", "rolling back"}
        /\ UNCHANGED <<diskIndex, files>>
    BY <1>8, Zenon DEF Restart
  <2> QED  BY <2>1, Zenon DEF FilesKept
<1>9. CASE \/ DisconnectTip \/ SyncDatabase \/ FlushMweb \/ WriteFinalBatch \/ Compact \/ Replay
           \/ \E S \in SUBSET Dirty : WritePartialBatch(S)
  <2>1. UNCHANGED <<index, diskIndex, files, flush>>
    BY <1>9, ZenonT(30) DEF DisconnectTip, SyncDatabase, FlushMweb, WriteFinalBatch,
                Compact, Replay, RollBack, ReachedFork, RollForward, ReplayDone, WritePartialBatch,
                chainVars
  <2>2. node' = node \/ (node # "down" /\ node' \notin {"down", "writing index", "unlinking"})
    BY <1>9, Zenon DEF DisconnectTip, SyncDatabase, FlushMweb, WriteFinalBatch,
                Compact, Replay, RollBack, ReachedFork, RollForward, ReplayDone, WritePartialBatch
  <2> QED  BY <2>1, <2>2, ZenonT(30) DEF FilesKept
<1>10. CASE UNCHANGED vars
  BY <1>10, Zenon DEF vars, FilesKept
<1> QED
  BY <1>2, <1>3, <1>4, <1>5, <1>6, <1>7, <1>8, <1>9, <1>10 DEF Next, Write

\* The index on disk never promises a block whose file is gone, at whatever step between
\* PruneOneBlockFile and UnlinkPrunedFiles the node stops, for every block tree.
THEOREM PruningSafe == Spec => []IndexNamesFiles
<1>1. FilesKept => IndexNamesFiles
  BY Zenon DEF FilesKept, IndexNamesFiles
<1> QED  BY <1>1, InitFiles, StepFiles, InductiveInvariant, PTL DEF Spec

-----------------------------------------------------------------------------
(* The MMR files.                                                          *)

\* The files that the last batch is about to name are complete.
MmrKept ==
    /\ MmrFilesMatch
    /\ node = "writing batch" /\ mweb.header # NoBlock => mmrFiles[db.mmr + 1] = mweb.state

\* There are no MMR files at first.
LEMMA InitMmr == Init => MmrKept
BY DEF Init, MmrKept, MmrFilesMatch

\* New MMR files are there before the database names them, and stay while it does.
LEMMA StepMmr == ASSUME ~PowerLoss, IInv, MmrKept, [Next]_vars  PROVE MmrKept'
<1>1. db \in Databases /\ mmrFiles \in [0 .. MaxMmrIndex -> HashOrNull] /\ MaxMmrIndex \in Nat
  BY Limits DEF IInv, TypeOK
<1>2. db.mmr \in Nat /\ db.mmr \in 0 .. MaxMmrIndex
  BY <1>1 DEF Databases
<1>3. CASE FlushMweb
  <2>1. db.mmr + 1 \in 0 .. MaxMmrIndex /\ db.mmr # db.mmr + 1
    <3>1. db.mmr < MaxMmrIndex
      BY <1>3, Zenon DEF FlushMweb, IInv, MmrRoom, Writing
    <3> QED  BY <1>1, <1>2, <3>1
  <2>2. UNCHANGED <<db, mweb>>
    BY <1>3, Zenon DEF FlushMweb
  <2>3. mmrFiles'[db.mmr] = mmrFiles[db.mmr]
    BY <1>1, <1>2, <1>3, <2>1, Zenon DEF FlushMweb
  <2>4. mweb.header # NoBlock => mmrFiles'[db.mmr + 1] = mweb.state
    BY <1>1, <1>3, <2>1, Zenon DEF FlushMweb
  <2> QED  BY <2>2, <2>3, <2>4, Zenon DEF MmrKept, MmrFilesMatch
<1>4. CASE WriteFinalBatch
  <2>1. /\ db'.mweb = IF mweb.header = NoBlock THEN db.mweb ELSE mweb.state
        /\ db'.mmr = IF mweb.header = NoBlock THEN db.mmr ELSE db.mmr + 1
        /\ mmrFiles' = mmrFiles /\ node = "writing batch" /\ node' = "compacting"
    BY <1>4, Zenon DEF WriteFinalBatch
  <2> QED  BY <2>1, Zenon DEF MmrKept, MmrFilesMatch
<1>5. CASE Compact
  BY <1>1, <1>2, <1>5 DEF Compact, MmrKept, MmrFilesMatch
<1>6. ASSUME NEW S \in SUBSET Dirty, WritePartialBatch(S)  PROVE MmrKept'
  <2>1. /\ db'.mmr = db.mmr /\ db'.mweb = db.mweb /\ mmrFiles' = mmrFiles
        /\ node = "writing coins" /\ node' = node
    BY <1>1, <1>6, Zenon DEF WritePartialBatch, Databases
  <2> QED  BY <2>1, Zenon DEF MmrKept, MmrFilesMatch
<1>7. ASSUME UNCHANGED <<db, mmrFiles>>, node' # "writing batch" \/ UNCHANGED <<node, mweb>>
      PROVE  MmrKept'
  BY <1>7, ZenonT(30) DEF MmrKept, MmrFilesMatch
<1>8. CASE \/ \E b \in Blocks : AcceptBlock(b) \/ ConnectTip(b)
           \/ DisconnectTip
           \/ \E prune \in SUBSET Prunable, full \in BOOLEAN : StartFlush(prune, full)
           \/ WriteIndex \/ UnlinkPrunedFiles
  BY <1>7, <1>8, Zenon DEF AcceptBlock, ConnectTip, DisconnectTip, StartFlush, WriteIndex,
                    UnlinkPrunedFiles
<1>9. CASE Crash \/ SyncDatabase \/ LosePower \/ Restart \/ Replay
  BY <1>7, <1>9, Zenon DEF Crash, Forget, SyncDatabase, LosePower, Restart, Replay,
                    RollBack, ReachedFork, RollForward, ReplayDone
<1>10. CASE UNCHANGED vars
  BY <1>7, <1>10, Zenon DEF vars
<1> QED
  BY <1>3, <1>4, <1>5, <1>6, <1>8, <1>9, <1>10 DEF Next, Write

\* The MMR files that the database names hold the state its MWEB coins belong to, at
\* whatever step of BatchWrite the process stops, for every block tree.  A power loss
\* is another matter: it may take the database back to a number whose files are removed.
THEOREM MmrFilesSafe == ASSUME ~PowerLoss  PROVE Spec => []MmrFilesMatch
<1>1. MmrKept => MmrFilesMatch
  BY Zenon DEF MmrKept
<1>2. IInv /\ MmrKept /\ [Next]_vars => MmrKept'
  BY StepMmr
<1> QED  BY <1>1, <1>2, InitMmr, InductiveInvariant, PTL DEF Spec

-----------------------------------------------------------------------------
(* A crash never costs a rebuild.                                          *)

\* No block is ever deep enough to be pruned.
NoPruning == \A b, c \in Blocks : Height[c] < Height[b] + KeepBlocks

BeforeMweb == \A b \in Blocks : Height[b] < MwebHeight

\* h can be rolled back, and rolled forward to, with what the index i has.
Reachable(i, h) ==
    h # NoBlock => Chain[h] \subseteq i.data /\ Chain[h] \ {Genesis} \subseteq i.undo

HeadsReachable(d) ==
    /\ Reachable(diskIndex, d.best)
    /\ d.heads # <<>> => Reachable(diskIndex, d.heads[1]) /\ Reachable(diskIndex, d.heads[2])

Fork == LastCommonAncestor(db.heads[2], db.heads[1])

\* The index in memory holds all that the one on disk does, both branches of an interrupted
\* flush are on disk with their undo data, and the replay stays between the old tip and the
\* fork.
NothingLost ==
    /\ index.data \subseteq index.known /\ diskIndex.data \subseteq diskIndex.known
    /\ diskIndex.data \subseteq index.data /\ diskIndex.undo \subseteq index.undo
    /\ node = "down" => index = diskIndex
    /\ HeadsReachable(db) /\ HeadsReachable(synced)
    /\ node \in Idle \cup Writing => Reachable(index, tip)
    /\ node \in Writing \cup {"unlinking"} => Reachable(diskIndex, tip)
    /\ node = "rolling back" =>
          IF db.heads[2] = NoBlock THEN at = NoBlock
          ELSE at \in Chain[db.heads[2]] /\ Fork \in Chain[at]
    /\ NeverRefused

\* The ancestors of a block.
Ancestors(b) ==
    /\ Chain[b] \subseteq Blocks /\ b \in Chain[b] /\ Genesis \in Chain[b]
    /\ \A c \in Chain[b] : Chain[c] \subseteq Chain[b] /\ Height[c] <= Height[b]

\* A set of numbers that is not empty has a smallest one.
LEMMA SmallestExists ==
    ASSUME NEW S, S \subseteq Nat, S # {}
    PROVE  \E m \in S : \A k \in S : m <= k
<1>1. PICK m \in S : \A k \in S : ~ (<<k, m>> \in OpToRel(<, Nat))
  BY WFMin, NatLessThanWellFounded, Zenon
<1>2. ASSUME NEW k \in S  PROVE m <= k
  <2>1. <<k, m>> \in Nat \X Nat /\ <<k, m>>[1] = k /\ <<k, m>>[2] = m
    BY Zenon
  <2>2. ~ (k < m)
    BY <1>1, <2>1 DEF OpToRel
  <2> QED  BY <2>2
<1> QED  BY <1>2

\* There is no lowest block of which this fails.
LEMMA Chains == \A b \in Blocks : Ancestors(b)
<1> DEFINE Bad == {b \in Blocks : ~Ancestors(b)}
           Heights == {Height[b] : b \in Bad}
<1> SUFFICES ASSUME Bad # {}  PROVE FALSE
  OBVIOUS
<1>1. Heights \subseteq Nat /\ Heights # {}
  BY BlockTree
<1>2. PICK m \in Heights : \A k \in Heights : m <= k
  <2> HIDE DEF Heights
  <2> QED  BY <1>1, SmallestExists, Zenon
<1>3. PICK b \in Bad : m = Height[b]
  BY Zenon
<1>4. b \in Blocks /\ ~Ancestors(b) /\ Height[b] \in Nat
  BY BlockTree
<1>5. b # Genesis
  BY <1>4, BlockTree DEF Ancestors
<1> DEFINE p == Parent[b]
<1>6. p \in Blocks
  BY <1>4, <1>5, BlockTree, ZenonT(60)
<1>7. Height[b] = Height[p] + 1 /\ Height[p] \in Nat /\ Chain[b] = Chain[p] \cup {b}
  BY <1>4, <1>5, <1>6, BlockTree
<1>8. Ancestors(p)
  <2>1. p \in Bad => Height[p] \in Heights
    BY Zenon
  <2>2. p \in Bad => Height[b] <= Height[p]
    BY <1>2, <1>3, <2>1, Zenon
  <2> QED  BY <1>6, <1>7, <2>2
<1> HIDE DEF p, Bad, Heights
<1>9. Ancestors(b)
  <2>1. Chain[b] \subseteq Blocks /\ b \in Chain[b] /\ Genesis \in Chain[b]
    BY <1>4, <1>7, <1>8 DEF Ancestors
  <2>2. ASSUME NEW c \in Chain[p]  PROVE Chain[c] \subseteq Chain[p] /\ Height[c] <= Height[b]
    <3>1. c \in Blocks /\ Chain[c] \subseteq Chain[p] /\ Height[c] <= Height[p]
      BY <1>8, Zenon DEF Ancestors
    <3>2. Height[c] \in Nat
      BY <3>1, BlockTree
    <3> QED  BY <1>4, <1>7, <3>1, <3>2
  <2> QED  BY <1>4, <1>7, <2>1, <2>2 DEF Ancestors
<1> QED  BY <1>4, <1>9

\* Two blocks have a last common ancestor.
LEMMA ForkExists ==
    ASSUME NEW a \in Blocks, NEW b \in Blocks
    PROVE  LastCommonAncestor(a, b) \in Chain[a] \cap Chain[b]
<1> DEFINE Common == Chain[a] \cap Chain[b]
           Depths == {Height[a] - Height[c] : c \in Common}
<1>1. Genesis \in Common /\ \A c \in Common : c \in Blocks /\ Height[c] <= Height[a]
  BY Chains DEF Ancestors
<1>2. \A c \in Common : Height[c] \in Nat /\ Height[a] - Height[c] \in Nat /\ Height[a] \in Nat
  BY <1>1, BlockTree
<1>3. Depths \subseteq Nat /\ Depths # {}
  BY <1>1, <1>2
<1>4. PICK m \in Depths : \A k \in Depths : m <= k
  <2> HIDE DEF Depths
  <2> QED  BY <1>3, SmallestExists, Zenon
<1>5. PICK c \in Common : m = Height[a] - Height[c]
  OBVIOUS
<1>6. ASSUME NEW d \in Common  PROVE Height[d] <= Height[c]
  <2>1. Height[a] - Height[d] \in Depths
    BY <1>6, Zenon
  <2>2. m <= Height[a] - Height[d]
    BY <1>4, <2>1, Zenon
  <2> QED  BY <1>2, <1>5, <1>6, <2>2
<1>7. a # NoBlock
  BY BlockTree
<1> QED  BY <1>5, <1>6, <1>7 DEF LastCommonAncestor

\* At first the genesis block is all there is to reach.
LEMMA InitLost == Init => NothingLost
BY BlockTree DEF Init, NothingLost, HeadsReachable, Reachable, NeverRefused, Writing

\* An index that holds more makes as much reachable.
LEMMA ReachableMore ==
    ASSUME NEW i, NEW j, i.data \subseteq j.data, i.undo \subseteq j.undo, NEW h, Reachable(i, h)
    PROVE  Reachable(j, h)
BY Zenon DEF Reachable

\* A step that leaves the index on disk and the database alone.
LEMMA KeepsLost ==
    ASSUME NothingLost, UNCHANGED <<db, synced, diskIndex>>,
           index.data \subseteq index'.data, index.undo \subseteq index'.undo,
           index'.data \subseteq index'.known,
           node' \notin {"down", "rolling back", "refused"},
           node' \in Idle \cup Writing => Reachable(index', tip'),
           node' \in Writing \cup {"unlinking"} => Reachable(diskIndex, tip')
    PROVE  NothingLost'
<1>1. /\ diskIndex'.data \subseteq diskIndex'.known
      /\ diskIndex'.data \subseteq index'.data /\ diskIndex'.undo \subseteq index'.undo
  BY Zenon DEF NothingLost
<1>2. HeadsReachable(db)' /\ HeadsReachable(synced)'
  BY Zenon DEF NothingLost, HeadsReachable
<1>3. node' \in Idle \cup Writing => Reachable(index, tip)'
  BY Zenon DEF Reachable
<1>4. node' \in Writing \cup {"unlinking"} => Reachable(diskIndex, tip)'
  BY Zenon DEF Reachable
<1> QED  BY <1>1, <1>2, <1>3, <1>4, Zenon DEF NothingLost, NeverRefused

\* What the node adds while it runs makes no block unreachable.
LEMMA RunningLost ==
    ASSUME IInv, NothingLost, NEW b \in Blocks, AcceptBlock(b) \/ ConnectTip(b) \/ DisconnectTip
    PROVE  NothingLost'
<1>1. index \in IndexEntries /\ node = "running" /\ tip \in HashOrNull
  BY Zenon DEF AcceptBlock, ConnectTip, DisconnectTip, IInv, TypeOK
<1>2. Reachable(index, tip) /\ index.data \subseteq index.known
  BY <1>1 DEF NothingLost, Idle
<1>3. CASE AcceptBlock(b)
  <2>1. /\ index'.known = index.known \cup {b} /\ index'.data = index.data \cup {b}
        /\ index'.undo = index.undo
    BY <1>1, <1>3, Zenon DEF AcceptBlock, IndexEntries
  <2>2. UNCHANGED <<db, synced, diskIndex, tip, node>>
    BY <1>3, Zenon DEF AcceptBlock
  <2>3. Reachable(index', tip')
    BY <1>2, <2>1, <2>2 DEF Reachable
  <2> QED  BY <1>1, <1>2, <2>1, <2>2, <2>3, KeepsLost DEF Writing
<1>4. CASE ConnectTip(b)
  <2>1. /\ b \in index.data /\ Parent[b] = tip /\ tip' = b
        /\ UNCHANGED <<db, synced, diskIndex, node>>
    BY <1>4 DEF ConnectTip
  <2>2. /\ index'.known = index.known /\ index'.data = index.data
        /\ index'.undo = index.undo \cup ({b} \ {Genesis})
    BY <1>1, <1>4 DEF ConnectTip, IndexEntries
  <2>3. Reachable(index', tip')
    <3>1. CASE b = Genesis
      BY <2>1, <2>2, <3>1, BlockTree DEF Reachable
    <3>2. CASE b # Genesis
      <4>1. Chain[b] = Chain[tip] \cup {b} /\ tip # NoBlock
        BY <2>1, <3>2, BlockTree
      <4> QED  BY <1>2, <2>1, <2>2, <4>1 DEF Reachable
    <3> QED  BY <3>1, <3>2
  <2> QED  BY <1>1, <1>2, <2>1, <2>2, <2>3, KeepsLost DEF Writing
<1>5. CASE DisconnectTip
  <2>1. /\ tip \in Blocks \ {Genesis} /\ tip' = Parent[tip]
        /\ UNCHANGED <<db, synced, index, diskIndex, node>>
    BY <1>1, <1>5, Zenon DEF DisconnectTip, chainVars, IndexEntries
  <2>2. Chain[tip] = Chain[Parent[tip]] \cup {tip} /\ tip # NoBlock
    BY <2>1, BlockTree, Zenon
  <2>3. Reachable(index', tip')
    BY <1>2, <2>1, <2>2 DEF Reachable
  <2> QED  BY <1>1, <1>2, <2>1, <2>3, KeepsLost DEF Writing
<1> QED  BY <1>3, <1>4, <1>5

\* Nor does a step of a flush: the index comes before the heads that need it.
LEMMA WriteLost ==
    ASSUME NoPruning, IInv, NothingLost,
           Write \/ \E prune \in SUBSET Prunable, full \in BOOLEAN : StartFlush(prune, full)
    PROVE  NothingLost'
<1>1. index \in IndexEntries /\ db \in Databases
  BY DEF IInv, TypeOK
<1>2. ASSUME NEW prune \in SUBSET Prunable, NEW full, StartFlush(prune, full)  PROVE NothingLost'
  <2>1. Prunable = {}
    <3>1. ASSUME NEW b \in Prunable  PROVE FALSE
      <4>1. b \in Blocks /\ tip \in Blocks
        BY <1>1, <3>1, Zenon DEF Prunable, IndexEntries, IInv, TypeOK, HashOrNull
      <4>2. Height[b] \in Nat /\ Height[tip] \in Nat /\ KeepBlocks \in Nat
        BY <4>1, BlockTree, Limits
      <4> QED  BY <3>1, <4>1, <4>2 DEF Prunable, NoPruning
    <3> QED  BY <3>1
  <2>2. prune = {}
    BY <2>1, Zenon
  <2>3. index'.known = index.known /\ index'.data = index.data /\ index'.undo = index.undo
    BY <1>1, <1>2, <2>2, Zenon DEF StartFlush, IndexEntries
  <2>4. /\ UNCHANGED <<db, synced, diskIndex, tip>> /\ node = "running"
        /\ node' = "writing index"
    BY <1>2, Zenon DEF StartFlush
  <2>5. Reachable(index', tip')
    BY <2>3, <2>4, Zenon DEF NothingLost, Reachable, Idle
  <2>6. index'.data \subseteq index'.known
    BY <2>3, Zenon DEF NothingLost
  <2> QED  BY <2>3, <2>4, <2>5, <2>6, KeepsLost, Zenon DEF Writing
<1>3. CASE WriteIndex
  <2>1. /\ diskIndex' = index /\ UNCHANGED <<db, synced, index, tip>> /\ node = "writing index"
        /\ node' = "unlinking"
    BY <1>3, Zenon DEF WriteIndex
  <2>2. \A h : Reachable(diskIndex, h) => Reachable(index, h)
    BY ReachableMore, Zenon DEF NothingLost
  <2>3. HeadsReachable(db)' /\ HeadsReachable(synced)'
    BY <2>1, <2>2, Zenon DEF NothingLost, HeadsReachable, Reachable
  <2>4. Reachable(index, tip)
    BY <2>1, Zenon DEF NothingLost, Idle
  <2>5. Reachable(index, tip)' /\ Reachable(diskIndex, tip)'
    BY <2>1, <2>4, Zenon DEF Reachable
  <2> QED  BY <2>1, <2>3, <2>5, Zenon DEF NothingLost, NeverRefused
<1>4. CASE UnlinkPrunedFiles \/ FlushMweb \/ Compact
  <2>1. UNCHANGED <<db, synced, index, diskIndex, tip>>
    BY <1>4, Zenon DEF UnlinkPrunedFiles, FlushMweb, Compact, chainVars
  <2>2. /\ node \in Idle \cup Writing
        /\ node' \in {"running", "writing coins", "writing batch"}
        /\ node' \in Writing => node \in Writing \cup {"unlinking"}
    BY <1>4, Zenon DEF UnlinkPrunedFiles, FlushMweb, Compact, Idle, Writing
  <2>3. /\ Reachable(index', tip') /\ index'.data \subseteq index'.known
        /\ node' \in Writing \cup {"unlinking"} => Reachable(diskIndex, tip')
    BY <2>1, <2>2, Zenon DEF NothingLost, Reachable
  <2> QED  BY <2>1, <2>2, <2>3, KeepsLost, Zenon
<1>5. ASSUME NEW S \in SUBSET Dirty, WritePartialBatch(S)  PROVE NothingLost'
  <2>1. /\ db'.best = NoBlock /\ db'.heads # <<>>
        /\ db'.heads[1] = tip /\ db'.heads[2] = OldTip(db)
    BY <1>1, <1>5, Zenon DEF WritePartialBatch, Databases
  <2>2. UNCHANGED <<synced, index, diskIndex, tip, node>> /\ node = "writing coins"
    BY <1>5, Zenon DEF WritePartialBatch, chainVars
  <2>3. Reachable(diskIndex, OldTip(db)) /\ Reachable(diskIndex, tip)
    BY <2>2, Zenon DEF NothingLost, HeadsReachable, OldTip, Reachable, Writing
  <2>4. HeadsReachable(db)' /\ HeadsReachable(synced)'
    BY <2>1, <2>2, <2>3, ZenonT(30) DEF NothingLost, HeadsReachable, Reachable
  <2> QED  BY <2>2, <2>4, Zenon DEF NothingLost, NeverRefused, Reachable
<1>6. CASE WriteFinalBatch
  <2>1. /\ db'.best = tip /\ db'.heads = <<>> /\ UNCHANGED <<synced, index, diskIndex, tip>>
        /\ node = "writing batch" /\ node' = "compacting"
    BY <1>6, Zenon DEF WriteFinalBatch, chainVars
  <2>2. Reachable(diskIndex, tip) /\ Reachable(index, tip)
    BY <2>1, Zenon DEF NothingLost, Writing
  <2>3. HeadsReachable(db)' /\ HeadsReachable(synced)'
    BY <2>1, <2>2, ZenonT(30) DEF NothingLost, HeadsReachable, Reachable
  <2> QED  BY <2>1, <2>2, <2>3, Zenon DEF NothingLost, NeverRefused, Reachable, Writing
<1> QED  BY <1>2, <1>3, <1>4, <1>5, <1>6 DEF Write

\* Start-up finds both heads, with all that is needed to go from one to the other.
LEMMA RestartLost == ASSUME IInv, NothingLost, Restart  PROVE NothingLost'
<1>1. /\ node = "down" /\ index = diskIndex /\ UNCHANGED <<db, synced, diskIndex>>
      /\ tip' = db.best /\ at' = IF db.heads = <<>> THEN NoBlock ELSE db.heads[2]
  BY Zenon DEF Restart, NothingLost
<1>2. /\ index'.known = index.known \cup {Genesis}
      /\ index'.data = index.data \cup (IF Genesis \in index.known THEN {} ELSE {Genesis})
      /\ index'.undo = index.undo
  BY Zenon DEF Restart
<1>3. /\ db.best \in HashOrNull
      /\ db.heads # <<>> => db.heads[1] \in Blocks /\ db.heads[2] \in HashOrNull
  BY TypeFacts, Zenon DEF IInv, TypeOK, Databases
<1>4. \A h \in HashOrNull : Reachable(diskIndex, h) => h = NoBlock \/ h \in index.data
  BY <1>1, Chains, Zenon DEF Reachable, Ancestors, HashOrNull
<1>5. index.data \subseteq index.known
  BY Zenon DEF NothingLost
<1>6. /\ db.best = NoBlock \/ db.best \in index.data
      /\ db.heads # <<>> => {db.heads[1], db.heads[2]} \subseteq index.known \cup {NoBlock}
  BY <1>3, <1>4, <1>5, Zenon DEF NothingLost, HeadsReachable, HashOrNull
<1>7. node' = IF db.heads = <<>> THEN "running" ELSE "rolling back"
  BY <1>6, Zenon DEF Restart
<1>8. HeadsReachable(db)' /\ HeadsReachable(synced)'
  BY <1>1 DEF NothingLost, HeadsReachable
<1>9. Reachable(index, tip)'
  <2>1. Reachable(diskIndex, db.best)
    BY Zenon DEF NothingLost, HeadsReachable
  <2> QED  BY <1>1, <1>2, <2>1 DEF Reachable
<1>10. ASSUME node' = "rolling back", db.heads[2] # NoBlock
       PROVE  at' \in Chain[db.heads[2]] /\ Fork' \in Chain[at']
  <2>1. db.heads # <<>> /\ at' = db.heads[2] /\ Fork' = Fork
    BY <1>1, <1>7, <1>10, Zenon DEF Fork
  <2>2. db.heads[2] \in Blocks /\ db.heads[1] \in Blocks
    BY <1>3, <1>10, <2>1, Zenon DEF HashOrNull
  <2>3. Fork \in Chain[db.heads[2]] /\ db.heads[2] \in Chain[db.heads[2]]
    BY <2>2, ForkExists, Chains DEF Fork, Ancestors
  <2> QED  BY <2>1, <2>3
<1>11. node' = "rolling back" => (db.heads[2] = NoBlock => at' = NoBlock)
  BY <1>1, <1>7, Zenon
<1> QED
  BY <1>1, <1>2, <1>5, <1>7, <1>8, <1>9, <1>10, <1>11, Zenon DEF NothingLost, NeverRefused, Writing

\* A replay finds the blocks and undo data that it needs next.
LEMMA ReplayLost ==
    ASSUME BeforeMweb, IInv, NothingLost, Replay
    PROVE  NothingLost'
<1>1. UNCHANGED <<db, synced, index, diskIndex>>
  BY Zenon DEF Replay, RollBack, ReachedFork, RollForward, ReplayDone, chainVars
<1>2. /\ index.data \subseteq index.known /\ diskIndex.data \subseteq index.data
      /\ diskIndex.undo \subseteq index.undo
  BY Zenon DEF NothingLost
<1>3. /\ db.heads # <<>> /\ db.heads[1] \in Blocks /\ db.heads[2] \in HashOrNull
      /\ db.heads[1] # NoBlock
      /\ Reachable(diskIndex, db.heads[1]) /\ Reachable(diskIndex, db.heads[2])
  <2>1. db.heads # <<>>
    BY Zenon DEF Replay, RollBack, ReachedFork, RollForward, ReplayDone, IInv, HeadsInPlace, Rolling
  <2> QED  BY <2>1, TypeFacts, BlockTree, Zenon DEF IInv, NothingLost, HeadsReachable
<1>4. Reachable(index, db.heads[1]) /\ Reachable(index, db.heads[2])
  BY <1>2, <1>3, ReachableMore
<1>5. CASE RollBack
  <2>1. node = "rolling back" /\ at # Fork
    BY <1>5, Zenon DEF RollBack, Fork
  <2>2. db.heads[2] # NoBlock
    BY <2>1, Zenon DEF NothingLost, Fork, LastCommonAncestor
  <2>3. at \in Chain[db.heads[2]] /\ Fork \in Chain[at] /\ db.heads[2] \in Blocks
    BY <1>3, <2>1, <2>2, Zenon DEF NothingLost, HashOrNull
  <2>4. at \in Blocks /\ Chain[at] \subseteq Chain[db.heads[2]]
    BY <2>3, Chains, Zenon DEF Ancestors
  <2>5. at # Genesis
    BY <2>1, <2>3, BlockTree, Zenon
  <2>6. at \in index.data \cap index.undo
    BY <1>4, <2>2, <2>3, <2>5 DEF Reachable
  <2>7. ~(Height[at] >= MwebHeight)
    BY <2>4, BlockTree, Limits DEF BeforeMweb
  <2>8. at' = Parent[at] /\ node' = node
    BY <1>5, <2>1, <2>6, <2>7, Zenon DEF RollBack, Fork
  <2>9. Parent[at] \in Blocks /\ Chain[at] = Chain[Parent[at]] \cup {at}
    BY <2>4, <2>5, BlockTree, Zenon
  <2>10. Parent[at] \in Chain[Parent[at]]
    BY <2>9, Chains, Zenon DEF Ancestors
  <2>11. at' \in Chain[db.heads[2]] /\ Fork \in Chain[at']
    BY <2>1, <2>3, <2>4, <2>8, <2>9, <2>10, Zenon
  <2>12. HeadsReachable(db)' /\ HeadsReachable(synced)' /\ Fork' = Fork
    BY <1>1, Zenon DEF NothingLost, HeadsReachable, Fork
  <2> QED
    BY <1>1, <2>1, <2>2, <2>8, <2>11, <2>12, Zenon DEF NothingLost, NeverRefused, Idle, Writing
<1>6. CASE ReachedFork
  <2>1. node' = "rolling forward"
    BY <1>6, Zenon DEF ReachedFork
  <2> QED  BY <1>1, <1>2, <2>1, KeepsLost, Zenon DEF Idle, Writing
<1>7. CASE RollForward
  <2>1. node = "rolling forward"
    BY <1>7, Zenon DEF RollForward
  <2>2. \A b \in Chain[db.heads[1]] : b \in index.data
    BY <1>3, <1>4 DEF Reachable
  <2>3. node' = "rolling forward"
    BY <1>7, <2>1, <2>2, Zenon DEF RollForward
  <2> QED  BY <1>1, <1>2, <2>3, KeepsLost, Zenon DEF Idle, Writing
<1>8. CASE ReplayDone
  <2>1. node' = "writing coins" /\ tip' = db.heads[1]
    BY <1>8, Zenon DEF ReplayDone
  <2>2. Reachable(index', tip') /\ Reachable(diskIndex, tip')
    BY <1>1, <1>3, <1>4, <2>1, Zenon DEF Reachable
  <2> QED  BY <1>1, <1>2, <2>1, <2>2, KeepsLost, Zenon
<1> QED  BY <1>5, <1>6, <1>7, <1>8 DEF Replay

\* Every step keeps what a start needs.
LEMMA StepLost ==
    ASSUME NoPruning, BeforeMweb, IInv, NothingLost, [Next]_vars  PROVE NothingLost'
<1>1. ASSUME NEW b \in Blocks, AcceptBlock(b) \/ ConnectTip(b)  PROVE NothingLost'
  BY <1>1, RunningLost
<1>2. CASE DisconnectTip
  BY <1>2, RunningLost, BlockTree
<1>3. CASE Write \/ \E prune \in SUBSET Prunable, full \in BOOLEAN : StartFlush(prune, full)
  BY <1>3, WriteLost
<1>4. CASE Crash \/ LosePower
  <2>1. /\ node' = "down" /\ index' = diskIndex /\ UNCHANGED <<diskIndex, synced>>
        /\ db' = db \/ db' = synced
    BY <1>4 DEF Crash, LosePower, Forget
  <2>2. HeadsReachable(db)' /\ HeadsReachable(synced)'
    BY <2>1, Zenon DEF NothingLost, HeadsReachable
  <2> QED  BY <2>1, <2>2, Zenon DEF NothingLost, NeverRefused, Idle, Writing
<1>5. CASE SyncDatabase \/ UNCHANGED vars
  <2>1. UNCHANGED <<db, index, diskIndex, node, tip, at>> /\ synced' \in {synced, db}
    BY <1>5 DEF SyncDatabase, chainVars, vars
  <2>2. HeadsReachable(db)' /\ HeadsReachable(synced)'
    BY <2>1, Zenon DEF NothingLost, HeadsReachable
  <2> QED  BY <2>1, <2>2, Zenon DEF NothingLost, NeverRefused, Reachable, Fork
<1>6. CASE Restart
  BY <1>6, RestartLost
<1>7. CASE Replay
  BY <1>7, ReplayLost
<1> QED  BY <1>1, <1>2, <1>3, <1>4, <1>5, <1>6, <1>7 DEF Next

\* As long as nothing is pruned and no block carries an extension block, start-up finds all
\* the blocks and undo data it needs, for every block tree and every sequence of crashes and
\* power losses, in the middle of a replay too: none of them costs a rebuild.
THEOREM CrashNeverCostsRebuild ==
    ASSUME NoPruning, BeforeMweb  PROVE Spec => []NeverRefused
<1>1. IInv /\ NothingLost /\ [Next]_vars => NothingLost'
  BY StepLost
<1>2. NothingLost => NeverRefused
  BY Zenon DEF NothingLost
<1> QED  BY <1>1, <1>2, InitLost, InductiveInvariant, PTL DEF Spec
=============================================================================

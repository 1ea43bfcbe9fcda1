----------------------------- MODULE CoinsCache -----------------------------
(***************************************************************************)
(* The write-back caches over the coins database (src/coins.cpp).          *)
(*                                                                         *)
(* The node stacks them two deep: the coins database, CoinsTip() over it,  *)
(* and, while a block is connected or disconnected, a view over CoinsTip() *)
(* that is flushed into it on success and dropped on failure               *)
(* (CChainState::ConnectTip and DisconnectTip). Everything runs under      *)
(* cs_main, so the parent of an open view changes only by being read       *)
(* through. An entry's DIRTY and FRESH flags decide what a flush writes;   *)
(* a wrong flag silently resurrects or loses a coin one level down.        *)
(*                                                                         *)
(* The part of BatchWrite that flushes the MWEB view is not here.          *)
(***************************************************************************)
EXTENDS Integers, FiniteSets, FiniteSetsExt

CONSTANTS
    Outpoints, Coins, Spent, Unspendable, Blocks, NullBlock,
    NotCached,      \* an outpoint with no entry in cacheCoins
    CoinUsage       \* DynamicMemoryUsage of a coin's script

ASSUME FiniteOutpoints == IsFiniteSet(Outpoints)
ASSUME SpentNotCoin == Spent \notin Coins
ASSUME UnspendableAreCoins == Unspendable \subseteq Coins
ASSUME NullNotBlock == NullBlock \notin Blocks

Entries == [coin : Coins \cup {Spent}, dirty : BOOLEAN, fresh : BOOLEAN]

ASSUME NotCachedNotEntry == NotCached \notin Entries
ASSUME CoinUsageType == CoinUsage \in [Coins \cup {Spent} -> Nat] /\ CoinUsage[Spent] = 0

VARIABLES
    db,         \* CCoinsViewDB: the coin stored for each outpoint, or Spent
    tip,        \* CoinsTip().cacheCoins
    view,       \* cacheCoins of the view over CoinsTip()
    open,       \* whether that view exists
    dbBest,     \* DB_BEST_BLOCK
    tipBest,    \* CoinsTip().hashBlock
    viewBest,   \* hashBlock of the view
    usage       \* cachedCoinsUsage of the two caches

vars == <<db, tip, view, open, dbBest, tipBest, viewBest, usage>>

-----------------------------------------------------------------------------
(* One cache over what its base shows, as pure operators. *)

Utxos == [Outpoints -> Coins \cup {Spent}]
Caches == [Outpoints -> Entries \cup {NotCached}]
EmptyCache == [o \in Outpoints |-> NotCached]
CachedCoin(e) == IF e = NotCached THEN Spent ELSE e.coin

\* What GetCoin answers through a cache.
Through(c, base) ==
    [o \in Outpoints |-> IF c[o] = NotCached THEN base[o] ELSE c[o].coin]

TipCoins == Through(tip, db)
ViewCoins == Through(view, TipCoins)

\* A hit leaves the cache alone and a miss on a spent or missing coin adds
\* nothing, because GetCoin of the base then returns false.
FetchCoin(c, base, o) ==
    IF c[o] = NotCached /\ base[o] # Spent
    THEN [c EXCEPT ![o] = [coin |-> base[o], dirty |-> FALSE, fresh |-> FALSE]]
    ELSE c

\* Mutant: forgets that a spent DIRTY entry must not become FRESH again.
AddCoinFreshAfterSpend(c, o, coin, overwrite) ==
    IF coin \in Unspendable THEN c
    ELSE [c EXCEPT ![o] = [coin |-> coin, dirty |-> TRUE, fresh |-> ~overwrite]]

AddCoin(c, o, coin, overwrite) ==
    LET wasDirty == c[o] # NotCached /\ c[o].dirty
        wasFresh == c[o] # NotCached /\ c[o].fresh
    IN  IF coin \in Unspendable THEN c
        ELSE [c EXCEPT ![o] = [coin  |-> coin,
                               dirty |-> TRUE,
                               fresh |-> wasFresh \/ (~overwrite /\ ~wasDirty)]]

\* The entry after FetchCoin has run.
SpendCoin(c, o) ==
    IF c[o] = NotCached THEN c
    ELSE IF c[o].fresh THEN [c EXCEPT ![o] = NotCached]
    ELSE [c EXCEPT ![o].coin = Spent, ![o].dirty = TRUE]

\* BatchWrite on one outpoint: the parent's entry after the child's.
WriteEntry(parent, child) ==
    IF child = NotCached THEN parent
    ELSE IF ~child.dirty THEN parent
    ELSE IF parent = NotCached
         THEN IF child.fresh /\ child.coin = Spent THEN NotCached
              ELSE [coin |-> child.coin, dirty |-> TRUE, fresh |-> child.fresh]
    ELSE IF parent.fresh /\ child.coin = Spent THEN NotCached
    ELSE [coin |-> child.coin, dirty |-> TRUE, fresh |-> parent.fresh]

BatchWrite(parent, child) ==
    [o \in Outpoints |-> WriteEntry(parent[o], child[o])]

\* The condition under which BatchWrite throws std::logic_error.
FreshMisapplied(parent, child) ==
    \E o \in Outpoints : /\ child[o] # NotCached /\ child[o].dirty /\ child[o].fresh
                         /\ CachedCoin(parent[o]) # Spent

\* CCoinsViewDB::BatchWrite, complete: DIRTY entries are written or erased.
DbWrite(child) ==
    [o \in Outpoints |-> IF child[o] # NotCached /\ child[o].dirty
                         THEN child[o].coin ELSE db[o]]

-----------------------------------------------------------------------------
(* The running total cachedCoinsUsage: what each operation adds to it. *)

Total(f) == MapThenSumSet(LAMBDA o : f[o], Outpoints)

CoinsUsage(c) == Total([o \in Outpoints |-> CoinUsage[CachedCoin(c[o])]])

FetchUsage(c, base, o) ==
    IF c[o] = NotCached /\ base[o] # Spent THEN CoinUsage[base[o]] ELSE 0

\* Mutant: the replaced coin is not subtracted.
AddUsageKeepsOld(c, o, coin) == IF coin \in Unspendable THEN 0 ELSE CoinUsage[coin]

AddUsage(c, o, coin) ==
    IF coin \in Unspendable THEN 0
    ELSE CoinUsage[coin] - (IF c[o] = NotCached THEN 0 ELSE CoinUsage[c[o].coin])

SpendUsage(c, o) == IF c[o] = NotCached THEN 0 ELSE - CoinUsage[c[o].coin]

WriteUsage(parent, child) ==
    IF child = NotCached THEN 0
    ELSE IF ~child.dirty THEN 0
    ELSE IF parent = NotCached
         THEN IF child.fresh /\ child.coin = Spent THEN 0 ELSE CoinUsage[child.coin]
    ELSE IF parent.fresh /\ child.coin = Spent THEN - CoinUsage[parent.coin]
    ELSE CoinUsage[child.coin] - CoinUsage[parent.coin]

BatchUsage(parent, child) ==
    Total([o \in Outpoints |-> WriteUsage(parent[o], child[o])])

-----------------------------------------------------------------------------
(* The database starts empty and CoinsTip() has just been constructed. *)
Init ==
    /\ db = [o \in Outpoints |-> Spent]
    /\ tip = EmptyCache /\ view = EmptyCache /\ open = FALSE
    /\ dbBest = NullBlock /\ tipBest = NullBlock /\ viewBest = NullBlock
    /\ usage = [tip |-> 0, view |-> 0]

\* GetBestBlock on CoinsTip(): a null hashBlock is taken from the base.
TipBestBlock == IF tipBest = NullBlock THEN dbBest ELSE tipBest

\* The view is constructed and its GetBestBlock compared with the tip's hash.
OpenView ==
    /\ ~open
    /\ open' = TRUE
    /\ tipBest' = TipBestBlock /\ viewBest' = TipBestBlock
    /\ UNCHANGED <<db, tip, view, dbBest, usage>>

\* GetCoin, HaveCoin or AccessCoin on CoinsTip() itself.
ReadTip(o) ==
    /\ ~open
    /\ tip' = FetchCoin(tip, db, o)
    /\ usage' = [usage EXCEPT !.tip = @ + FetchUsage(tip, db, o)]
    /\ UNCHANGED <<db, view, open, dbBest, tipBest, viewBest>>

\* The same through the view, which also fills CoinsTip() on the way.
ReadView(o) ==
    /\ open
    /\ tip' = IF view[o] = NotCached THEN FetchCoin(tip, db, o) ELSE tip
    /\ view' = FetchCoin(view, TipCoins, o)
    /\ usage' = [tip  |-> usage.tip + IF view[o] = NotCached
                                      THEN FetchUsage(tip, db, o) ELSE 0,
                 view |-> usage.view + FetchUsage(view, TipCoins, o)]
    /\ UNCHANGED <<db, open, dbBest, tipBest, viewBest>>

\* AddCoins and ApplyTxInUndo pass possible_overwrite = TRUE for a coinbase and
\* whenever HaveCoin says the outpoint is unspent; FALSE otherwise.
AddToView(o, coin, overwrite) ==
    /\ open
    /\ overwrite \/ ViewCoins[o] = Spent
    /\ view' = AddCoin(view, o, coin, overwrite)
    /\ usage' = [usage EXCEPT !.view = @ + AddUsage(view, o, coin)]
    /\ UNCHANGED <<db, tip, open, dbBest, tipBest, viewBest>>

\* FetchCoin, then the entry found is erased or cleared.
SpendFromView(o) ==
    LET fetched == FetchCoin(view, TipCoins, o) IN
    /\ open
    /\ tip' = IF view[o] = NotCached THEN FetchCoin(tip, db, o) ELSE tip
    /\ view' = SpendCoin(fetched, o)
    /\ usage' = [tip  |-> usage.tip + IF view[o] = NotCached
                                      THEN FetchUsage(tip, db, o) ELSE 0,
                 view |-> usage.view + FetchUsage(view, TipCoins, o)
                                     + SpendUsage(fetched, o)]
    /\ UNCHANGED <<db, open, dbBest, tipBest, viewBest>>

\* SetBestBlock, the last step of ConnectBlock and DisconnectBlock.
SetBestBlock(b) ==
    /\ open
    /\ viewBest' = b
    /\ UNCHANGED <<db, tip, view, open, dbBest, tipBest, usage>>

\* view.Flush() into CoinsTip(), and the view goes out of scope.
FlushView ==
    /\ open
    /\ open' = FALSE
    /\ tip' = BatchWrite(tip, view) /\ view' = EmptyCache
    /\ tipBest' = viewBest /\ viewBest' = NullBlock
    /\ usage' = [tip |-> usage.tip + BatchUsage(tip, view), view |-> 0]
    /\ UNCHANGED <<db, dbBest>>

\* The view goes out of scope without a flush: the block was rejected.
DropView ==
    /\ open
    /\ open' = FALSE
    /\ view' = EmptyCache /\ viewBest' = NullBlock
    /\ usage' = [usage EXCEPT !.view = 0]
    /\ UNCHANGED <<db, tip, dbBest, tipBest>>

\* Mutant: evicts a modified entry.
UncacheDirty(o) ==
    /\ ~open
    /\ tip[o] # NotCached
    /\ tip' = [tip EXCEPT ![o] = NotCached]
    /\ usage' = [usage EXCEPT !.tip = @ - CoinUsage[tip[o].coin]]
    /\ UNCHANGED <<db, view, open, dbBest, tipBest, viewBest>>

\* Uncache: only an entry with no flags set is removed.
Uncache(o) ==
    /\ ~open
    /\ tip[o] # NotCached /\ ~tip[o].dirty /\ ~tip[o].fresh
    /\ tip' = [tip EXCEPT ![o] = NotCached]
    /\ usage' = [usage EXCEPT !.tip = @ - CoinUsage[tip[o].coin]]
    /\ UNCHANGED <<db, view, open, dbBest, tipBest, viewBest>>

\* CoinsTip().Flush() in FlushStateToDisk, which asks for the best block first.
FlushTip ==
    /\ ~open
    /\ TipBestBlock # NullBlock
    /\ db' = DbWrite(tip) /\ dbBest' = TipBestBlock
    /\ tip' = EmptyCache /\ tipBest' = TipBestBlock
    /\ usage' = [usage EXCEPT !.tip = 0]
    /\ UNCHANGED <<view, open, viewBest>>

Next ==
    \/ OpenView \/ FlushView \/ DropView \/ FlushTip
    \/ \E b \in Blocks : SetBestBlock(b)
    \/ \E o \in Outpoints :
          \/ ReadTip(o) \/ ReadView(o) \/ SpendFromView(o) \/ Uncache(o)
          \/ \E coin \in Coins, overwrite \in BOOLEAN : AddToView(o, coin, overwrite)

Spec == Init /\ [][Next]_vars
-----------------------------------------------------------------------------
(* Properties *)

\* Every variable stays in its set; cachedCoinsUsage is covered by UsageExact.
TypeOK ==
    /\ db \in Utxos
    /\ tip \in Caches /\ view \in Caches
    /\ open \in BOOLEAN
    /\ {dbBest, tipBest, viewBest} \subseteq Blocks \cup {NullBlock}

\* A cache c is coherent over what its base shows when its flags tell the truth
\* (the comments on DIRTY and FRESH in coins.h): an entry that is not DIRTY
\* agrees with the base, and FRESH is only on a DIRTY unspent coin that the base
\* does not have. This is what makes it sound to skip clean entries in
\* BatchWrite and to erase a FRESH entry when it is spent.
Coherent(c, base) ==
    \A o \in Outpoints : c[o] # NotCached =>
        /\ ~c[o].dirty => c[o].coin = base[o] /\ base[o] # Spent
        /\ c[o].fresh => c[o].dirty /\ c[o].coin # Spent /\ base[o] = Spent

\* Both caches are coherent over the level below, however reads, adds, spends,
\* evictions and flushes are interleaved; a view that is not open is empty.
CachesCoherent ==
    /\ Coherent(tip, db)
    /\ Coherent(view, TipCoins)
    /\ ~open => view = EmptyCache

\* BatchWrite never finds a FRESH coin that is unspent in the parent, so the
\* logic_error "FRESH flag misapplied to coin that exists in parent cache" is
\* never thrown in the middle of a flush.
FreshNeverMisapplied == ~FreshMisapplied(tip, view)

\* cachedCoinsUsage is the exact size of the coins held, in both caches: the
\* decision when to flush (GetCoinsCacheSizeState) rests on it, and as a size_t
\* it would wrap if it ever fell below.
UsageExact == usage = [tip |-> CoinsUsage(tip), view |-> CoinsUsage(view)]

\* The hierarchy implements three plain sets of unspent outputs: no read,
\* eviction or flush changes what a level shows, a flushed view becomes the
\* state of CoinsTip() as a whole, a dropped one leaves no trace, and the
\* database after a flush is exactly what CoinsTip() showed.
Abstract ==
    INSTANCE UtxoSet WITH
        disk <- db, chain <- TipCoins, work <- ViewCoins,
        diskBest <- dbBest, chainBest <- TipBestBlock,
        workBest <- IF open THEN viewBest ELSE TipBestBlock

ImplementsUtxoSet == Abstract!Spec
=============================================================================

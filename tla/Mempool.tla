------------------------------ MODULE Mempool ------------------------------
(***************************************************************************)
(* The memory pool (txmempool.cpp) and the code that feeds it: acceptance, *)
(* the connection and disconnection of blocks, and the repair of the pool  *)
(* at the end of a reorganisation (validation.cpp).                        *)
(*                                                                         *)
(* A transaction is a name with the outputs it spends and creates.  One in *)
(* Mweb carries MWEB data and is known to a block by its kernel; one in    *)
(* MwebOnly has nothing else and is not in block.vtx at all.  Every        *)
(* transaction has size one, so that a total is a count and a fee: size,   *)
(* signature operations and MWEB weight are added and subtracted by the    *)
(* same statements as the count.                                           *)
(***************************************************************************)
EXTENDS Integers, FiniteSets, FiniteSetsExt, Sequences, SequencesExt

CONSTANTS
    Order,            \* every transaction, parents before their children
    Spends, Creates,  \* [transactions -> sets of outputs]
    Fee,              \* [transactions -> Nat]
    Mweb, MwebOnly,   \* transactions with MWEB data, with nothing else
    MwebOutputs,      \* outputs that exist in the extension block only
    Foreign,          \* transactions of Mweb that others may mine unseen by this pool
    KernelOrder,      \* Mweb, in the order of the kernel hashes
    BlockOnly,        \* coinbase, HogEx and nonstandard transactions
    TimeLocked,       \* transactions with lock times or immature inputs
    Replaceable,      \* transactions that -mempoolreplacement lets replace
    Prioritised,      \* transactions the operator may prioritise
    Genesis,          \* outputs unspent before the first block
    LimitAncestors, LimitDescendants, MaxPool, MaxQueue, IncrementalFee,
    MaxHeight, MaxBlock, MaxDelta, MaxExpired, Nobody

Txs == Range(Order)
Outputs == Genesis \cup UNION {Creates[t] : t \in Txs}

ASSUME LinksAssumption ==
    /\ Spends \in [Txs -> SUBSET Outputs] /\ Creates \in [Txs -> SUBSET Outputs]
    /\ \A i, j \in DOMAIN Order :
          /\ i # j => Creates[Order[i]] \cap Creates[Order[j]] = {}
          /\ Spends[Order[i]] \cap Creates[Order[j]] # {} => j < i
ASSUME MwebAssumption ==
    /\ MwebOnly \subseteq Mweb /\ Range(KernelOrder) = Mweb
    /\ \A t \in MwebOnly : Spends[t] \cup Creates[t] \subseteq MwebOutputs
    /\ \A t \in Txs \ Mweb : Spends[t] \cap MwebOutputs = {}

VARIABLES
    pool,    \* mapTx with its links and totals, mapNextTx, mapDeltas, recentTxsByKernel
    chain,   \* the blocks of the active chain, each a set of transactions
    queue,   \* DisconnectedBlockTransactions::queuedTx, oldest first
    phase    \* where ActivateBestChainStep is: "idle", "disconnecting", "connecting"

vars == <<pool, chain, queue, phase>>

(***************************************************************************)
(* Entries and totals                                                      *)
(***************************************************************************)
Zero == [n |-> 0, fee |-> 0]

Plus(a, b) == [n |-> a.n + b.n, fee |-> a.fee + b.fee]

Minus(a, b) == [n |-> a.n - b.n, fee |-> a.fee - b.fee]

Total(p, S) == [n |-> Cardinality(S), fee |-> MapThenSumSet(LAMBDA t : p.fee[t], S)]

Empty == [tx     |-> {},                                  \* mapTx
          parents  |-> [t \in Txs |-> {}],
          children |-> [t \in Txs |-> {}],
          fee    |-> [t \in Txs |-> 0],                   \* GetModifiedFee
          anc    |-> [t \in Txs |-> Zero],                \* ...WithAncestors
          desc   |-> [t \in Txs |-> Zero],                \* ...WithDescendants
          next   |-> [o \in Outputs |-> Nobody],          \* mapNextTx
          deltas |-> [t \in Txs |-> 0],                   \* mapDeltas
          recent |-> {}]                                  \* recentTxsByKernel

\* What is reached from S along next, S included.
RECURSIVE Reach(_, _)
Reach(next, S) ==
    LET wider == S \cup UNION {next[t] : t \in S}
    IN IF wider = S THEN S ELSE Reach(next, wider)

CalculateDescendants(p, S) == Reach(p.children, S)

\* CalculateMemPoolAncestors with fSearchForParents = false.
LinkedAncestors(p, t) == Reach(p.parents, p.parents[t])

\* The parents GetIter finds, by txid or through mapTxOutputs_MWEB.
PoolParents(p, t) == {u \in p.tx : Creates[u] \cap Spends[t] # {}}

SearchedAncestors(p, t) == Reach(p.parents, PoolParents(p, t))

WithinLimits(p, S, ancestors, descendants) ==
    /\ Cardinality(S) + 1 <= ancestors
    /\ \A a \in S : p.desc[a].n + 1 <= descendants

(***************************************************************************)
(* Adding and removing                                                     *)
(***************************************************************************)
addUnchecked(p, t, ancestors) ==
    LET parents == PoolParents(p, t)
        own == [n |-> 1, fee |-> Fee[t] + p.deltas[t]]
    IN [p EXCEPT
          !.tx = @ \cup {t},
          !.fee[t] = own.fee,
          !.parents[t] = parents,
          !.children = [u \in Txs |-> IF u \in parents THEN @[u] \cup {t} ELSE @[u]],
          !.anc[t] = Plus(own, Total(p, ancestors)),
          !.desc = [u \in Txs |-> CASE u = t -> own
                                    [] u \in ancestors -> Plus(@[u], own)
                                    [] OTHER -> @[u]],
          !.next = [o \in Outputs |->
                      IF o \in Spends[t] /\ @[o] = Nobody THEN t ELSE @[o]]]

\* Mutant: ancestors looked up by the inputs rather than by the links.
UpdateForRemovalBySearch(p, S, updateDescendants) ==
    LET above(u) == {r \in S \ {u} : u \in CalculateDescendants(p, {r})}
        below(u) == {r \in S : u \in SearchedAncestors(p, r)}
    IN [p EXCEPT
          !.anc = IF updateDescendants
                  THEN [u \in Txs |-> Minus(@[u], Total(p, above(u)))] ELSE @,
          !.desc = [u \in Txs |-> Minus(@[u], Total(p, below(u)))],
          !.children = [u \in Txs |-> @[u] \ {r \in S : u \in p.parents[r]}],
          !.parents = [u \in Txs |-> @[u] \ {r \in S : u \in p.children[r]}]]

\* The totals that UpdateForRemoveFromMempool leaves, while links still stand.
UpdateForRemoveFromMempool(p, S, updateDescendants) ==
    LET above(u) == {r \in S \ {u} : u \in CalculateDescendants(p, {r})}
        below(u) == {r \in S : u \in LinkedAncestors(p, r)}
    IN [p EXCEPT
          !.anc = IF updateDescendants
                  THEN [u \in Txs |-> Minus(@[u], Total(p, above(u)))] ELSE @,
          !.desc = [u \in Txs |-> Minus(@[u], Total(p, below(u)))],
          !.children = [u \in Txs |-> @[u] \ {r \in S : u \in p.parents[r]}],
          !.parents = [u \in Txs |-> @[u] \ {r \in S : u \in p.children[r]}]]

RemoveStaged(p, S, updateDescendants, reason) ==
    LET q == UpdateForRemoveFromMempool(p, S, updateDescendants)
        cleared(f, none) == [u \in Txs |-> IF u \in S THEN none ELSE f[u]]
    IN [q EXCEPT
          !.tx = @ \ S,
          !.fee = cleared(@, 0),
          !.parents = cleared(@, {}), !.children = cleared(@, {}),
          !.anc = cleared(@, Zero), !.desc = cleared(@, Zero),
          !.next = [o \in Outputs |->
                      IF \E t \in S : o \in Spends[t] THEN Nobody ELSE @[o]],
          !.recent = IF reason \in {"BLOCK", "REORG"} THEN @ \cup (S \cap Mweb) ELSE @]

Spenders(p, O) == {p.next[o] : o \in O} \ {Nobody}

\* Mutant: children of a transaction that is not in the pool are forgotten.
removeRecursiveInPool(p, t, outs, reason) ==
    RemoveStaged(p, CalculateDescendants(p, {t} \cap p.tx), FALSE, reason)

\* outs: the outputs of t that the caller's copy of t has.
removeRecursive(p, t, outs, reason) ==
    LET roots == IF t \in p.tx THEN {t} ELSE Spenders(p, outs)
    IN RemoveStaged(p, CalculateDescendants(p, roots), FALSE, reason)

removeConflicts(p, t, ins) ==
    LET one(o, q) ==
            IF q.next[o] \in {Nobody, t} THEN q
            ELSE removeRecursive([q EXCEPT !.deltas[q.next[o]] = 0],
                                 q.next[o], {}, "CONFLICT")
    IN FoldSet(one, p, ins)

(***************************************************************************)
(* A block's copy of a transaction has no MWEB inputs or outputs: they are *)
(* in the extension block.                                                 *)
(***************************************************************************)
PlainInputs(t) == Spends[t] \ MwebOutputs

PlainOutputs(t) == Creates[t] \ MwebOutputs

vtx(B) == SelectSeq(Order, LAMBDA t : t \in B \ MwebOnly)

\* Entries of the pool that share a kernel with the block.
KernelMatches(p, B) == SelectSeq(Order, LAMBDA t : t \in B \cap Mweb \cap p.tx)

removeForBlock(p, B) ==
    LET confirmed(q, t) == IF t \in q.tx THEN RemoveStaged(q, {t}, TRUE, "BLOCK") ELSE q
        one(q, t, ins) == [removeConflicts(confirmed(q, t), t, ins) EXCEPT !.deltas[t] = 0]
        plain == FoldLeft(LAMBDA q, t : one(q, t, PlainInputs(t)), p, vtx(B))
    IN FoldLeft(LAMBDA q, t : one(q, t, Spends[t]), plain, KernelMatches(p, B))
(***************************************************************************)
(* AcceptToMemoryPool                                                      *)
(***************************************************************************)
Confirmed == UNION Range(chain)

\* The coins the chain leaves unspent.
Coins == (Genesis \cup UNION {Creates[t] : t \in Confirmed})
             \ UNION {Spends[t] : t \in Confirmed}

\* CCoinsViewMemPool: an MWEB output that the pool spends is not there.
HaveInputs(p, t) ==
    \A o \in Spends[t] :
       /\ o \in Coins \cup UNION {Creates[u] : u \in p.tx}
       /\ o \in MwebOutputs => p.next[o] = Nobody

Conflicts(p, t) == Spenders(p, Spends[t])

AllConflicting(p, t) == CalculateDescendants(p, Conflicts(p, t))

\* With one conflict the descendant limit is one higher; the carve-out lets in
\* one more descendant that has a single ancestor.
PackageFits(p, t) ==
    LET S == SearchedAncestors(p, t)
        limit == LimitDescendants + (IF Cardinality(Conflicts(p, t)) = 1 THEN 1 ELSE 0)
    IN WithinLimits(p, S, LimitAncestors, limit) \/ WithinLimits(p, S, 2, limit + 1)

PlainParents(p, t) == {u \in p.tx : Creates[u] \cap PlainInputs(t) # {}}

MayReplace(p, t) ==
    LET conflicts == Conflicts(p, t)
        fee == Fee[t] + p.deltas[t]
    IN conflicts # {} =>
          /\ conflicts \subseteq Replaceable
          /\ conflicts \cap SearchedAncestors(p, t) = {}
          /\ \A c \in conflicts : p.fee[c] < fee
          /\ PlainParents(p, t) \subseteq UNION {PoolParents(p, c) : c \in conflicts}
          /\ fee >= Total(p, AllConflicting(p, t)).fee + IncrementalFee

PreChecks(p, t) ==
    /\ t \notin BlockOnly \cup p.tx
    /\ HaveInputs(p, t)
    /\ PackageFits(p, t)
    /\ MayReplace(p, t)

Finalize(p, t) ==
    addUnchecked(RemoveStaged(p, AllConflicting(p, t), FALSE, "REPLACED"),
                 t, SearchedAncestors(p, t))

\* old: the entries whose time has passed.
Expire(p, old) == RemoveStaged(p, CalculateDescendants(p, old), FALSE, "EXPIRY")

\* The better of the fee rates of t alone and with its descendants.
DescendantScore(p, t) ==
    IF p.fee[t] * p.desc[t].n > p.desc[t].fee THEN [n |-> 1, fee |-> p.fee[t]] ELSE p.desc[t]

Worst(p) ==
    CHOOSE t \in p.tx : \A u \in p.tx :
        LET a == DescendantScore(p, t)
            b == DescendantScore(p, u)
        IN a.fee * b.n <= b.fee * a.n

RECURSIVE TrimToSize(_)
TrimToSize(p) ==
    IF Cardinality(p.tx) <= MaxPool THEN p
    ELSE TrimToSize(RemoveStaged(p, CalculateDescendants(p, {Worst(p)}), FALSE, "SIZELIMIT"))

LimitMempoolSize(p, old) == TrimToSize(Expire(p, old))

\* Bound: at most MaxExpired entries expire at a time.
Aged(S) == {old \in SUBSET S : Cardinality(old) <= MaxExpired}

(***************************************************************************)
(* UpdateMempoolForReorg                                                   *)
(***************************************************************************)
\* Mutant: re-added descendants are counted a second time.
UpdateForAllDescendants(p, t, exclude) ==
    LET D == CalculateDescendants(p, p.children[t])
        own == [n |-> 1, fee |-> p.fee[t]]
    IN [p EXCEPT
          !.anc = [u \in Txs |-> IF u \in D THEN Plus(@[u], own) ELSE @[u]],
          !.desc[t] = Plus(@, Total(p, D))]

UpdateForDescendants(p, t, exclude) ==
    LET D == CalculateDescendants(p, p.children[t]) \ exclude
        own == [n |-> 1, fee |-> p.fee[t]]
    IN [p EXCEPT
          !.anc = [u \in Txs |-> IF u \in D THEN Plus(@[u], own) ELSE @[u]],
          !.desc[t] = Plus(@, Total(p, D))]

\* Mutant: descendants of the re-added transactions are not looked for.
UpdateNothingFromBlock(p, updated) == p

\* updated: the re-added transactions, in the order they were added.
UpdateTransactionsFromBlock(p, updated) ==
    LET included == Range(updated)
        linked(q, t, kids) ==
            [q EXCEPT
               !.children[t] = @ \cup kids,
               !.parents = [u \in Txs |-> IF u \in kids THEN @[u] \cup {t} ELSE @[u]]]
        one(q, t) ==
            IF t \notin q.tx THEN q
            ELSE UpdateForDescendants(linked(q, t, Spenders(q, Creates[t]) \ included),
                                      t, included)
    IN FoldLeft(one, p, Reverse(updated))

\* late: transactions that are no longer final, or mature, after the reorganisation.
removeForReorg(p, late) ==
    RemoveStaged(p, CalculateDescendants(p, late \cap p.tx), FALSE, "REORG")

\* A queued copy that lost its MWEB data shows its plain outputs only.
QueuedOutputs(e) == IF e.full THEN Creates[e.tx] ELSE PlainOutputs(e.tx)

\* s: the pool so far and vHashUpdate.
ReAdd(s, e, fAddToMempool, late) ==
    IF fAddToMempool /\ e.full /\ e.tx \notin late /\ PreChecks(s.pool, e.tx)
    THEN [pool |-> Finalize(s.pool, e.tx), updated |-> Append(s.updated, e.tx)]
    ELSE [s EXCEPT !.pool = removeRecursive(@, e.tx, QueuedOutputs(e), "REORG")]

Drain(fAddToMempool, late) ==
    FoldLeft(LAMBDA s, e : ReAdd(s, e, fAddToMempool, late),
             [pool |-> pool, updated |-> <<>>], Reverse(queue))

(***************************************************************************)
(* DisconnectedBlockTransactions                                           *)
(***************************************************************************)
addTransaction(q, e) == IF \E i \in DOMAIN q : q[i].tx = e.tx THEN q ELSE Append(q, e)

\* What DisconnectTip queues: first what the kernel cache still has whole.
QueuedForBlock(B) ==
    LET cached == SelectSeq(KernelOrder, LAMBDA t : t \in B \cap pool.recent)
        whole == FoldLeft(LAMBDA q, t : addTransaction(q, [tx |-> t, full |-> TRUE]), queue, cached)
    IN FoldLeft(LAMBDA q, t : addTransaction(q, [tx |-> t, full |-> t \notin Mweb]),
                whole, Reverse(vtx(B)))

(***************************************************************************)
(* Actions                                                                 *)
(***************************************************************************)
Init ==
    /\ pool = Empty
    /\ chain = <<>>
    /\ queue = <<>>
    /\ phase = "idle"

AcceptToMemoryPool(t) ==
    /\ phase = "idle"
    /\ PreChecks(pool, t)
    /\ \E old \in Aged(pool.tx) : pool' = LimitMempoolSize(Finalize(pool, t), old \cap Finalize(pool, t).tx)
    /\ UNCHANGED <<chain, queue, phase>>

\* Bound: a delta stays within MaxDelta.
PrioritiseTransaction(t, d) ==
    /\ phase = "idle"
    /\ pool.deltas[t] + d \in -MaxDelta .. MaxDelta
    /\ LET change(f, S) == [u \in Txs |-> IF u \in S THEN [f[u] EXCEPT !.fee = @ + d] ELSE f[u]]
       IN pool' = IF t \notin pool.tx THEN [pool EXCEPT !.deltas[t] = @ + d]
                  ELSE [pool EXCEPT
                          !.deltas[t] = @ + d,
                          !.fee[t] = @ + d,
                          !.desc = change(@, LinkedAncestors(pool, t) \cup {t}),
                          !.anc = change(@, CalculateDescendants(pool, {t}))]
    /\ UNCHANGED <<chain, queue, phase>>

\* Bound: MaxHeight blocks of at most MaxBlock transactions.
ValidBlocks ==
    {B \in SUBSET (Txs \ Confirmed) :
        /\ B # {} /\ Cardinality(B) <= MaxBlock
        /\ B \cap Mweb \subseteq pool.tx \cup pool.recent \cup Foreign
        /\ \A t \in B : Spends[t] \subseteq Coins \cup UNION {Creates[u] : u \in B}
        /\ \A t, u \in B : t # u => Spends[t] \cap Spends[u] = {}}

\* Mutant: the queue keeps what the new block confirms.
ConnectTipKeepsQueue(B) ==
    /\ Len(chain) < MaxHeight
    /\ chain' = Append(chain, B)
    /\ pool' = removeForBlock(pool, B)
    /\ phase' = IF phase = "idle" THEN "idle" ELSE "connecting"
    /\ UNCHANGED queue

ConnectTip(B) ==
    /\ Len(chain) < MaxHeight
    /\ chain' = Append(chain, B)
    /\ pool' = removeForBlock(pool, B)
    /\ queue' = SelectSeq(queue, LAMBDA e :
                             e.tx \notin Range(vtx(B)) \cup Range(KernelMatches(pool, B)))
    /\ phase' = IF phase = "idle" THEN "idle" ELSE "connecting"

\* The oldest entries are dropped from a full queue, and their children removed.
DisconnectTip ==
    /\ phase \in {"idle", "disconnecting"}
    /\ chain # <<>>
    /\ LET q == QueuedForBlock(Last(chain))
           excess == IF Len(q) > MaxQueue THEN Len(q) - MaxQueue ELSE 0
       IN /\ pool' = FoldLeft(LAMBDA p, e : removeRecursive(p, e.tx, QueuedOutputs(e), "REORG"),
                              pool, SubSeq(q, 1, excess))
          /\ queue' = SubSeq(q, excess + 1, Len(q))
    /\ chain' = Front(chain)
    /\ phase' = "disconnecting"

UpdateMempoolForReorg(fAddToMempool) ==
    /\ phase # "idle"
    /\ \E late \in SUBSET TimeLocked :
          LET s == Drain(fAddToMempool, late)
              p == removeForReorg(UpdateTransactionsFromBlock(s.pool, s.updated), late)
          IN \E old \in Aged(p.tx) : pool' = LimitMempoolSize(p, old)
    /\ queue' = <<>>
    /\ phase' = "idle"
    /\ UNCHANGED chain

Next ==
    \/ \E t \in Txs : AcceptToMemoryPool(t)
    \/ \E t \in Prioritised, d \in {-1, 1} : PrioritiseTransaction(t, d)
    \/ \E B \in ValidBlocks : ConnectTip(B)
    \/ DisconnectTip
    \/ \E fAddToMempool \in BOOLEAN : UpdateMempoolForReorg(fAddToMempool)

Spec == Init /\ [][Next]_vars

(***************************************************************************)
(* Properties                                                              *)
(***************************************************************************)
Totals == [n : Nat, fee : Int]

\* The state has its type, and the asserts of UpdateDescendantState and
\* UpdateAncestorState hold: an entry is never counted out of its own package,
\* in the middle of a reorganisation either (txmempool.cpp:331, 342).
TypeOK ==
    /\ pool.tx \subseteq Txs
    /\ pool.parents \in [Txs -> SUBSET pool.tx] /\ pool.children \in [Txs -> SUBSET pool.tx]
    /\ pool.anc \in [Txs -> Totals] /\ pool.desc \in [Txs -> Totals]
    /\ \A t \in pool.tx : pool.anc[t].n > 0 /\ pool.desc[t].n > 0
    /\ pool.next \in [Outputs -> pool.tx \cup {Nobody}]
    /\ pool.recent \subseteq Mweb
    /\ Len(queue) <= MaxQueue
    /\ phase = "idle" => queue = <<>>

\* What check() asserts of the links once ActivateBestChainStep is done: the
\* parents, the children and mapNextTx of the pool are those its inputs give, so
\* that no two entries spend one output (txmempool.cpp:739-789).  A
\* reorganisation breaks it and UpdateTransactionsFromBlock restores it.
LinksExact ==
    phase = "idle" =>
        /\ \A t \in Txs :
              /\ pool.parents[t] = IF t \in pool.tx THEN PoolParents(pool, t) ELSE {}
              /\ pool.children[t] = {u \in pool.tx : t \in pool.parents[u]}
        /\ \A o \in Outputs :
              {t \in pool.tx : o \in Spends[t]} = {pool.next[o]} \ {Nobody}

\* At every moment, also between the steps of a reorganisation, the totals of
\* an entry are those of the packages its links give, with the fees as they
\* are prioritised: what UpdateForRemoveFromMempool relies on when it removes
\* entries from a pool whose links are incomplete (txmempool.cpp:291-310).
TotalsExact ==
    \A t \in pool.tx :
        /\ pool.fee[t] = Fee[t] + pool.deltas[t]
        /\ pool.anc[t] = Total(pool, {t} \cup LinkedAncestors(pool, t))
        /\ pool.desc[t] = Total(pool, CalculateDescendants(pool, {t}))

\* Once a chain activation is done, no entry of the pool is confirmed,
\* extension-block transactions included, and every canonical input of an entry
\* is an unspent coin of the chain or an output of another entry
\* (txmempool.cpp:725-736).
PoolFollowsChain ==
    phase = "idle" =>
        \A t \in pool.tx :
            /\ t \notin Confirmed
            /\ PlainInputs(t) \subseteq Coins \cup UNION {Creates[u] : u \in pool.tx}

\* The note above UpdateMempoolForReorg, "we assume that disconnectpool only
\* contains transactions that are NOT confirmed in the current chain nor already
\* in the mempool" (validation.cpp:366), for what is in block.vtx.
QueueUnconfirmed ==
    \A i \in DOMAIN queue :
        queue[i].tx \notin pool.tx \cup (Confirmed \ MwebOnly)
=============================================================================

------------------------------- MODULE UtxoSet -------------------------------
(***************************************************************************)
(* What the coins view hierarchy promises, with no caches in it: three     *)
(* versions of the set of unspent outputs.                                 *)
(*                                                                         *)
(*   disk   what the coins database holds                                  *)
(*   chain  what CoinsTip() shows: the set after the active chain's tip    *)
(*   work   what a view stacked on CoinsTip() shows while a block is       *)
(*          connected to it or disconnected from it                        *)
(*                                                                         *)
(* Each version comes with the block whose state it is. A block is applied *)
(* to `work' output by output and then either committed to `chain' as a    *)
(* whole or abandoned as a whole; `disk' only ever becomes a copy of       *)
(* `chain'.                                                                *)
(***************************************************************************)
CONSTANTS
    Outpoints,      \* transaction outputs (COutPoint)
    Coins,          \* contents of an unspent output (Coin)
    Spent,          \* the nulled-out coin, also the answer for a missing one
    Unspendable,    \* the coins whose script is provably unspendable
    Blocks,         \* block hashes
    NullBlock       \* the null hash

VARIABLES
    disk, chain, work,              \* the three versions
    diskBest, chainBest, workBest,  \* the block each is the state of
    open                            \* whether a block is being worked on

vars == <<disk, chain, work, diskBest, chainBest, workBest, open>>

Utxos == [Outpoints -> Coins \cup {Spent}]

Init ==
    /\ disk = [o \in Outpoints |-> Spent]
    /\ chain = disk /\ work = disk
    /\ diskBest = NullBlock /\ chainBest = NullBlock /\ workBest = NullBlock
    /\ open = FALSE

Begin ==
    /\ ~open
    /\ open' = TRUE
    /\ work' = chain /\ workBest' = chainBest
    /\ UNCHANGED <<disk, chain, diskBest, chainBest>>

Add(o, c) ==
    /\ open
    /\ work' = [work EXCEPT ![o] = c]
    /\ UNCHANGED <<disk, chain, diskBest, chainBest, workBest, open>>

Spend(o) ==
    /\ open
    /\ work' = [work EXCEPT ![o] = Spent]
    /\ UNCHANGED <<disk, chain, diskBest, chainBest, workBest, open>>

SetBest(b) ==
    /\ open
    /\ workBest' = b
    /\ UNCHANGED <<disk, chain, work, diskBest, chainBest, open>>

Commit ==
    /\ open
    /\ open' = FALSE
    /\ chain' = work /\ chainBest' = workBest
    /\ UNCHANGED <<disk, work, diskBest, workBest>>

Abandon ==
    /\ open
    /\ open' = FALSE
    /\ work' = chain /\ workBest' = chainBest
    /\ UNCHANGED <<disk, chain, diskBest, chainBest>>

Sync ==
    /\ ~open
    /\ disk' = chain /\ diskBest' = chainBest
    /\ UNCHANGED <<chain, work, chainBest, workBest, open>>

Next ==
    \/ Begin \/ Commit \/ Abandon \/ Sync
    \/ \E o \in Outpoints : Spend(o)
    \/ \E o \in Outpoints, c \in Coins \ Unspendable : Add(o, c)
    \/ \E b \in Blocks : SetBest(b)

Spec == Init /\ [][Next]_vars
=============================================================================

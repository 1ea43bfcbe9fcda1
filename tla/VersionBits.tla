----------------------------- MODULE VersionBits -----------------------------
(***************************************************************************)
(* Deployment states by version bits (versionbits.cpp).  GetStateFor walks *)
(* back to a block whose state is cached, or to one before the start of    *)
(* the deployment, and then forward again, filling the cache.  One cache   *)
(* serves all branches of the block tree and all callers: block            *)
(* validation, templates and RPCs ask for any block in any order.          *)
(***************************************************************************)
EXTENDS Integers, FiniteSets

CONSTANTS
    Blocks, NoBlock,
    Parent, Height,
    Chain,             \* the blocks from the genesis block to a block
    MedianTime,        \* GetMedianTimePast
    nPeriod, nThreshold,
    Deployments,       \* [start, timeout, startHeight, timeoutHeight]
    Voters             \* the blocks that may signal

ALWAYS_ACTIVE == -1
NEVER_ACTIVE == -2

ASSUME TreeAssumption ==
    /\ NoBlock \notin Blocks
    /\ \A b \in Blocks : /\ Height[b] \in Nat
                         /\ Parent[b] \in Blocks \cup {NoBlock}
                         /\ Parent[b] = NoBlock <=> Height[b] = 0
                         /\ Parent[b] # NoBlock => Height[b] = Height[Parent[b]] + 1
                         /\ Chain[b] = {b} \cup (IF Parent[b] = NoBlock THEN {}
                                                 ELSE Chain[Parent[b]])

\* ContextualCheckBlockHeader rejects a block whose time is not above the median
\* of its predecessors, so the median never falls along a chain.
ASSUME MedianAssumption ==
    /\ MedianTime \in [Blocks -> Int]
    /\ \A b \in Blocks : Parent[b] # NoBlock => MedianTime[Parent[b]] <= MedianTime[b]

ASSUME ParametersAssumption ==
    /\ nPeriod \in Nat \ {0} /\ nThreshold \in Nat
    /\ Voters \subseteq Blocks
    /\ \A d \in Deployments : d \in [start : Int, timeout : Int, startHeight : Int,
                                     timeoutHeight : Int]

VARIABLES
    dep,        \* the deployment
    signals,    \* the blocks whose nVersion signals it
    cache       \* ThresholdConditionCache

vars == <<dep, signals, cache>>

Init ==
    /\ dep \in Deployments
    /\ signals \in SUBSET Voters
    /\ cache = [b \in {} |-> "DEFINED"]

-----------------------------------------------------------------------------
fHeightBased == dep.start = 0 /\ dep.timeout = 0

GetAncestor(b, h) ==
    IF h < 0 \/ h > Height[b] THEN NoBlock ELSE CHOOSE a \in Chain[b] : Height[a] = h

\* The last block before the period of the block after b.
PeriodParent(b) ==
    IF b = NoBlock THEN NoBlock ELSE GetAncestor(b, Height[b] - ((Height[b] + 1) % nPeriod))

PreviousPeriodParent(p) == GetAncestor(p, Height[p] - nPeriod)

PeriodParents == {PeriodParent(b) : b \in Blocks} \cup {NoBlock}

BeforeStart(p) ==
    IF fHeightBased THEN Height[p] + 1 < dep.startHeight ELSE MedianTime[p] < dep.start

AfterTimeout(p) ==
    IF fHeightBased THEN Height[p] + 1 >= dep.timeoutHeight ELSE MedianTime[p] >= dep.timeout

Count(p) ==
    Cardinality({b \in Chain[p] \cap signals : Height[b] > Height[p] - nPeriod})

\* Mutant: the timeout is looked at before the count.
StateAfterTimeoutFirst(state, p) ==
    CASE state = "DEFINED" -> IF BeforeStart(p) THEN "DEFINED" ELSE "STARTED"
      [] state = "STARTED" -> IF AfterTimeout(p)
                              THEN IF fHeightBased THEN "LOCKED_IN" ELSE "FAILED"
                              ELSE IF Count(p) >= nThreshold THEN "LOCKED_IN" ELSE "STARTED"
      [] state = "LOCKED_IN" -> "ACTIVE"
      [] OTHER -> state

\* The switch: the state of the period after p from the state of the one that
\* ends with p.
StateAfter(state, p) ==
    CASE state = "DEFINED" -> IF BeforeStart(p) THEN "DEFINED" ELSE "STARTED"
      [] state = "STARTED" -> IF Count(p) >= nThreshold THEN "LOCKED_IN"
                              ELSE IF ~AfterTimeout(p) THEN "STARTED"
                              ELSE IF fHeightBased THEN "LOCKED_IN" ELSE "FAILED"
      [] state = "LOCKED_IN" -> "ACTIVE"
      [] OTHER -> state

\* The walk ends here: the state is known without its predecessor.
Known(c, p) == p \in DOMAIN c \/ p = NoBlock \/ BeforeStart(p)

\* The states GetStateFor computes with cache c, by period parent.
Computed(c) ==
    LET f[p \in PeriodParents] ==
          IF p \in DOMAIN c THEN c[p]
          ELSE IF Known(c, p) THEN "DEFINED"
          ELSE StateAfter(f[PreviousPeriodParent(p)], p)
    IN f

\* The period parents whose states GetStateFor stores on the way to p.
Walk(c, p) ==
    LET w[q \in PeriodParents] ==
          IF q \in DOMAIN c THEN {}
          ELSE IF Known(c, q) THEN {q}
          ELSE {q} \cup w[PreviousPeriodParent(q)]
    IN w[p]

Filled(c, p) ==
    [q \in DOMAIN c \cup Walk(c, p) |-> Computed(c)[q]]

\* What GetStateFor returns ...
StateFor(c, b) ==
    CASE dep.start = ALWAYS_ACTIVE -> "ACTIVE"
      [] dep.start = NEVER_ACTIVE -> "FAILED"
      [] OTHER -> Computed(c)[PeriodParent(b)]

\* ... and the cache it leaves.
CacheAfter(c, b) ==
    IF dep.start \in {ALWAYS_ACTIVE, NEVER_ACTIVE} THEN c ELSE Filled(c, PeriodParent(b))

GetStateFor(b) ==
    /\ cache' = CacheAfter(cache, b)
    /\ UNCHANGED <<dep, signals>>

\* Mutant: the loop goes on to the first period.
SinceFirstPeriod(c, b) == IF StateFor(c, b) = "DEFINED" THEN 0 ELSE nPeriod

\* GetStateSinceHeightFor: back over the periods with the same state.  Its first
\* call of GetStateFor is the one that fills the cache.
StateSinceHeight(c, b) ==
    LET back[p \in PeriodParents \ {NoBlock}] ==
          IF PreviousPeriodParent(p) # NoBlock
             /\ Computed(c)[PreviousPeriodParent(p)] = Computed(c)[p]
          THEN back[PreviousPeriodParent(p)]
          ELSE Height[p] + 1
    IN IF dep.start \in {ALWAYS_ACTIVE, NEVER_ACTIVE} \/ StateFor(c, b) = "DEFINED" THEN 0
       ELSE back[PeriodParent(b)]

\* UnloadBlockIndex.
Clear ==
    /\ cache' = [b \in {} |-> "DEFINED"]
    /\ UNCHANGED <<dep, signals>>

Next == (\E b \in Blocks \cup {NoBlock} : GetStateFor(b)) \/ Clear

Spec == Init /\ [][Next]_vars

-----------------------------------------------------------------------------
(* Reference: the state of the period after p from the whole chain, without *)
(* a cache and without a walk.                                              *)

Lowest(S) == CHOOSE e \in S : \A x \in S : Height[e] <= Height[x]

Reference(p) ==
    LET started == {e \in (PeriodParents \ {NoBlock}) \cap Chain[p] : ~BeforeStart(e)}
        decided == {e \in started \ {Lowest(started)} :
                       Count(e) >= nThreshold \/ AfterTimeout(e)}
        won == Count(Lowest(decided)) >= nThreshold \/ fHeightBased
    IN CASE p = NoBlock -> "DEFINED"
         [] p # NoBlock /\ started = {} -> "DEFINED"
         [] p # NoBlock /\ started # {} /\ decided = {} -> "STARTED"
         [] OTHER -> IF ~won THEN "FAILED"
                     ELSE IF Lowest(decided) = p THEN "LOCKED_IN" ELSE "ACTIVE"

Fixed == dep.start \in {ALWAYS_ACTIVE, NEVER_ACTIVE}

-----------------------------------------------------------------------------
(* Properties.                                                             *)

\* The cache holds period parents only, and their states.
TypeOK ==
    /\ DOMAIN cache \subseteq PeriodParents
    /\ \A p \in DOMAIN cache :
          cache[p] \in {"DEFINED", "STARTED", "LOCKED_IN", "ACTIVE", "FAILED"}

\* Whatever was asked before, on whichever branch, GetStateFor answers what the
\* whole chain gives: the shared cache never shows.
AnswerExact ==
    TypeOK /\ (~Fixed => \A b \in Blocks : StateFor(cache, b) = Reference(PeriodParent(b)))

\* GetStateSinceHeightFor: the first height from which on every block of the chain
\* has the state of the block after b.
SinceHeightExact ==
    \A b \in Blocks :
        LET same == {a \in Chain[b] : \A x \in Chain[b] : Height[x] >= Height[a] =>
                        Reference(PeriodParent(x)) = Reference(PeriodParent(b))}
        IN ~Fixed /\ Reference(PeriodParent(b)) # "DEFINED" =>
              StateSinceHeight(cache, b) = Height[Lowest(same)] + 1

=============================================================================

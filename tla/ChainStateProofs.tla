-------------------------- MODULE ChainStateProofs --------------------------
(***************************************************************************)
(* The active chain holds no failed block, and the failure flags of the    *)
(* block index agree with m_failed_blocks, for every block tree, whatever  *)
(* the work of its blocks and the order in which they arrive.              *)
(*                                                                         *)
(* One case has to be left out: a crash during or after invalidateblock    *)
(* may bring back a tip, from the coins database, that is marked as        *)
(* failed in the block index, which was written before.                    *)
(*                                                                         *)
(* Then setBlockIndexCandidates and the choice of the active chain: the    *)
(* candidates are the linked blocks without a failed ancestor that sort at *)
(* least as high as the tip, m_blocks_unlinked holds every block that      *)
(* waits for the data of an ancestor, and when no call is running and none *)
(* is due no known chain sorts better than the active one.                 *)
(***************************************************************************)
EXTENDS ChainState, FiniteSetTheorems, TLAPS

Phases == {"idle", "active", "finding", "disconnecting", "connecting", "invalidating"}

Indexes == [known : SUBSET Blocks, data : SUBSET Blocks, linked : SUBSET Blocks,
            scripts : SUBSET Blocks, failedValid : SUBSET Blocks, failedChild : SUBSET Blocks]

Calls == [phase : Phases, target : Blocks \cup {NoBlock}, start : Blocks \cup {NoBlock},
          oldTip : Blocks \cup {NoBlock}, mark : Blocks \cup {NoBlock}, byWork : SUBSET Blocks]

Types ==
    /\ idx \in Indexes /\ act \in Calls
    /\ failedBlocks \subseteq Blocks /\ unlinked \subseteq Blocks /\ candidates \subseteq Blocks
    /\ tip \in Blocks /\ coinsTip \in Blocks

\* ActivateBestChain has chosen a target, and may have released cs_main since.
HasTarget ==
    /\ act.phase \in {"active", "finding", "disconnecting", "connecting"}
    /\ act.target # NoBlock

Unfailed(b) == Chain[b] \cap Failed(idx) = {}

\* Whatever may become the tip, the candidates included, has all its data: a block
\* that fails ContextualCheckBlock when it arrives is not among its ancestors.
HaveData ==
    /\ unlinked \subseteq idx.data
    /\ \A b \in candidates \cup idx.linked \cup act.byWork \cup {tip, coinsTip} :
          Chain[b] \subseteq idx.data
    /\ HasTarget => Chain[act.target] \subseteq idx.data

\* No failed block is below the tip, or below the target that ActivateBestChain keeps.
NoneFailed ==
    /\ Unfailed(tip)
    /\ HasTarget => Unfailed(act.target)
    /\ Invalidated = {} => Unfailed(coinsTip)
    /\ (Chain[tip] \cup Chain[coinsTip]) \cap Invalid = {}

\* What the call under way relies on.
CallSound ==
    /\ act.phase \in {"disconnecting", "connecting"} => act.target # NoBlock
    /\ act.phase = "disconnecting" => tip \notin Chain[act.target]
    /\ act.phase = "invalidating" =>
          /\ Invalidated # {}
          /\ act.target \in Blocks \ {Genesis} /\ act.mark \in Blocks
          /\ act.target \in Chain[act.mark]

\* Every failure flag has its cause, unless the operator cleared it.
FlagsAgree ==
    /\ failedBlocks \subseteq idx.failedValid
    /\ Reconsidered = {} => \A b \in Failed(idx) : Chain[b] \cap idx.failedValid # {}

IInv == Types /\ HaveData /\ NoneFailed /\ CallSound /\ FlagsAgree

\* What the lemma about an action says.
KeepsIInv == IInv => IInv'

-----------------------------------------------------------------------------
(* Chains.                                                                 *)

\* A set of numbers that is not empty has a smallest one.
LEMMA SmallestExists ==
    ASSUME NEW S, S \subseteq Nat, S # {}
    PROVE  \E m \in S : \A k \in S : m <= k
<1>1. PICK m \in S : \A k \in S : ~ (<<k, m>> \in OpToRel(<, Nat))
  BY WFMin, NatLessThanWellFounded, Zenon
<1>2. ASSUME NEW k \in S  PROVE m <= k
  <2>1. <<k, m>> \in Nat \X Nat /\ <<k, m>>[1] = k /\ <<k, m>>[2] = m
    BY Zenon
  <2>2. ~ (k < m)
    BY <1>1, <2>1, Zenon DEF OpToRel
  <2> QED  BY <2>2
<1> QED  BY <1>2, Zenon

\* The ancestors of a block: a chain from the genesis block, in the order of the work.
ChainOf(b) ==
    /\ Chain[b] \subseteq Blocks /\ b \in Chain[b] /\ Genesis \in Chain[b]
    /\ \A c \in Chain[b] : /\ Chain[c] \subseteq Chain[b]
                           /\ c # b => Work[c] < Work[b]
    /\ \A c, d \in Chain[b] : c \in Chain[d] \/ d \in Chain[c]

\* There is no lowest block of which this fails.
LEMMA Chains == \A b \in Blocks : ChainOf(b)
<1> DEFINE Bad == {b \in Blocks : ~ChainOf(b)}
           Heights == {Height[b] : b \in Bad}
<1> SUFFICES ASSUME Bad # {}  PROVE FALSE
  BY Zenon
<1>1. Heights \subseteq Nat /\ Heights # {}
  BY BlockTree
<1>2. PICK m \in Heights : \A k \in Heights : m <= k
  <2> HIDE DEF Heights
  <2> QED  BY <1>1, SmallestExists, Zenon
<1>3. PICK b \in Bad : m = Height[b]
  BY Zenon
<1>4. b \in Blocks /\ ~ChainOf(b)
  BY Zenon
<1>5. b # Genesis
  BY <1>4, BlockTree DEF ChainOf
<1> DEFINE p == Parent[b]
<1>6. p \in Blocks
  BY <1>4, <1>5, BlockTree, ZenonT(60)
<1>7. Height[b] = Height[p] + 1 /\ Height[p] \in Nat /\ Work[p] < Work[b]
      /\ Chain[b] = Chain[p] \cup {b} /\ Work \in [Blocks -> Nat]
  BY <1>4, <1>5, <1>6, BlockTree, Zenon
<1>8. ChainOf(p)
  <2>1. p \in Bad => Height[p] \in Heights
    BY Zenon
  <2>2. p \in Bad => Height[b] <= Height[p]
    BY <1>2, <1>3, <2>1, Zenon
  <2> QED  BY <1>6, <1>7, <2>2
<1> HIDE DEF p, Bad, Heights
<1>9. ChainOf(b)
  <2>1. Chain[b] \subseteq Blocks /\ b \in Chain[b] /\ Genesis \in Chain[b]
    BY <1>4, <1>7, <1>8, Zenon DEF ChainOf
  <2>2. ASSUME NEW c \in Chain[p]  PROVE Chain[c] \subseteq Chain[p] /\ Work[c] < Work[b]
    <3>1. c \in Blocks /\ Chain[c] \subseteq Chain[p] /\ (c # p => Work[c] < Work[p])
      BY <1>8, Zenon DEF ChainOf
    <3> QED  BY <1>4, <1>6, <1>7, <3>1
  <2>3. \A c \in Chain[b] : Chain[c] \subseteq Chain[b] /\ (c # b => Work[c] < Work[b])
    BY <1>7, <2>2, Zenon
  <2>4. \A c, d \in Chain[b] : c \in Chain[d] \/ d \in Chain[c]
    BY <1>7, <1>8, <2>1, Zenon DEF ChainOf
  <2> QED  BY <2>1, <2>3, <2>4, Zenon DEF ChainOf
<1> QED  BY <1>4, <1>9, Zenon

\* The parent of a block is one of its ancestors, and the block none of its parent's.
LEMMA ParentBelow ==
    ASSUME NEW b \in Blocks, b # Genesis
    PROVE  /\ Parent[b] \in Blocks /\ Parent[b] \in Chain[b]
           /\ Chain[b] = Chain[Parent[b]] \cup {b} /\ b \notin Chain[Parent[b]]
<1>1. Parent[b] \in Blocks
  BY BlockTree, Zenon
<1>2. Chain[b] = Chain[Parent[b]] \cup {b} /\ Parent[b] \in Chain[Parent[b]]
  BY <1>1, BlockTree, Chains, Zenon DEF ChainOf
<1>3. Work[b] > Work[Parent[b]] /\ Work[b] \in Nat /\ Work[Parent[b]] \in Nat
  BY <1>1, BlockTree, Zenon
<1>4. b \in Chain[Parent[b]] /\ b # Parent[b] => Work[b] < Work[Parent[b]]
  BY <1>1, Chains, Zenon DEF ChainOf
<1> QED  BY <1>1, <1>2, <1>3, <1>4

\* A chain without a failed block has none either once the blocks above a failed one
\* are marked (AcceptBlockHeader, FindMostWorkChain).
LEMMA MarkedAbove ==
    ASSUME NEW p \in Blocks, NEW f \in Chain[p], f \in Failed(idx),
           Failed(idx') = Failed(idx) \cup (Chain[p] \ Chain[f])
    PROVE  \A b \in Blocks : Unfailed(b) => Unfailed(b)'
<1> SUFFICES ASSUME NEW b \in Blocks, Chain[b] \cap Failed(idx) = {},
                    NEW x \in Chain[b], x \in Chain[p], x \notin Chain[f]
             PROVE  FALSE
  BY Zenon DEF Unfailed
<1>1. f \in Chain[x]
  BY Chains, Zenon DEF ChainOf
<1>2. Chain[x] \subseteq Chain[b]
  BY Chains, Zenon DEF ChainOf
<1> QED  BY <1>1, <1>2, Zenon

\* ... and the blocks marked have the failed one below them.
LEMMA MarkedHaveCause ==
    ASSUME NEW p \in Blocks, NEW f \in Chain[p], NEW V, Chain[f] \cap V # {},
           NEW x \in Chain[p] \ Chain[f]
    PROVE  Chain[x] \cap V # {}
<1>1. f \in Chain[x] /\ x \in Blocks
  BY Chains, Zenon DEF ChainOf
<1>2. Chain[f] \subseteq Chain[x]
  BY <1>1, Chains, Zenon DEF ChainOf
<1> QED  BY <1>2, Zenon

\* A chain is without failed blocks when the one above it is.
LEMMA UnfailedBelow ==
    ASSUME NEW b \in Blocks, NEW c \in Chain[b], NEW F, Chain[b] \cap F = {}
    PROVE  c \in Blocks /\ Chain[c] \cap F = {}
BY Chains, Zenon DEF ChainOf

-----------------------------------------------------------------------------
(* Init, and the arrival of headers and blocks.                            *)

\* Init establishes the invariant; then one lemma for each action.
LEMMA InitIInv == Init => IInv
<1> SUFFICES ASSUME Init  PROVE IInv
  BY Zenon
<1> USE BlockTree DEF Init, NoCall
<1>1. Types
  BY Zenon DEF Types, Calls, Indexes, Phases
<1>2. HaveData
  BY Zenon DEF HaveData, HasTarget
<1>3. NoneFailed
  BY OperatorInput DEF NoneFailed, HasTarget, Unfailed, Failed
<1>4. CallSound
  BY Zenon DEF CallSound
<1>5. FlagsAgree
  BY Zenon DEF FlagsAgree, Failed
<1> QED  BY <1>1, <1>2, <1>3, <1>4, <1>5, Zenon DEF IInv

LEMMA StutterIInv == IInv /\ UNCHANGED vars => IInv'
BY Zenon DEF IInv, vars, Types, HaveData, NoneFailed, CallSound, FlagsAgree, HasTarget, Unfailed,
       Failed

LEMMA HeadersIInv ==
    ASSUME NEW b \in Blocks, ProcessNewBlockHeaders(b)  PROVE KeepsIInv
<1> SUFFICES ASSUME IInv  PROVE IInv'
  BY Zenon DEF KeepsIInv
<1> USE DEF ProcessNewBlockHeaders
<1>1. Types'
  BY Zenon DEF IInv, Types, Calls, Indexes
<1>2. /\ idx'.data = idx.data /\ idx'.linked = idx.linked
      /\ idx'.failedValid = idx.failedValid /\ Failed(idx') = Failed(idx)
  BY Zenon DEF IInv, Types, Calls, Indexes, Failed
<1>3. HaveData'
  BY <1>2, Zenon DEF IInv, HaveData, HasTarget
<1>4. NoneFailed'
  BY <1>2, Zenon DEF IInv, NoneFailed, HasTarget, Unfailed
<1>5. CallSound'
  BY Zenon DEF IInv, CallSound
<1>6. FlagsAgree'
  BY <1>2, Zenon DEF IInv, FlagsAgree
<1> QED  BY <1>1, <1>3, <1>4, <1>5, <1>6, Zenon DEF IInv

LEMMA RejectIInv == ASSUME NEW b \in Blocks, RejectHeader(b)  PROVE KeepsIInv
<1> SUFFICES ASSUME IInv  PROVE IInv'
  BY Zenon DEF KeepsIInv
<1> DEFINE p == Parent[b]
<1>1. p \in Blocks
  BY Zenon DEF IInv, Types, Calls, Indexes, RejectHeader
<1>2. PICK f \in FailedBelow(b) :
          idx' = [idx EXCEPT !.failedChild = @ \cup (Chain[p] \ Chain[f])]
  BY Zenon DEF RejectHeader
<1>3. f \in failedBlocks /\ f \in Chain[p]
  BY Zenon DEF FailedBelow
<1>4. f \in Failed(idx) /\ f \in idx.failedValid /\ f \in Blocks
  BY <1>3, Zenon DEF IInv, FlagsAgree, Failed, Types, Calls, Indexes
<1>5. /\ idx'.data = idx.data /\ idx'.linked = idx.linked
      /\ idx'.failedValid = idx.failedValid
      /\ Failed(idx') = Failed(idx) \cup (Chain[p] \ Chain[f])
  BY <1>2, Zenon DEF IInv, Types, Calls, Indexes, Failed
<1>6. UNCHANGED <<failedBlocks, unlinked, candidates, tip, coinsTip, act>>
  BY Zenon DEF RejectHeader
<1>7. Types'
  <2>1. Chain[p] \subseteq Blocks
    BY <1>1, Chains, Zenon DEF ChainOf
  <2> HIDE DEF p
  <2> QED  BY <1>2, <1>6, <2>1, Zenon DEF IInv, Types, Calls, Indexes
<1>8. \A c \in Blocks : Unfailed(c) => Unfailed(c)'
  <2> HIDE DEF p
  <2> QED  BY <1>1, <1>3, <1>4, <1>5, MarkedAbove, Zenon
<1>9. HaveData'
  BY <1>5, <1>6, Zenon DEF IInv, HaveData, HasTarget
<1>10. NoneFailed'
  BY <1>6, <1>8, Zenon DEF IInv, NoneFailed, HasTarget, Types, Calls, Indexes
<1>11. CallSound'
  BY <1>6, Zenon DEF IInv, CallSound
<1>12. FlagsAgree'
  <2>1. f \in Chain[f]
    BY <1>4, Chains, Zenon DEF ChainOf
  <2>2. \A x \in Chain[p] \ Chain[f] : Chain[x] \cap idx.failedValid # {}
    BY <1>1, <1>3, <1>4, <2>1, MarkedHaveCause, Zenon
  <2> HIDE DEF p
  <2> QED  BY <1>5, <1>6, <2>2, Zenon DEF IInv, FlagsAgree
<1> QED  BY <1>7, <1>9, <1>10, <1>11, <1>12, Zenon DEF IInv

\* What a block links when it arrives has all its data.
LEMMA LinkedHaveData ==
    ASSUME IInv, NEW b \in Blocks, NEW d \in NewlyLinked(b)
    PROVE  d \in Blocks /\ Chain[d] \subseteq idx.data \cup {b}
<1>1. Parent[b] \in idx.linked
  BY Zenon DEF NewlyLinked
<1>2. b # Genesis /\ Parent[b] \in Blocks
  BY <1>1, BlockTree DEF IInv, Types, Calls, Indexes
<1>3. Chain[b] \subseteq idx.data \cup {b}
  <2>1. Chain[Parent[b]] \subseteq idx.data
    BY <1>1, Zenon DEF IInv, HaveData
  <2>2. Chain[b] = Chain[Parent[b]] \cup {b}
    BY <1>2, ParentBelow, Zenon
  <2> QED  BY <2>1, <2>2, Zenon
<1>4. CASE d = b
  BY <1>3, <1>4, Zenon
<1>5. CASE d # b
  <2>1. d \in idx.known /\ Chain[d] \ Chain[b] \subseteq unlinked
    BY <1>1, <1>5, Zenon DEF NewlyLinked, Descendants
  <2> QED  BY <1>3, <2>1, Zenon DEF IInv, HaveData, Types, Calls, Indexes
<1> QED  BY <1>4, <1>5, Zenon

LEMMA NewBlockIInv ==
    ASSUME NEW b \in Blocks, NEW requested \in BOOLEAN, ProcessNewBlock(b, requested)
    PROVE  KeepsIInv
<1> SUFFICES ASSUME IInv  PROVE IInv'
  BY Zenon DEF KeepsIInv
<1>1. UNCHANGED <<failedBlocks, tip, coinsTip, act>> /\ b \notin idx.data
  BY Zenon DEF ProcessNewBlock
<1>2. CASE ReceivedBlockTransactions(b)
  <2> DEFINE N == NewlyLinked(b)
  <2>1. /\ candidates' \subseteq candidates \cup N
        /\ idx' = [idx EXCEPT !.known = @ \cup {b}, !.data = @ \cup {b}, !.linked = @ \cup N]
        /\ unlinked' \subseteq unlinked \cup {b}
    BY <1>2, Zenon DEF ReceivedBlockTransactions
  <2>2. \A d \in N : d \in Blocks /\ Chain[d] \subseteq idx.data \cup {b}
    BY LinkedHaveData, Zenon
  <2> HIDE DEF N
  <2>3. Types'
    BY <1>1, <2>1, <2>2, ZenonT(60) DEF IInv, Types, Calls, Indexes
  <2>4. /\ idx'.data = idx.data \cup {b} /\ idx'.linked = idx.linked \cup N
        /\ idx'.failedValid = idx.failedValid /\ Failed(idx') = Failed(idx)
    BY <2>1, Zenon DEF IInv, Types, Calls, Indexes, Failed
  <2>5. HaveData'
    BY <1>1, <2>1, <2>2, <2>4, Zenon DEF IInv, HaveData, HasTarget
  <2>6. NoneFailed'
    BY <1>1, <2>4, Zenon DEF IInv, NoneFailed, HasTarget, Unfailed
  <2>7. CallSound'
    BY <1>1, Zenon DEF IInv, CallSound
  <2>8. FlagsAgree'
    BY <1>1, <2>4, Zenon DEF IInv, FlagsAgree
  <2> QED  BY <2>3, <2>5, <2>6, <2>7, <2>8, Zenon DEF IInv
<1>3. CASE /\ idx' = [idx EXCEPT !.known = @ \cup {b}, !.failedValid = @ \cup {b}]
           /\ UNCHANGED <<unlinked, candidates>>
  <2>1. Types'
    BY <1>1, <1>3, Zenon DEF IInv, Types, Calls, Indexes
  <2>2. /\ idx'.data = idx.data /\ idx'.linked = idx.linked
        /\ idx'.failedValid = idx.failedValid \cup {b} /\ Failed(idx') = Failed(idx) \cup {b}
    BY <1>3, Zenon DEF IInv, Types, Calls, Indexes, Failed
  <2>3. HaveData'
    BY <1>1, <1>3, <2>2, Zenon DEF IInv, HaveData, HasTarget
  <2>4. \A c : Chain[c] \subseteq idx.data /\ Unfailed(c) => Unfailed(c)'
    BY <1>1, <2>2, Zenon DEF Unfailed
  <2>5. NoneFailed'
    BY <1>1, <2>4, Zenon DEF IInv, NoneFailed, HasTarget, HaveData
  <2>6. CallSound'
    BY <1>1, Zenon DEF IInv, CallSound
  <2>7. FlagsAgree'
    <3>1. b \in Chain[b]
      BY Chains, Zenon DEF ChainOf
    <3> QED  BY <1>1, <2>2, <3>1, Zenon DEF IInv, FlagsAgree
  <2> QED  BY <2>1, <2>3, <2>5, <2>6, <2>7, Zenon DEF IInv
<1>4. CASE idx' = [idx EXCEPT !.known = @ \cup {b}] /\ UNCHANGED <<unlinked, candidates>>
  <2>1. Types'
    BY <1>1, <1>4, Zenon DEF IInv, Types, Calls, Indexes
  <2>2. /\ idx'.data = idx.data /\ idx'.linked = idx.linked
        /\ idx'.failedValid = idx.failedValid /\ Failed(idx') = Failed(idx)
    BY <1>4, Zenon DEF IInv, Types, Calls, Indexes, Failed
  <2>3. HaveData' /\ CallSound'
    BY <1>1, <1>4, <2>2, Zenon DEF IInv, HaveData, HasTarget, CallSound
  <2>4. NoneFailed' /\ FlagsAgree'
    BY <1>1, <2>2, Zenon DEF IInv, NoneFailed, HasTarget, Unfailed, FlagsAgree
  <2> QED  BY <2>1, <2>3, <2>4, Zenon DEF IInv
<1> QED  BY <1>2, <1>3, <1>4, Zenon DEF ProcessNewBlock

-----------------------------------------------------------------------------
(* ActivateBestChain.                                                      *)

\* A new state of the call that is sound for the tip t: it has no target, or one whose
\* chain is complete and without a failed block.
Proper(a, t) ==
    /\ a \in Calls
    /\ a.phase # "invalidating" /\ a.byWork \subseteq act.byWork
    /\ a.target = NoBlock \/ (Chain[a.target] \subseteq idx.data /\ Unfailed(a.target))
    /\ a.phase \in {"disconnecting", "connecting"} => a.target # NoBlock
    /\ a.phase = "disconnecting" => t \notin Chain[a.target]

\* No call is a sound one.
LEMMA NoCallProper == Proper(NoCall, tip) /\ Proper(NoCall, tip')
BY Zenon DEF Proper, NoCall, Calls, Phases

\* A step that begins towards a sound target.
LEMMA BeginStepProper ==
    ASSUME IInv, NEW x \in Blocks, act.phase \in {"active", "finding"},
           Chain[x] \subseteq idx.data, Unfailed(x), BeginStep(x)
    PROVE  Proper(act', tip)
<1>1. CASE x = tip
  BY <1>1, NoCallProper, Zenon DEF BeginStep
<1>2. CASE x # tip
  <2>1. Start \in Blocks \cup {NoBlock} /\ tip \in Blocks
    BY Zenon DEF Start, IInv, Types, Calls, Indexes
  <2>2. PICK p \in {"connecting", "disconnecting"} :
          /\ act' = [act EXCEPT !.phase = p, !.target = x, !.start = Start, !.oldTip = tip]
          /\ p = "disconnecting" => tip \notin Chain[x]
    BY <1>2, Zenon DEF BeginStep
  <2>3. act \in Calls
    BY Zenon DEF IInv, Types, Indexes, Calls
  <2>4. /\ act'.phase = p /\ act'.target = x /\ act'.byWork = act.byWork
        /\ act' \in Calls
    BY <2>1, <2>2, <2>3, Zenon DEF Calls, Phases
  <2> QED  BY <2>2, <2>4, BlockTree, Zenon DEF Proper
<1> QED  BY <1>1, <1>2, Zenon

\* A step that ends.
LEMMA AfterStepProper ==
    ASSUME IInv, NEW t, NEW x \in Blocks \cup {NoBlock}, act.phase # "invalidating",
           x = NoBlock \/ (Chain[x] \subseteq idx.data /\ Unfailed(x))
    PROVE  Proper(AfterStep(t, x), t)
<1>1. [act EXCEPT !.phase = "finding", !.target = x] \in Calls
  BY Zenon DEF IInv, Types, Indexes, Calls, Phases
<1>2. CASE AfterStep(t, x) = [act EXCEPT !.phase = "finding", !.target = x]
  BY <1>1, <1>2, Zenon DEF Proper, IInv, Types, Indexes, Calls
<1>3. CASE AfterStep(t, x) = NoCall
  BY <1>3 DEF Proper, NoCall, Calls, Phases
<1>4. CASE AfterStep(t, x) = [NoCall EXCEPT !.phase = "active", !.target = x]
  BY <1>4, ZenonT(60) DEF Proper, NoCall, Calls, Phases
<1> QED  BY <1>2, <1>3, <1>4, Zenon DEF AfterStep

SameFlags ==
    /\ idx' \in Indexes
    /\ idx'.data = idx.data /\ idx'.linked = idx.linked
    /\ idx'.failedValid = idx.failedValid /\ idx'.failedChild = idx.failedChild

SoundTip(t) ==
    t \in Blocks /\ Chain[t] \subseteq idx.data /\ Unfailed(t) /\ Chain[t] \cap Invalid = {}

\* The tip is a block that may be the tip.
LEMMA TipSound == IInv => SoundTip(tip)
BY Zenon DEF IInv, Types, Calls, Indexes, HaveData, NoneFailed, SoundTip

\* So is every block below one that may be the tip.
LEMMA BelowSound ==
    ASSUME NEW t, SoundTip(t), NEW c \in Chain[t]  PROVE SoundTip(c)
<1>1. c \in Blocks /\ Chain[c] \subseteq Chain[t]
  BY Chains, Zenon DEF SoundTip, ChainOf
<1> QED  BY <1>1, Zenon DEF SoundTip, Unfailed

\* A step of ActivateBestChain that marks nothing.
LEMMA CallIInv ==
    ASSUME SameFlags, UNCHANGED <<failedBlocks, unlinked, coinsTip>>,
           candidates' \subseteq candidates, SoundTip(tip'), Proper(act', tip')
    PROVE  KeepsIInv
<1> SUFFICES ASSUME IInv  PROVE IInv'
  BY Zenon DEF KeepsIInv
<1>1. Failed(idx') = Failed(idx)
  BY Zenon DEF SameFlags, Failed
<1>2. Types'
  BY Zenon DEF IInv, Types, SameFlags, Indexes, Proper, Calls, SoundTip
<1>3. HaveData'
  BY Zenon DEF IInv, HaveData, HasTarget, SameFlags, Proper, SoundTip
<1>4. NoneFailed'
  BY <1>1, Zenon DEF IInv, NoneFailed, HasTarget, Unfailed, Proper, SoundTip
<1>5. CallSound'
  BY Zenon DEF CallSound, Proper
<1>6. FlagsAgree'
  BY <1>1, Zenon DEF IInv, FlagsAgree, SameFlags
<1> QED  BY <1>2, <1>3, <1>4, <1>5, <1>6, Zenon DEF IInv

\* An index that does not change keeps its failure flags.
LEMMA UnchangedFlags == IInv /\ idx' = idx => SameFlags
BY Zenon DEF IInv, Types, Calls, SameFlags, Indexes

LEMMA StartIInv == ASSUME StartActivation  PROVE KeepsIInv
<1> SUFFICES ASSUME IInv  PROVE IInv'
  BY Zenon DEF KeepsIInv
<1>1. Proper(act', tip)
  BY Zenon DEF StartActivation, Proper, NoCall, Calls, Phases
<1> QED  BY <1>1, CallIInv, UnchangedFlags, TipSound, Zenon DEF StartActivation, KeepsIInv

LEMMA ContinueIInv == ASSUME ContinueToTarget  PROVE KeepsIInv
<1> SUFFICES ASSUME IInv  PROVE IInv'
  BY Zenon DEF KeepsIInv
<1>1. /\ act.target \in Blocks /\ Chain[act.target] \subseteq idx.data
      /\ Unfailed(act.target)
  BY Zenon DEF ContinueToTarget, IInv, Types, Calls, Indexes, HaveData, NoneFailed, HasTarget
<1>2. Proper(act', tip)
  BY <1>1, BeginStepProper, Zenon DEF ContinueToTarget
<1> QED  BY <1>2, CallIInv, UnchangedFlags, TipSound, Zenon DEF ContinueToTarget, KeepsIInv

LEMMA FindIInv == ASSUME FindMostWorkChain  PROVE KeepsIInv
<1> SUFFICES ASSUME IInv  PROVE IInv'
  BY Zenon DEF KeepsIInv
<1>1. Proper(act', tip)
  <2>1. CASE candidates = {}
    BY <2>1, NoCallProper, Zenon DEF FindMostWorkChain
  <2>2. CASE candidates # {}
    <3>1. PICK x \in candidates :
              (Chain[x] \ Chain[tip]) \cap Failed(idx) = {} /\ BeginStep(x)
      BY <2>2, Zenon DEF FindMostWorkChain
    <3>2. x \in Blocks /\ Chain[x] \subseteq idx.data
      BY Zenon DEF IInv, Types, Calls, Indexes, HaveData
    <3>3. Unfailed(x)
      BY <3>1, Zenon DEF IInv, NoneFailed, Unfailed
    <3> QED  BY <3>1, <3>2, <3>3, BeginStepProper, Zenon DEF FindMostWorkChain
  <2> QED  BY <2>1, <2>2, Zenon
<1> QED  BY <1>1, CallIInv, UnchangedFlags, TipSound, Zenon DEF FindMostWorkChain, KeepsIInv

LEMMA DropIInv == ASSUME DropInvalidCandidate  PROVE KeepsIInv
<1> SUFFICES ASSUME IInv  PROVE IInv'
  BY Zenon DEF KeepsIInv
<1>1. PICK x \in candidates : \E f \in (Chain[x] \ Chain[tip]) \cap Failed(idx) :
          /\ candidates' = candidates \ ({f} \cup (Chain[x] \ Chain[f]))
          /\ idx' = [idx EXCEPT !.failedChild = @ \cup (Chain[x] \ Chain[f])]
  BY Zenon DEF DropInvalidCandidate
<1>2. PICK f \in Chain[x] \cap Failed(idx) :
          /\ candidates' \subseteq candidates
          /\ idx' = [idx EXCEPT !.failedChild = @ \cup (Chain[x] \ Chain[f])]
  BY <1>1, ZenonT(60)
<1>3. /\ act.phase \in {"active", "finding"} /\ act.target = NoBlock
      /\ act' = [act EXCEPT !.phase = "finding", !.start = Start]
      /\ UNCHANGED <<failedBlocks, unlinked, tip, coinsTip>>
  BY Zenon DEF DropInvalidCandidate
<1>4. x \in Blocks /\ Chain[x] \subseteq Blocks
  BY Chains, Zenon DEF IInv, Types, Calls, Indexes, ChainOf
<1>5. /\ idx'.data = idx.data /\ idx'.linked = idx.linked
      /\ idx'.failedValid = idx.failedValid
      /\ Failed(idx') = Failed(idx) \cup (Chain[x] \ Chain[f])
  BY <1>2, Zenon DEF IInv, Types, Calls, Indexes, Failed
<1>6. Start \in Blocks \cup {NoBlock}
  BY Zenon DEF Start, IInv, Types, Calls, Indexes
<1>7. act' \in Calls /\ act'.phase = "finding" /\ act'.target = NoBlock /\ act'.byWork = act.byWork
  BY <1>3, <1>6, ZenonT(60) DEF IInv, Types, Indexes, Calls, Phases
<1>8. \A c \in Blocks : Unfailed(c) => Unfailed(c)'
  BY <1>2, <1>4, <1>5, MarkedAbove, Zenon
<1>9. Types'
  BY <1>2, <1>3, <1>4, <1>7, Zenon DEF IInv, Types, Indexes, Calls
<1>10. HaveData'
  BY <1>2, <1>3, <1>5, <1>7, Zenon DEF IInv, HaveData, HasTarget
<1>11. NoneFailed'
  BY <1>3, <1>7, <1>8, Zenon DEF IInv, NoneFailed, HasTarget, Types, Calls, Indexes
<1>12. CallSound'
  BY <1>7, Zenon DEF CallSound
<1>13. FlagsAgree'
  <2>1. ASSUME Reconsidered = {}
        PROVE  \A y \in Chain[x] \ Chain[f] : Chain[y] \cap idx.failedValid # {}
    <3>1. Chain[f] \cap idx.failedValid # {}
      BY <2>1, Zenon DEF IInv, FlagsAgree
    <3> QED  BY <1>4, <3>1, MarkedHaveCause, Zenon
  <2> QED  BY <1>3, <1>5, <2>1, Zenon DEF IInv, FlagsAgree
<1> QED  BY <1>9, <1>10, <1>11, <1>12, <1>13, Zenon DEF IInv

LEMMA DisconnectIInv == ASSUME DisconnectTip  PROVE KeepsIInv
<1> SUFFICES ASSUME IInv  PROVE IInv'
  BY Zenon DEF KeepsIInv
<1>1. /\ act.phase = "disconnecting" /\ act.target \in Blocks /\ HasTarget
      /\ tip \in Blocks /\ tip \notin Chain[act.target]
  BY Zenon DEF DisconnectTip, IInv, Types, Calls, Indexes, CallSound, HasTarget
<1>2. tip # Genesis
  BY <1>1, Chains, Zenon DEF ChainOf
<1>3. tip' \in Chain[tip]
  BY <1>1, <1>2, ParentBelow, Zenon DEF DisconnectTip
<1>4. SoundTip(tip')
  BY <1>3, TipSound, BelowSound, Zenon
<1>5. Chain[act.target] \subseteq idx.data /\ Unfailed(act.target)
  BY <1>1, Zenon DEF IInv, HaveData, NoneFailed
<1>6. Proper(act', tip')
  <2>1. CASE tip' = act.target
    BY <1>1, <1>5, <2>1, AfterStepProper, Zenon DEF DisconnectTip
  <2>2. CASE tip' # act.target /\ tip' \in Chain[act.target]
    <3>1. act' = [act EXCEPT !.phase = "connecting"] /\ act \in Calls
      BY <2>2, Zenon DEF DisconnectTip, IInv, Types, Indexes, Calls
    <3> QED  BY <1>1, <1>5, <3>1, BlockTree, Zenon DEF Proper, Calls, Phases
  <2>3. CASE tip' # act.target /\ tip' \notin Chain[act.target]
    <3>1. act' = act /\ act \in Calls
      BY <2>3, Zenon DEF DisconnectTip, IInv, Types, Indexes, Calls
    <3> QED  BY <1>1, <1>5, <2>3, <3>1, BlockTree, Zenon DEF Proper
  <2> QED  BY <2>1, <2>2, <2>3, Zenon
<1> QED  BY <1>4, <1>6, CallIInv, UnchangedFlags, Zenon DEF DisconnectTip, KeepsIInv

\* The block that is about to be connected, and the target.
LEMMA ConnectingSound ==
    ASSUME IInv, NEW b \in Blocks, Connecting(b)
    PROVE  /\ act.phase = "connecting" /\ act.target \in Blocks
           /\ Chain[act.target] \subseteq idx.data /\ Unfailed(act.target)
           /\ Chain[b] = Chain[tip] \cup {b} /\ b \notin Chain[tip]
           /\ Chain[b] \subseteq idx.data /\ Unfailed(b)
<1>1. /\ act.phase = "connecting" /\ act.target \in Blocks /\ HasTarget
      /\ tip \in Blocks /\ Parent[b] = tip /\ b \in Chain[act.target]
  BY Zenon DEF Connecting, IInv, Types, Calls, Indexes, CallSound, HasTarget
<1>2. b # Genesis
  BY <1>1, BlockTree, Zenon
<1>3. Chain[act.target] \subseteq idx.data /\ Unfailed(act.target)
  BY <1>1, Zenon DEF IInv, HaveData, NoneFailed
<1>4. Chain[b] = Chain[tip] \cup {b} /\ b \notin Chain[tip]
  BY <1>1, <1>2, ParentBelow, Zenon
<1>5. Chain[b] \subseteq Chain[act.target]
  BY <1>1, Chains, Zenon DEF ChainOf
<1> QED  BY <1>1, <1>3, <1>4, <1>5, Zenon DEF Unfailed

LEMMA ConnectIInv == ASSUME NEW b \in Blocks, ConnectTip(b)  PROVE KeepsIInv
<1> SUFFICES ASSUME IInv  PROVE IInv'
  BY Zenon DEF KeepsIInv
<1>1. Connecting(b) /\ b \notin Invalid /\ tip' = b
  BY Zenon DEF ConnectTip
<1>2. SoundTip(tip')
  BY <1>1, ConnectingSound DEF SoundTip, IInv, NoneFailed
<1>3. SameFlags
  BY Zenon DEF ConnectTip, SameFlags, Indexes, IInv, Types, Calls
<1>4. Proper(act', tip')
  <2>1. CASE act' = AfterStep(b, act.target)
    BY <1>1, <2>1, ConnectingSound, AfterStepProper, Zenon
  <2>2. CASE act' = act
    <3>1. act \in Calls
      BY Zenon DEF IInv, Types, Indexes, Calls
    <3> QED  BY <1>1, <2>2, <3>1, ConnectingSound, BlockTree, Zenon DEF Proper
  <2> QED  BY <2>1, <2>2, Zenon DEF ConnectTip
<1>5. candidates' \subseteq candidates
  BY Zenon DEF ConnectTip, PruneBlockIndexCandidates
<1> QED  BY <1>2, <1>3, <1>4, <1>5, CallIInv, Zenon DEF ConnectTip, KeepsIInv

LEMMA MutatedIInv ==
    ASSUME NEW b \in Blocks, ConnectTipMutated(b)  PROVE KeepsIInv
<1> SUFFICES ASSUME IInv  PROVE IInv'
  BY Zenon DEF KeepsIInv
<1>1. act.phase = "connecting" /\ act' = AfterStep(tip, NoBlock)
  BY Zenon DEF ConnectTipMutated, Connecting
<1>2. Proper(act', tip)
  BY <1>1, AfterStepProper, Zenon
<1> QED  BY <1>2, CallIInv, UnchangedFlags, TipSound, Zenon DEF ConnectTipMutated, KeepsIInv

LEMMA InvalidIInv ==
    ASSUME NEW b \in Blocks, ConnectTipInvalid(b)  PROVE KeepsIInv
<1> SUFFICES ASSUME IInv  PROVE IInv'
  BY Zenon DEF KeepsIInv
<1>1. /\ Connecting(b) /\ b \in Invalid
      /\ idx' = [idx EXCEPT !.failedValid = @ \cup {b}]
      /\ failedBlocks' = failedBlocks \cup {b} /\ candidates' \subseteq candidates
      /\ act' = AfterStep(tip, NoBlock) /\ UNCHANGED <<unlinked, tip, coinsTip>>
  BY Zenon DEF ConnectTipInvalid
<1>2. act.phase = "connecting" /\ b \notin Chain[tip]
  BY <1>1, ConnectingSound, Zenon
<1>3. Proper(act', tip) /\ act'.target = NoBlock
  <2>1. Proper(act', tip)
    BY <1>1, <1>2, AfterStepProper, Zenon
  <2>2. act'.target = NoBlock
    BY <1>1, Zenon DEF AfterStep, NoCall, IInv, Types, Calls, Indexes
  <2> QED  BY <2>1, <2>2, Zenon
<1>4. /\ idx' \in Indexes /\ idx'.data = idx.data /\ idx'.linked = idx.linked
      /\ idx'.failedValid = idx.failedValid \cup {b} /\ Failed(idx') = Failed(idx) \cup {b}
  BY <1>1, Zenon DEF IInv, Types, Calls, Indexes, Failed
<1>5. Types'
  BY <1>1, <1>3, <1>4, Zenon DEF IInv, Types, Indexes, Proper, Calls
<1>6. HaveData'
  BY <1>1, <1>3, <1>4, Zenon DEF IInv, HaveData, HasTarget, Proper
<1>7. NoneFailed'
  BY <1>1, <1>2, <1>3, <1>4, ZenonT(60) DEF IInv, NoneFailed, HasTarget, Unfailed
<1>8. CallSound'
  BY <1>3, Zenon DEF CallSound, Proper
<1>9. FlagsAgree'
  <2>1. b \in Chain[b]
    BY Chains, Zenon DEF ChainOf
  <2> QED  BY <1>1, <1>4, <2>1, Zenon DEF IInv, FlagsAgree
<1> QED  BY <1>5, <1>6, <1>7, <1>8, <1>9, Zenon DEF IInv

-----------------------------------------------------------------------------
(* The commands of the operator.                                           *)

LEMMA StartInvalidateIInv ==
    ASSUME NEW b \in Blocks, StartInvalidate(b)  PROVE KeepsIInv
<1> SUFFICES ASSUME IInv  PROVE IInv'
  BY Zenon DEF KeepsIInv
<1>1. b \in Invalidated /\ b # Genesis /\ UNCHANGED <<idx, failedBlocks, unlinked, candidates,
                                                      tip, coinsTip>>
  BY Zenon DEF StartInvalidate
<1>2. PICK S \in SUBSET Usable(idx) :
          act' = [NoCall EXCEPT !.phase = "invalidating", !.target = b, !.mark = b, !.byWork = S]
  BY Zenon DEF StartInvalidate
<1>3. S \subseteq Blocks /\ \A c \in S : Chain[c] \subseteq idx.data
  BY Zenon DEF Usable, IInv, Types, Calls, Indexes, HaveData
<1>4. /\ act' \in Calls /\ act'.phase = "invalidating"
      /\ act'.target = b /\ act'.mark = b /\ act'.byWork = S
  BY <1>2, <1>3, ZenonT(60) DEF NoCall, Calls, Phases
<1>5. Types'
  BY <1>1, <1>4, Zenon DEF IInv, Types, Indexes, Calls
<1>6. HaveData'
  BY <1>1, <1>3, <1>4, Zenon DEF IInv, HaveData, HasTarget
<1>7. NoneFailed' /\ FlagsAgree'
  BY <1>1, <1>4, Zenon DEF IInv, NoneFailed, HasTarget, Unfailed, FlagsAgree
<1>8. CallSound'
  <2>1. b \in Chain[b]
    BY Chains, Zenon DEF ChainOf
  <2> QED  BY <1>1, <1>4, <2>1, Zenon DEF CallSound
<1> QED  BY <1>5, <1>6, <1>7, <1>8, Zenon DEF IInv

\* The block disconnected before is never the parent of the present tip and marked at
\* the same time, so that no mark of m_failed_blocks is taken back.
LEMMA InvalidateTipIInv == ASSUME InvalidateTip  PROVE KeepsIInv
<1> SUFFICES ASSUME IInv  PROVE IInv'
  BY Zenon DEF KeepsIInv
<1> DEFINE p == Parent[tip]
           found == {c \in act.byWork : ~Worse(seq, c, p)}
<1>1. /\ act.phase = "invalidating" /\ act.target \in Chain[tip] /\ tip' = p
      /\ candidates' = (candidates \ {tip}) \cup {p} \cup found
      /\ act' = [act EXCEPT !.mark = tip, !.byWork = @ \ found]
      /\ UNCHANGED <<failedBlocks, unlinked, coinsTip>>
  BY Zenon DEF InvalidateTip
<1>2. /\ tip \in Blocks /\ act.target \in Blocks \ {Genesis} /\ Invalidated # {}
  BY <1>1, Zenon DEF IInv, Types, Calls, Indexes, CallSound
<1>3. tip # Genesis
  BY <1>1, <1>2, BlockTree, Zenon
<1>4. p \in Blocks /\ p \in Chain[tip] /\ tip \notin Chain[p] /\ p # tip
  <2>1. p \in Blocks /\ p \in Chain[tip] /\ tip \notin Chain[p]
    BY <1>2, <1>3, ParentBelow, Zenon
  <2>2. p \in Chain[p]
    BY <2>1, Chains, Zenon DEF ChainOf
  <2> QED  BY <2>1, <2>2, Zenon
<1>5. SoundTip(p)
  BY <1>4, TipSound, BelowSound, Zenon
<1>6. idx' = [idx EXCEPT !.failedValid = @ \cup {tip}]
  <2>1. p \notin idx.failedValid
    BY <1>4, Zenon DEF IInv, NoneFailed, Unfailed, Failed
  <2>2. p \notin [idx EXCEPT !.failedValid = @ \cup {tip}].failedValid
    BY <1>4, <2>1, Zenon DEF IInv, Types, Calls, Indexes
  <2> QED  BY <2>2, Zenon DEF InvalidateTip
<1>7. /\ idx' \in Indexes /\ idx'.data = idx.data /\ idx'.linked = idx.linked
      /\ idx'.failedValid = idx.failedValid \cup {tip}
      /\ Failed(idx') = Failed(idx) \cup {tip}
  BY <1>2, <1>6, Zenon DEF IInv, Types, Calls, Indexes, Failed
<1>8. found \subseteq act.byWork
  BY Zenon
<1> HIDE DEF p, found
<1>9. /\ act' \in Calls /\ act'.phase = "invalidating" /\ act'.target = act.target
      /\ act'.mark = tip /\ act'.byWork \subseteq act.byWork
  BY <1>1, <1>2, Zenon DEF IInv, Types, Indexes, Calls
<1>10. Types'
  BY <1>1, <1>4, <1>7, <1>8, <1>9 DEF IInv, Types, Indexes, Calls
<1>11. HaveData'
  BY <1>1, <1>5, <1>7, <1>8, <1>9, Zenon DEF IInv, HaveData, HasTarget, SoundTip
<1>12. NoneFailed'
  BY <1>1, <1>2, <1>4, <1>5, <1>7, <1>9, Zenon DEF IInv, NoneFailed, HasTarget, SoundTip, Unfailed
<1>13. CallSound'
  BY <1>1, <1>2, <1>9, Zenon DEF CallSound
<1>14. FlagsAgree'
  <2>1. tip \in Chain[tip]
    BY <1>2, Chains, Zenon DEF ChainOf
  <2> QED  BY <1>1, <1>7, <2>1, Zenon DEF IInv, FlagsAgree
<1> QED  BY <1>10, <1>11, <1>12, <1>13, <1>14, Zenon DEF IInv

LEMMA FinishInvalidateIInv == ASSUME FinishInvalidate  PROVE KeepsIInv
<1> SUFFICES ASSUME IInv  PROVE IInv'
  BY Zenon DEF KeepsIInv
<1> DEFINE m == act.mark
<1>1. /\ act.phase = "invalidating" /\ act.target \notin Chain[tip]
      /\ idx' = [idx EXCEPT !.failedValid = @ \cup {m}]
      /\ failedBlocks' = failedBlocks \cup {m}
      /\ candidates' \subseteq candidates \cup Usable(idx')
      /\ act' = NoCall /\ UNCHANGED <<unlinked, tip, coinsTip>>
  BY Zenon DEF FinishInvalidate
<1>2. m \in Blocks /\ act.target \in Chain[m] /\ Invalidated # {} /\ tip \in Blocks
  BY <1>1, Zenon DEF IInv, CallSound, Types, Calls, Indexes
<1>3. m \notin Chain[tip]
  BY <1>1, <1>2, Chains, Zenon DEF ChainOf
<1> HIDE DEF m
<1>4. /\ idx' \in Indexes /\ idx'.data = idx.data /\ idx'.linked = idx.linked
      /\ idx'.failedValid = idx.failedValid \cup {m}
      /\ Failed(idx') = Failed(idx) \cup {m}
  BY <1>1, <1>2, Zenon DEF IInv, Types, Calls, Indexes, Failed
<1>5. Types'
  BY <1>1, <1>2, <1>4, Zenon DEF IInv, Types, Calls, Indexes, Usable, NoCall, Phases
<1>6. HaveData'
  BY <1>1, <1>4, Zenon DEF IInv, HaveData, HasTarget, NoCall, Usable
<1>7. NoneFailed'
  BY <1>1, <1>2, <1>3, <1>4, ZenonT(60) DEF IInv, NoneFailed, HasTarget, NoCall, Unfailed
<1>8. CallSound'
  BY <1>1, Zenon DEF CallSound, NoCall
<1>9. FlagsAgree'
  <2>1. m \in Chain[m]
    BY <1>2, Chains, Zenon DEF ChainOf
  <2> QED  BY <1>1, <1>4, <2>1 DEF IInv, FlagsAgree
<1> QED  BY <1>5, <1>6, <1>7, <1>8, <1>9, Zenon DEF IInv

LEMMA ReconsiderIInv ==
    ASSUME NEW b \in Blocks, ReconsiderBlock(b)  PROVE KeepsIInv
<1> SUFFICES ASSUME IInv  PROVE IInv'
  BY Zenon DEF KeepsIInv
<1>1. PICK all :
          /\ idx' = [idx EXCEPT !.failedValid = @ \ all, !.failedChild = @ \ all]
          /\ failedBlocks' = failedBlocks \ all
  BY Zenon DEF ReconsiderBlock
<1>2. /\ candidates' \subseteq candidates \cup Usable(idx') /\ Reconsidered # {}
      /\ UNCHANGED <<unlinked, tip, coinsTip, act>>
  BY Zenon DEF ReconsiderBlock
<1>3. /\ idx' \in Indexes /\ idx'.data = idx.data /\ idx'.linked = idx.linked
      /\ idx'.failedValid = idx.failedValid \ all /\ Failed(idx') \subseteq Failed(idx)
  BY <1>1, Zenon DEF IInv, Types, Calls, Indexes, Failed
<1>4. Types'
  BY <1>1, <1>2, <1>3, Zenon DEF IInv, Types, Calls, Indexes, Usable
<1>5. HaveData'
  BY <1>2, <1>3, Zenon DEF IInv, HaveData, HasTarget, Usable
<1>6. NoneFailed'
  BY <1>2, <1>3, Zenon DEF IInv, NoneFailed, HasTarget, Unfailed
<1>7. CallSound' /\ FlagsAgree'
  BY <1>1, <1>2, <1>3, Zenon DEF IInv, CallSound, FlagsAgree
<1> QED  BY <1>4, <1>5, <1>6, <1>7, Zenon DEF IInv

LEMMA PreciousIInv ==
    ASSUME NEW b \in Blocks, PreciousBlock(b)  PROVE KeepsIInv
<1> SUFFICES ASSUME IInv  PROVE IInv'
  BY Zenon DEF KeepsIInv
<1>1. /\ candidates' \subseteq candidates \cup Usable(idx)
      /\ UNCHANGED <<idx, failedBlocks, unlinked, tip, coinsTip, act>>
  BY Zenon DEF PreciousBlock, PruneBlockIndexCandidates
<1>2. Types' /\ HaveData'
  BY <1>1 DEF IInv, Types, Calls, Indexes, HaveData, HasTarget, Usable
<1>3. NoneFailed' /\ CallSound' /\ FlagsAgree'
  BY <1>1, Zenon DEF IInv, NoneFailed, HasTarget, Unfailed, Failed, CallSound, FlagsAgree
<1> QED  BY <1>2, <1>3, Zenon DEF IInv

-----------------------------------------------------------------------------
(* Restart.                                                                *)

LEMMA FlushIInv == ASSUME FlushCoins  PROVE KeepsIInv
<1> SUFFICES ASSUME IInv  PROVE IInv'
  BY Zenon DEF KeepsIInv
<1>1. coinsTip' = tip /\ UNCHANGED <<idx, failedBlocks, unlinked, candidates, tip, act>>
  BY Zenon DEF FlushCoins
<1>2. Types' /\ HaveData'
  BY <1>1, Zenon DEF IInv, Types, Calls, Indexes, HaveData, HasTarget
<1>3. NoneFailed' /\ CallSound' /\ FlagsAgree'
  BY <1>1, Zenon DEF IInv, NoneFailed, HasTarget, Unfailed, Failed, CallSound, FlagsAgree
<1> QED  BY <1>2, <1>3, Zenon DEF IInv

\* The tip found at the start is free of failed blocks: that of the coins database is,
\* after a crash, unless a block was invalidated.
LEMMA RestartIInv ==
    ASSUME ~Crashes \/ Invalidated = {}, NEW t \in Blocks, Restart(t)  PROVE KeepsIInv
<1> SUFFICES ASSUME IInv  PROVE IInv'
  BY Zenon DEF KeepsIInv
<1> DEFINE children == {b \in idx.known \ Failed(idx) : Chain[b] \cap Failed(idx) # {}}
<1>1. SoundTip(t)
  BY Zenon DEF Restart, IInv, Types, Calls, Indexes, HaveData, NoneFailed, SoundTip
<1>2. /\ idx' = Reloaded /\ failedBlocks' = {} /\ unlinked' \subseteq idx'.data
      /\ tip' = t /\ coinsTip' = t /\ candidates' \subseteq Usable(idx') /\ act' = NoCall
  BY Zenon DEF Restart, UnlinkedAfterLoad, PruneBlockIndexCandidates
<1>3. children \subseteq Blocks
  BY Zenon DEF IInv, Types, Calls, Indexes
<1>4. idx' = [idx EXCEPT !.failedChild = @ \cup children,
                         !.linked = {b \in idx.data : Chain[b] \subseteq idx.data}]
  BY <1>2, Zenon DEF Reloaded
<1>5. Chain[t] \cap children = {}
  <2>1. \A c \in Chain[t] : Chain[c] \subseteq Chain[t]
    BY Chains, Zenon DEF ChainOf
  <2> QED  BY <1>1, <2>1, Zenon DEF SoundTip, Unfailed
<1>6. \A b \in children : b \notin Failed(idx) /\ Chain[b] \cap Failed(idx) # {}
  BY Zenon
<1> HIDE DEF children
<1>7. /\ idx' \in Indexes /\ idx'.data = idx.data
      /\ idx'.linked = {b \in idx.data : Chain[b] \subseteq idx.data}
      /\ idx'.failedValid = idx.failedValid /\ Failed(idx') = Failed(idx) \cup children
  BY <1>3, <1>4, ZenonT(60) DEF IInv, Types, Calls, Indexes, Failed
<1>8. Types'
  BY <1>1, <1>2, <1>7, Zenon DEF IInv, Types, Calls, Indexes, SoundTip, Usable, NoCall, Phases
<1>9. HaveData'
  BY <1>1, <1>2, <1>7, ZenonT(60) DEF HaveData, HasTarget, SoundTip, Usable, NoCall
<1>10. NoneFailed'
  BY <1>1, <1>2, <1>5, <1>7, Zenon DEF NoneFailed, HasTarget, SoundTip, Unfailed, NoCall
<1>11. CallSound'
  BY <1>2, Zenon DEF CallSound, NoCall
<1>12. FlagsAgree'
  <2>1. ASSUME Reconsidered = {}, NEW b \in children  PROVE Chain[b] \cap idx.failedValid # {}
    <3>1. PICK f \in Chain[b] : f \in Failed(idx)
      BY <1>6, Zenon
    <3>2. Chain[f] \cap idx.failedValid # {}
      BY <2>1, <3>1, Zenon DEF IInv, FlagsAgree
    <3>3. Chain[f] \subseteq Chain[b]
      BY <1>3, Chains, Zenon DEF ChainOf
    <3> QED  BY <3>2, <3>3, Zenon
  <2> QED  BY <1>2, <1>7, <2>1, Zenon DEF IInv, FlagsAgree
<1> QED  BY <1>8, <1>9, <1>10, <1>11, <1>12, Zenon DEF IInv

-----------------------------------------------------------------------------
(* The theorems.                                                           *)

LEMMA NextIInv ==
    ASSUME ~Crashes \/ Invalidated = {}, [Next]_vars  PROVE KeepsIInv
<1> SUFFICES ASSUME IInv  PROVE IInv'
  BY Zenon DEF KeepsIInv
<1>1. CASE UNCHANGED vars
  BY <1>1, StutterIInv, Zenon
<1>2. ASSUME NEW b \in Blocks,
             \/ ProcessNewBlockHeaders(b) \/ RejectHeader(b)
             \/ \E requested \in BOOLEAN : ProcessNewBlock(b, requested)
             \/ StartInvalidate(b) \/ ReconsiderBlock(b) \/ PreciousBlock(b) \/ Restart(b)
      PROVE  IInv'
  BY <1>2, HeadersIInv, RejectIInv, NewBlockIInv, StartInvalidateIInv, ReconsiderIInv,
     PreciousIInv, RestartIInv, Zenon DEF KeepsIInv
<1>3. CASE Activate
  BY <1>3, StartIInv, ContinueIInv, FindIInv, DropIInv, DisconnectIInv, ConnectIInv,
     InvalidIInv, MutatedIInv, Zenon DEF Activate, KeepsIInv
<1>4. CASE InvalidateTip \/ FinishInvalidate \/ FlushCoins
  BY <1>4, InvalidateTipIInv, FinishInvalidateIInv, FlushIInv, Zenon DEF KeepsIInv
<1> QED  BY <1>1, <1>2, <1>3, <1>4, Zenon DEF Next

\* The active chain never holds a block marked as failed, for every block tree: the target
\* that ActivateBestChain keeps while cs_main is released cannot fail behind its back, and
\* InvalidateBlock marks only what it has disconnected.
THEOREM ActiveChainSound ==
    ASSUME ~Crashes \/ Invalidated = {}  PROVE Spec => []ActiveChainValid
<1>1. IInv /\ [Next]_vars => IInv'
  BY NextIInv, Zenon DEF KeepsIInv
<1>2. IInv => ActiveChainValid
  BY Zenon DEF IInv, NoneFailed, Unfailed, ActiveChainValid
<1> QED  BY <1>1, <1>2, InitIInv, PTL DEF Spec

\* The members of m_failed_blocks are marked BLOCK_FAILED_VALID, as AcceptBlockHeader
\* asserts: InvalidateBlock never takes such a mark back, and ResetBlockFailureFlags
\* forgets the block when it does.
THEOREM FailedBlocksMarked ==
    ASSUME ~Crashes \/ Invalidated = {}  PROVE Spec => [](failedBlocks \subseteq idx.failedValid)
<1>1. IInv /\ [Next]_vars => IInv'
  BY NextIInv, Zenon DEF KeepsIInv
<1>2. IInv => failedBlocks \subseteq idx.failedValid
  BY Zenon DEF IInv, FlagsAgree
<1> QED  BY <1>1, <1>2, InitIInv, PTL DEF Spec

\* Moreover every failed block has a BLOCK_FAILED_VALID block at or below it, as long as
\* reconsiderblock is not used: it may leave the children of a cleared block marked.
THEOREM FailureFlagsSound ==
    ASSUME ~Crashes \/ Invalidated = {}, Reconsidered = {}  PROVE Spec => []FailuresAgree
<1>1. IInv /\ [Next]_vars => IInv'
  BY NextIInv, Zenon DEF KeepsIInv
<1>2. IInv => FailuresAgree
  BY Zenon DEF IInv, FlagsAgree, FailuresAgree
<1> QED  BY <1>1, <1>2, InitIInv, PTL DEF Spec
-----------------------------------------------------------------------------
(* Types.                                                                  *)

Counters == [next : Nat, reverse : Int, lastPrecious : Nat]

BestBlocks == [header : Blocks, invalid : Blocks \cup {NoBlock}]

KInv ==
    /\ seq \in [Blocks -> Int] /\ counters \in Counters /\ best \in BestBlocks
    /\ pending \in BOOLEAN /\ idx.data \subseteq idx.known

KeepsKInv == KInv /\ IInv /\ IInv' => KInv'

\* CBlockIndexWorkComparator is a strict total order.
LEMMA WorseOrder ==
    ASSUME NEW ids \in [Blocks -> Int]
    PROVE  /\ \A x \in Blocks : ~Worse(ids, x, x)
           /\ \A x, y \in Blocks : x # y => Worse(ids, x, y) \/ Worse(ids, y, x)
           /\ \A x, y \in Blocks : Worse(ids, x, y) => ~Worse(ids, y, x)
           /\ \A x, y, z \in Blocks :
                 Worse(ids, x, y) /\ Worse(ids, y, z) => Worse(ids, x, z)
<1>1. \A x \in Blocks : Work[x] \in Nat /\ Address[x] \in Nat /\ ids[x] \in Int
  BY BlockTree, Zenon
<1>2. \A x, y \in Blocks : Address[x] = Address[y] => x = y
  BY BlockTree, Zenon
<1> QED  BY <1>1, <1>2 DEF Worse

\* A finite set has an element with nothing above it in a strict order: the one with the
\* fewest elements above.
LEMMA MaximalExists ==
    ASSUME NEW S, IsFiniteSet(S), S # {}, NEW R,
           \A x \in S : <<x, x>> \notin R,
           \A x, y, z \in S : <<x, y>> \in R /\ <<y, z>> \in R => <<x, z>> \in R
    PROVE  \E h \in S : \A c \in S : <<h, c>> \notin R
<1> DEFINE Above(x) == {c \in S : <<x, c>> \in R}
           Sizes == {Cardinality(Above(x)) : x \in S}
<1>1. \A x \in S : IsFiniteSet(Above(x)) /\ Cardinality(Above(x)) \in Nat
  BY FS_Subset, FS_CardinalityType, Zenon
<1>2. PICK m \in Sizes : \A k \in Sizes : m <= k
  <2>1. Sizes \subseteq Nat /\ Sizes # {}
    <3> HIDE DEF Above
    <3> QED  BY <1>1
  <2> HIDE DEF Sizes
  <2> QED  BY <2>1, SmallestExists, Zenon
<1>3. PICK h \in S : m = Cardinality(Above(h))
  BY Zenon
<1>4. ASSUME NEW c \in S, <<h, c>> \in R  PROVE FALSE
  <2>1. Above(c) \subseteq Above(h) /\ c \in Above(h) /\ c \notin Above(c)
    BY <1>3, <1>4, Zenon
  <2>2. Cardinality(Above(c)) < Cardinality(Above(h))
    <3> HIDE DEF Above
    <3> QED  BY <1>1, <1>3, <1>4, <2>1, FS_Subset
  <2>3. Cardinality(Above(c)) \in Sizes
    BY <1>4, Zenon
  <2>4. m <= Cardinality(Above(c))
    BY <1>2, <2>3, Zenon
  <2>5. Cardinality(Above(c)) \in Nat /\ Cardinality(Above(h)) \in Nat
    BY <1>1, <1>3, <1>4, Zenon
  <2> HIDE DEF Above, Sizes
  <2> QED  BY <1>3, <2>2, <2>4, <2>5
<1> QED  BY <1>3, <1>4, Zenon

\* LoadBlockIndex finds a best header, and a best invalid block when one has failed.
LEMMA ReloadedBestType ==
    ASSUME NEW i, NEW ids \in [Blocks -> Int], i.known \subseteq Blocks, Failed(i) \subseteq Blocks,
           i.known \ Failed(i) # {}
    PROVE  ReloadedBest(i, ids) \in BestBlocks
<1> DEFINE K == i.known \ Failed(i)
           F == Failed(i)
           Up(c, h) == \/ Work[c] < Work[h]
                       \/ Work[c] = Work[h] /\ Height[h] < Height[c]
                       \/ Work[c] = Work[h] /\ Height[h] = Height[c] /\ Address[h] < Address[c]
           RK == {e \in K \X K : Worse(ids, e[1], e[2])}
           RF == {e \in F \X F : Up(e[1], e[2])}
<1>1. IsFiniteSet(K) /\ IsFiniteSet(F) /\ K \subseteq Blocks /\ F \subseteq Blocks
  BY FS_Subset, BlockTree, Zenon
<1>2. /\ \A x \in Blocks : Work[x] \in Nat /\ Height[x] \in Nat /\ Address[x] \in Nat
  BY BlockTree, Zenon
<1>3. \E h \in K : \A c \in K \ {h} : Worse(ids, c, h)
  <2>1. \A x, y \in K : <<x, y>> \in RK <=> Worse(ids, x, y)
    BY Zenon
  <2> HIDE DEF K, RK
  <2>2. \A x \in K : <<x, x>> \notin RK
    BY <1>1, <2>1, WorseOrder, Zenon
  <2>3. \A x, y, z \in K : <<x, y>> \in RK /\ <<y, z>> \in RK => <<x, z>> \in RK
    BY <1>1, <2>1, WorseOrder, ZenonT(60)
  <2>4. PICK h \in K : \A c \in K : <<h, c>> \notin RK
    <3>1. K # {}
      BY Zenon DEF K
    <3> QED  BY <1>1, <2>2, <2>3, <3>1, MaximalExists, Zenon
  <2>5. \A c \in K \ {h} : Worse(ids, c, h)
    BY <1>1, <2>1, <2>4, WorseOrder, Zenon
  <2> QED  BY <2>5, Zenon
<1>4. F # {} => \E h \in F : \A c \in F :
                   \/ Work[c] < Work[h]
                   \/ Work[c] = Work[h] /\ Height[h] < Height[c]
                   \/ Work[c] = Work[h] /\ Height[h] = Height[c] /\ Address[h] <= Address[c]
  <2> SUFFICES ASSUME F # {}  PROVE \E h \in F : \A c \in F :
                   \/ Work[c] < Work[h]
                   \/ Work[c] = Work[h] /\ Height[h] < Height[c]
                   \/ Work[c] = Work[h] /\ Height[h] = Height[c] /\ Address[h] <= Address[c]
    BY Zenon
  <2>1. \A x, y \in F : <<x, y>> \in RF <=> Up(x, y)
    OBVIOUS
  <2> HIDE DEF F, RF
  <2>2. \A x \in F : <<x, x>> \notin RF
    BY <1>1, <1>2, <2>1
  <2>3. \A x, y, z \in F : <<x, y>> \in RF /\ <<y, z>> \in RF => <<x, z>> \in RF
    <3>1. \A x, y, z \in F : Up(x, y) /\ Up(y, z) => Up(x, z)
      BY <1>1, <1>2
    <3> HIDE DEF Up
    <3> QED  BY <2>1, <3>1, Zenon
  <2>4. PICK h \in F : \A c \in F : <<h, c>> \notin RF
    BY <1>1, <2>2, <2>3, MaximalExists, Zenon
  <2>5. \A c \in F : ~Up(h, c)
    BY <2>1, <2>4, Zenon
  <2> QED  BY <1>1, <1>2, <2>5
<1>5. ReloadedBest(i, ids).header \in Blocks
  BY <1>1, <1>3, Zenon DEF ReloadedBest
<1>6. ReloadedBest(i, ids).invalid \in Blocks \cup {NoBlock}
  BY <1>1, <1>4, Zenon DEF ReloadedBest
<1>7. \E x, y : ReloadedBest(i, ids) = [header |-> x, invalid |-> y]
  BY Zenon DEF ReloadedBest
<1> QED  BY <1>5, <1>6, <1>7, Zenon DEF BestBlocks

\* InvalidChainFound keeps the types of the best blocks.
LEMMA WithInvalidType ==
    ASSUME NEW bst \in BestBlocks, NEW x \in Blocks, NEW t \in Blocks
    PROVE  WithInvalid(bst, x, t) \in BestBlocks
BY Zenon DEF WithInvalid, BestInvalid, BestBlocks

\* Init establishes KInv; then one lemma for each group of actions.
LEMMA InitKInv == Init => KInv
<1> SUFFICES ASSUME Init  PROVE KInv
  BY Zenon
<1>1. seq \in [Blocks -> Int] /\ counters \in Counters /\ best \in BestBlocks
  BY BlockTree DEF Init, Counters, BestBlocks
<1>2. pending \in BOOLEAN /\ idx.data \subseteq idx.known
  BY Zenon DEF Init
<1> QED  BY <1>1, <1>2, Zenon DEF KInv

LEMMA NetworkKInv ==
    ASSUME NEW b \in Blocks,
           \/ ProcessNewBlockHeaders(b) \/ RejectHeader(b)
           \/ \E requested \in BOOLEAN : ProcessNewBlock(b, requested)
    PROVE  KeepsKInv
<1> SUFFICES ASSUME KInv, IInv, IInv'  PROVE KInv'
  BY Zenon DEF KeepsKInv
<1>1. BestWithHeader(b) \in BestBlocks
  BY Zenon DEF BestWithHeader, KInv, BestBlocks
<1>2. CASE ProcessNewBlockHeaders(b)
  BY <1>1, <1>2, Zenon DEF ProcessNewBlockHeaders, KInv, IInv, Types, Indexes
<1>3. CASE RejectHeader(b)
  <2>1. PICK S : idx' = [idx EXCEPT !.failedChild = @ \cup S]
    BY <1>3, Zenon DEF RejectHeader
  <2>2. idx'.data = idx.data /\ idx'.known = idx.known
    BY <2>1, Zenon DEF IInv, Types, Indexes
  <2> QED  BY <1>3, <2>2, Zenon DEF RejectHeader, KInv
<1>4. ASSUME NEW requested \in BOOLEAN, ProcessNewBlock(b, requested)  PROVE KInv'
  <2>1. best' \in BestBlocks /\ b \notin idx.data
    BY <1>1, <1>4, Zenon DEF ProcessNewBlock
  <2>2. CASE ReceivedBlockTransactions(b) /\ pending' = TRUE
    <3> DEFINE N == NewlyLinked(b)
    <3>1. PICK ids \in SequenceIds(N) :
            /\ seq' = [c \in Blocks |-> IF c \in N THEN ids[c] ELSE seq[c]]
            /\ counters' = [counters EXCEPT !.next = @ + Cardinality(N)]
            /\ idx' = [idx EXCEPT !.known = @ \cup {b}, !.data = @ \cup {b},
                                  !.linked = @ \cup N]
      BY <2>2, Zenon DEF ReceivedBlockTransactions
    <3>2. N \subseteq Blocks
      BY <2>1, LinkedHaveData, Zenon
    <3>3. \A c \in N : ids[c] \in Int
      BY SMTT(60) DEF SequenceIds, KInv, Counters
    <3> HIDE DEF N
    <3>4. IsFiniteSet(N) /\ Cardinality(N) \in Nat
      BY <3>2, FS_Subset, FS_CardinalityType, BlockTree, Zenon
    <3>5. seq' \in [Blocks -> Int]
      BY <3>1, <3>3, Zenon DEF KInv
    <3>6. counters' \in Counters
      BY <3>1, <3>4 DEF KInv, Counters
    <3>7. idx'.data \subseteq idx'.known
      BY <3>1, Zenon DEF KInv, IInv, Types, Indexes
    <3> QED  BY <2>1, <2>2, <3>5, <3>6, <3>7, Zenon DEF KInv
  <2>3. CASE /\ idx' = [idx EXCEPT !.known = @ \cup {b}, !.failedValid = @ \cup {b}]
             /\ UNCHANGED <<unlinked, candidates, seq, counters, pending>>
    BY <2>1, <2>3, Zenon DEF KInv, IInv, Types, Indexes
  <2>4. CASE /\ idx' = [idx EXCEPT !.known = @ \cup {b}] /\ pending' = TRUE
             /\ UNCHANGED <<unlinked, candidates, seq, counters>>
    BY <2>1, <2>4, Zenon DEF KInv, IInv, Types, Indexes
  <2> QED  BY <1>4, <2>2, <2>3, <2>4, Zenon DEF ProcessNewBlock
<1> QED  BY <1>2, <1>3, <1>4, Zenon

LEMMA ActivateKInv == ASSUME Activate  PROVE KeepsKInv
<1> SUFFICES ASSUME KInv, IInv, IInv'  PROVE KInv'
  BY Zenon DEF KeepsKInv
<1>1. CASE StartActivation
  BY <1>1, Zenon DEF StartActivation, KInv
<1>2. CASE ContinueToTarget \/ FindMostWorkChain \/ DisconnectTip
  BY <1>2, Zenon DEF ContinueToTarget, FindMostWorkChain, DisconnectTip, KInv
<1>3. CASE DropInvalidCandidate
  <2>1. PICK x, S : /\ x \in candidates
                    /\ idx' = [idx EXCEPT !.failedChild = @ \cup S]
                    /\ best' = [best EXCEPT !.invalid = BestInvalid(@, x)]
    BY <1>3, Zenon DEF DropInvalidCandidate
  <2>2. best' \in BestBlocks
    BY <2>1, Zenon DEF KInv, BestBlocks, BestInvalid, IInv, Types
  <2>3. idx'.data = idx.data /\ idx'.known = idx.known
    BY <2>1, Zenon DEF IInv, Types, Indexes
  <2> QED  BY <1>3, <2>2, <2>3, Zenon DEF DropInvalidCandidate, KInv
<1>4. ASSUME NEW b \in Blocks, ConnectTip(b)  PROVE KInv'
  BY <1>4, Zenon DEF ConnectTip, KInv, IInv, Types, Indexes
<1>5. ASSUME NEW b \in Blocks, ConnectTipInvalid(b)  PROVE KInv'
  <2>1. act.target \in Blocks /\ tip \in Blocks
    BY <1>5, ConnectingSound, Zenon DEF ConnectTipInvalid, IInv, Types
  <2>2. best' \in BestBlocks
    BY <1>5, <2>1, WithInvalidType, Zenon DEF ConnectTipInvalid, KInv
  <2>3. idx'.data = idx.data /\ idx'.known = idx.known
    BY <1>5, Zenon DEF ConnectTipInvalid, IInv, Types, Indexes
  <2> QED  BY <1>5, <2>2, <2>3, Zenon DEF ConnectTipInvalid, KInv
<1>6. ASSUME NEW b \in Blocks, ConnectTipMutated(b)  PROVE KInv'
  BY <1>6, Zenon DEF ConnectTipMutated, KInv
<1> QED  BY <1>1, <1>2, <1>3, <1>4, <1>5, <1>6, Zenon DEF Activate

LEMMA OperatorKInv ==
    ASSUME NEW b \in Blocks,
           \/ StartInvalidate(b) \/ ReconsiderBlock(b) \/ PreciousBlock(b)
           \/ InvalidateTip \/ FinishInvalidate
    PROVE  KeepsKInv
<1> SUFFICES ASSUME KInv, IInv, IInv'  PROVE KInv'
  BY Zenon DEF KeepsKInv
<1>1. CASE StartInvalidate(b)
  BY <1>1, Zenon DEF StartInvalidate, KInv
<1>2. CASE ReconsiderBlock(b)
  <2>1. PICK all : idx' = [idx EXCEPT !.failedValid = @ \ all, !.failedChild = @ \ all]
    BY <1>2, Zenon DEF ReconsiderBlock
  <2>2. idx'.data = idx.data /\ idx'.known = idx.known
    BY <2>1, Zenon DEF IInv, Types, Indexes
  <2>3. best' \in BestBlocks
    BY <1>2, Zenon DEF ReconsiderBlock, KInv, BestBlocks
  <2> QED  BY <1>2, <2>2, <2>3, Zenon DEF ReconsiderBlock, KInv
<1>3. CASE PreciousBlock(b)
  <2>1. PICK r \in Int :
          /\ counters' = [counters EXCEPT !.reverse = r - 1, !.lastPrecious = Work[tip]]
          /\ seq' = [seq EXCEPT ![b] = r]
    <3>1. (IF Work[tip] > counters.lastPrecious THEN -1 ELSE counters.reverse) \in Int
      BY DEF KInv, Counters
    <3> QED  BY <1>3, <3>1, Zenon DEF PreciousBlock
  <2>2. counters' \in Counters
    <3>1. Work[tip] \in Nat /\ r - 1 \in Int
      BY BlockTree DEF IInv, Types
    <3>2. counters' = [next |-> counters.next, reverse |-> r - 1, lastPrecious |-> Work[tip]]
      BY <2>1, Zenon DEF KInv, Counters
    <3> QED  BY <3>1, <3>2, Zenon DEF KInv, Counters
  <2>3. seq' \in [Blocks -> Int]
    BY <2>1, Zenon DEF KInv
  <2> QED  BY <1>3, <2>2, <2>3, Zenon DEF PreciousBlock, KInv
<1>4. CASE InvalidateTip
  <2>1. idx'.data = idx.data /\ idx'.known = idx.known
    BY <1>4, Zenon DEF InvalidateTip, IInv, Types, Indexes
  <2> QED  BY <1>4, <2>1, Zenon DEF InvalidateTip, KInv
<1>5. CASE FinishInvalidate
  <2>1. act.mark \in Blocks /\ tip \in Blocks
    BY <1>5, Zenon DEF FinishInvalidate, IInv, CallSound, Types
  <2>2. best' \in BestBlocks
    BY <1>5, <2>1, WithInvalidType, Zenon DEF FinishInvalidate, KInv
  <2>3. idx'.data = idx.data /\ idx'.known = idx.known
    BY <1>5, Zenon DEF FinishInvalidate, IInv, Types, Indexes
  <2> QED  BY <1>5, <2>2, <2>3, Zenon DEF FinishInvalidate, KInv
<1> QED  BY <1>1, <1>2, <1>3, <1>4, <1>5, Zenon

LEMMA RestartKInv == ASSUME NEW t \in Blocks, Restart(t)  PROVE KeepsKInv
<1> SUFFICES ASSUME KInv, IInv, IInv'  PROVE KInv'
  BY Zenon DEF KeepsKInv
<1>1. /\ idx' = Reloaded /\ seq' = [c \in Blocks |-> 0] /\ pending' = TRUE
      /\ counters' = [next |-> 1, reverse |-> -1, lastPrecious |-> 0]
      /\ best' = ReloadedBest(idx', seq') /\ tip' = t
  BY Zenon DEF Restart
<1>2. seq' \in [Blocks -> Int] /\ counters' \in Counters
  BY <1>1, SMTT(60) DEF Counters
<1>3. idx'.data = idx.data /\ idx'.known = idx.known
  BY <1>1, Zenon DEF Reloaded, IInv, Types, Indexes
<1>4. Genesis \in idx'.known \ Failed(idx')
  <2>1. Genesis \in Chain[tip']
    BY <1>1, Chains, Zenon DEF ChainOf
  <2> QED  BY <1>3, <2>1, Zenon DEF IInv, HaveData, NoneFailed, Unfailed, KInv
<1>5. best' \in BestBlocks
  BY <1>1, <1>2, <1>4, ReloadedBestType, Zenon DEF IInv, Types, Indexes, Failed
<1> QED  BY <1>1, <1>2, <1>3, <1>5, Zenon DEF KInv

LEMMA NextKInv == ASSUME [Next]_vars  PROVE KeepsKInv
<1> SUFFICES ASSUME KInv, IInv, IInv'  PROVE KInv'
  BY Zenon DEF KeepsKInv
<1>1. CASE UNCHANGED vars
  BY <1>1, Zenon DEF vars, KInv
<1>2. ASSUME NEW b \in Blocks,
             \/ ProcessNewBlockHeaders(b) \/ RejectHeader(b)
             \/ \E requested \in BOOLEAN : ProcessNewBlock(b, requested)
      PROVE  KInv'
  BY <1>2, NetworkKInv, Zenon DEF KeepsKInv
<1>3. ASSUME NEW b \in Blocks,
             \/ StartInvalidate(b) \/ ReconsiderBlock(b) \/ PreciousBlock(b) \/ Restart(b)
      PROVE  KInv'
  BY <1>3, OperatorKInv, RestartKInv, Zenon DEF KeepsKInv
<1>4. CASE Activate
  BY <1>4, ActivateKInv, Zenon DEF KeepsKInv
<1>5. CASE InvalidateTip \/ FinishInvalidate
  BY <1>5, OperatorKInv, BlockTree, Zenon DEF KeepsKInv
<1>6. CASE FlushCoins
  BY <1>6, Zenon DEF FlushCoins, KInv
<1> QED  BY <1>1, <1>2, <1>3, <1>4, <1>5, <1>6, SMTT(60) DEF Next

\* Every variable keeps its type; in particular LoadBlockIndex always finds a best header.
THEOREM ChainStateTypes ==
    ASSUME ~Crashes \/ Invalidated = {}  PROVE Spec => []TypeOK
<1>1. Init => IInv /\ KInv
  BY InitIInv, InitKInv, Zenon
<1>2. (IInv /\ KInv) /\ [Next]_vars => (IInv /\ KInv)'
  BY NextIInv, NextKInv, Zenon DEF KeepsIInv, KeepsKInv
<1>3. IInv /\ KInv => TypeOK
  BY DEF IInv, Types, Indexes, Calls, Phases, KInv, Counters, BestBlocks, TypeOK
<1> QED  BY <1>1, <1>2, <1>3, PTL DEF Spec

-----------------------------------------------------------------------------
(* The candidates.  CheckBlockIndex compares setBlockIndexCandidates with  *)
(* the tip; while cs_main is held through several steps, the tip when the  *)
(* round began takes the place of the tip.                                 *)

Ref == IF CsMainHeld THEN act.start ELSE tip

\* What nSequenceId may be: only preciousblock makes it negative.
Numbered ==
    /\ seq \in [Blocks -> Int]
    /\ counters \in [next : Nat, reverse : Int, lastPrecious : Nat] /\ counters.reverse < 0
    /\ \A b \in Blocks \ Precious : seq[b] >= 0

\* Whatever has its whole chain is linked; whatever waits for a block is found again.
Linking ==
    /\ idx.data \subseteq idx.known /\ candidates \subseteq idx.linked
    /\ act.byWork \subseteq idx.linked
    /\ \A b \in Blocks : Chain[b] \subseteq idx.data /\ Chain[b] \cap idx.failedValid = {}
                            => b \in idx.linked
    /\ UnlinkedComplete

NotBelow(t) == \A x \in candidates : ~Worse(seq, x, t)

Complete(t) ==
    \A b \in idx.linked :
        ~Worse(seq, b, t) /\ ~Worse(seq, b, tip) /\ Chain[b] \cap idx.failedValid = {}
            => b \in candidates

Ordered ==
    /\ NotBelow(tip) /\ NotBelow(Ref) /\ SoundTip(Ref)
    /\ act.phase # "invalidating" => Complete(Ref)
    /\ ~CsMainHeld => tip \in candidates
    /\ act.phase \in {"finding", "disconnecting"} => ~Worse(seq, act.start, tip)

\* The target is above the tip, or on a branch that is not worse than the tip was.
AboveTip ==
    /\ HasTarget /\ act.phase # "disconnecting" => tip \in Chain[act.target]
    /\ act.phase = "disconnecting" => act.target \notin Chain[tip]
    /\ CsMainHeld /\ act.target # NoBlock => ~Worse(seq, act.target, act.start)

Best(t) ==
    \A b \in Blocks : Chain[b] \subseteq idx.data /\ Unfailed(b) => ~Worse(seq, t, b)

\* Unless another call waits, the target is the best chain there is, and so is the tip
\* once the call is over.
AtBest ==
    /\ ~pending /\ HasTarget => Best(act.target)
    /\ ~pending /\ act.phase = "idle" => Best(tip)

JInv == Numbered /\ Linking /\ Ordered /\ AboveTip /\ AtBest

KeepsJInv == JInv /\ IInv /\ IInv' => JInv'

\* No command of the operator that leaves the candidates behind: no reconsiderblock, and
\* preciousblock for one block at most.
Undisturbed ==
    /\ ~Crashes \/ Invalidated = {}
    /\ Reconsidered = {}
    /\ \A p, q \in Precious : p = q

\* What is at least as good as something at least as good.
LEMMA NotWorse ==
    ASSUME NEW ids \in [Blocks -> Int], NEW x \in Blocks, NEW y \in Blocks, NEW z \in Blocks,
           ~Worse(ids, x, y), ~Worse(ids, y, z)
    PROVE  ~Worse(ids, x, z)
BY WorseOrder, ZenonT(60)

\* A proper ancestor has less work.
LEMMA AncestorWorse ==
    ASSUME NEW ids, NEW b \in Blocks, NEW c \in Chain[b], c # b
    PROVE  Worse(ids, c, b)
BY Chains, Zenon DEF ChainOf, Worse

\* No ancestor is better than its descendant.
LEMMA AncestorNotBetter ==
    ASSUME NEW ids \in [Blocks -> Int], NEW b \in Blocks, NEW c \in Chain[b]
    PROVE  c \in Blocks /\ ~Worse(ids, b, c)
<1>1. c \in Blocks
  BY Chains, Zenon DEF ChainOf
<1>2. CASE c = b
  BY <1>1, <1>2, WorseOrder, Zenon
<1>3. CASE c # b
  <2>1. Worse(ids, c, b)
    BY <1>3, AncestorWorse, Zenon
  <2> QED  BY <1>1, <2>1, WorseOrder, ZenonT(60)
<1> QED  BY <1>2, <1>3, Zenon

\* A sound tip is linked, and not below any failed block.
LEMMA SoundLinked ==
    ASSUME Linking, NEW t, SoundTip(t)
    PROVE  t \in idx.linked /\ t \in idx.data /\ t \notin Failed(idx)
           /\ Chain[t] \cap idx.failedValid = {}
<1>1. t \in Blocks /\ t \in Chain[t]
  BY Chains, ZenonT(60) DEF ChainOf, SoundTip
<1> QED  BY <1>1, Zenon DEF Linking, SoundTip, Unfailed, Failed

\* Init establishes the invariant; then one lemma for each action.
LEMMA InitJInv == Init => JInv
<1> SUFFICES ASSUME Init  PROVE JInv
  BY Zenon
<1> USE DEF Init, NoCall
<1>1. Numbered
  BY BlockTree DEF Numbered
<1>2. \A b \in Blocks : Chain[b] \subseteq {Genesis} => b = Genesis
  BY Chains, ZenonT(60) DEF ChainOf
<1>3. Linking
  BY <1>2, BlockTree, Zenon DEF Linking, UnlinkedComplete
<1>4. Ref = Genesis /\ ~CsMainHeld
  BY Zenon DEF Ref, CsMainHeld
<1>5. seq \in [Blocks -> Int] /\ ~Worse(seq, Genesis, Genesis)
  BY <1>1, WorseOrder, BlockTree, Zenon DEF Numbered
<1>6. Ordered
  <2>1. SoundTip(Genesis)
    BY InitIInv, TipSound, Zenon
  <2> QED  BY <1>4, <1>5, <2>1, ZenonT(60) DEF Ordered, NotBelow, Complete
<1>7. AboveTip /\ AtBest
  BY <1>2, <1>4, <1>5, ZenonT(60) DEF AboveTip, AtBest, HasTarget, Best
<1> QED  BY <1>1, <1>3, <1>6, <1>7, Zenon DEF JInv

LEMMA StutterJInv == JInv /\ UNCHANGED vars => JInv'
<1> SUFFICES ASSUME JInv, UNCHANGED vars  PROVE JInv'
  BY Zenon
<1>1. Ref' = Ref /\ CsMainHeld' = CsMainHeld /\ HasTarget' = HasTarget
  BY Zenon DEF Ref, CsMainHeld, HasTarget, vars
<1>2. Numbered' /\ Linking'
  BY Zenon DEF JInv, Numbered, Linking, UnlinkedComplete, vars
<1>3. Ordered'
  BY <1>1, Zenon DEF JInv, Ordered, NotBelow, Complete, SoundTip, Unfailed, Failed, vars
<1>4. AboveTip' /\ AtBest'
  BY <1>1, Zenon DEF JInv, AboveTip, AtBest, Best, Unfailed, Failed, vars
<1> QED  BY <1>2, <1>3, <1>4, Zenon DEF JInv

\* A step that only adds headers or failure flags, or a waiting call.
LEMMA FlagsJInv ==
    ASSUME ~CsMainHeld,
           idx.known \subseteq idx'.known, idx'.data = idx.data, idx'.linked = idx.linked,
           idx.failedValid \subseteq idx'.failedValid, Failed(idx) \subseteq Failed(idx'),
           UNCHANGED <<unlinked, candidates, seq, counters, tip, act>>,
           pending' \/ pending' = pending
    PROVE  KeepsJInv
<1> SUFFICES ASSUME JInv, IInv, IInv'  PROVE JInv'
  BY Zenon DEF KeepsJInv
<1>1. Numbered'
  BY Zenon DEF JInv, Numbered
<1>2. Linking'
  BY Zenon DEF JInv, Linking, UnlinkedComplete
<1>3. Ref = tip /\ Ref' = tip' /\ ~CsMainHeld'
  BY Zenon DEF Ref, CsMainHeld
<1>4. SoundTip(tip)'
  BY TipSound, PTL
<1>5. Ordered'
  BY <1>3, <1>4, Zenon DEF JInv, Ordered, NotBelow, Complete
<1>6. AboveTip'
  BY <1>3, Zenon DEF JInv, AboveTip, HasTarget
<1>7. AtBest'
  BY Zenon DEF JInv, AtBest, HasTarget, Best, Unfailed
<1> QED  BY <1>1, <1>2, <1>5, <1>6, <1>7, Zenon DEF JInv

LEMMA HeadersJInv ==
    ASSUME NEW b \in Blocks, ProcessNewBlockHeaders(b)  PROVE KeepsJInv
<1> SUFFICES ASSUME JInv, IInv, IInv'  PROVE JInv'
  BY Zenon DEF KeepsJInv
<1>1. /\ idx.known \subseteq idx'.known /\ idx'.data = idx.data /\ idx'.linked = idx.linked
      /\ idx'.failedValid = idx.failedValid /\ Failed(idx') = Failed(idx)
  BY Zenon DEF ProcessNewBlockHeaders, IInv, Types, Indexes, Failed
<1> QED  BY <1>1, FlagsJInv, Zenon DEF ProcessNewBlockHeaders, KeepsJInv

LEMMA RejectJInv == ASSUME NEW b \in Blocks, RejectHeader(b)  PROVE KeepsJInv
<1> SUFFICES ASSUME JInv, IInv, IInv'  PROVE JInv'
  BY Zenon DEF KeepsJInv
<1>1. PICK S : idx' = [idx EXCEPT !.failedChild = @ \cup S]
  BY Zenon DEF RejectHeader
<1>2. /\ idx'.known = idx.known /\ idx'.data = idx.data /\ idx'.linked = idx.linked
      /\ idx'.failedValid = idx.failedValid /\ Failed(idx) \subseteq Failed(idx')
  BY <1>1, Zenon DEF IInv, Types, Indexes, Failed
<1> QED  BY <1>2, FlagsJInv, Zenon DEF RejectHeader, KeepsJInv

\* The blocks that become linked were not, and the order of the others stays.
LEMMA ReceivedSeq ==
    ASSUME JInv, IInv, NEW b \in Blocks, b \notin idx.data,
           NEW ids \in SequenceIds(NewlyLinked(b)),
           seq' = [c \in Blocks |-> IF c \in NewlyLinked(b) THEN ids[c] ELSE seq[c]],
           counters' = [counters EXCEPT !.next = @ + Cardinality(NewlyLinked(b))]
    PROVE  /\ Numbered' /\ NewlyLinked(b) \cap idx.linked = {}
           /\ \A c \in idx.linked : seq'[c] = seq[c]
<1> DEFINE N == NewlyLinked(b)
<1>1. \A d \in N : d \in Blocks /\ b \in Chain[d]
  BY LinkedHaveData, Chains, Zenon DEF NewlyLinked, Descendants, ChainOf
<1>2. N \cap idx.linked = {}
  BY <1>1, Zenon DEF IInv, HaveData
<1>3. \A c \in idx.linked : seq'[c] = seq[c]
  BY <1>2, Zenon DEF IInv, Types, Indexes
<1>4. N \subseteq Blocks /\ IsFiniteSet(N) /\ Cardinality(N) \in Nat
  <2>1. N \subseteq Blocks /\ IsFiniteSet(Blocks)
    BY <1>1, BlockTree, Zenon
  <2> HIDE DEF N
  <2> QED  BY <2>1, FS_Subset, FS_CardinalityType, Zenon
<1>5. \A c \in N : ids[c] \in Int /\ ids[c] >= counters.next
  BY DEF SequenceIds, JInv, Numbered
<1> HIDE DEF N
<1>6. Numbered'
  <2>1. seq' = [c \in Blocks |-> IF c \in N THEN ids[c] ELSE seq[c]]
        /\ counters' = [counters EXCEPT !.next = @ + Cardinality(N)]
    BY Zenon DEF N
  <2>2. /\ counters' \in [next : Nat, reverse : Int, lastPrecious : Nat]
        /\ counters'.reverse = counters.reverse
    BY <1>4, <2>1 DEF JInv, Numbered
  <2>3. seq' \in [Blocks -> Int] /\ \A c \in Blocks \ Precious : seq'[c] >= 0
    BY <1>5, <2>1 DEF JInv, Numbered
  <2> QED  BY <2>2, <2>3, Zenon DEF JInv, Numbered
<1> QED  BY <1>2, <1>3, <1>6, Zenon DEF N

\* The order of two blocks depends on their own numbers only.
LEMMA SameOrder ==
    ASSUME NEW ids, NEW jds, NEW x, NEW y, ids[x] = jds[x], ids[y] = jds[y]
    PROVE  Worse(ids, x, y) <=> Worse(jds, x, y)
BY Zenon DEF Worse

\* A complete chain without a BLOCK_FAILED_VALID block is linked when its last missing
\* block arrives.
LEMMA ReceivedLinking ==
    ASSUME JInv, IInv, NEW b \in Blocks, b \notin idx.data,
           NEW d \in Blocks, Chain[d] \subseteq idx.data \cup {b},
           Chain[d] \cap idx.failedValid = {}, b \in Chain[d], b # Genesis
    PROVE  d \in NewlyLinked(b)
<1>1. Parent[b] \in Blocks /\ Chain[b] = Chain[Parent[b]] \cup {b} /\ b \notin Chain[Parent[b]]
  BY ParentBelow, Zenon
<1>2. Chain[b] \subseteq Chain[d]
  BY Chains, ZenonT(60) DEF ChainOf
<1>3. Parent[b] \in idx.linked
  BY <1>1, <1>2 DEF JInv, Linking
<1>4. CASE d = b
  BY <1>3, <1>4, Zenon DEF NewlyLinked
<1>5. CASE d # b
  <2>1. d \in Descendants(b)
    BY <1>5, Chains, Zenon DEF ChainOf, Descendants, JInv, Linking
  <2>2. ASSUME NEW e \in Chain[d], e \notin Chain[b]  PROVE e \in unlinked
    <3>1. e \in Blocks /\ b \in Chain[e] /\ Chain[e] \subseteq Chain[d] /\ e # b
      BY <2>2, Chains, ZenonT(60) DEF ChainOf
    <3>2. e \in idx.data
      BY <3>1, Zenon
    <3> QED  BY <3>1, <3>2, Zenon DEF JInv, Linking, UnlinkedComplete
  <2> QED  BY <1>3, <1>5, <2>1, <2>2, Zenon DEF NewlyLinked
<1> QED  BY <1>4, <1>5, Zenon

LEMMA ReceivedJInv ==
    ASSUME Reconsidered = {}, NEW b \in Blocks, b \notin idx.data,
           ReceivedBlockTransactions(b), ~CsMainHeld, pending', UNCHANGED <<tip, act>>
    PROVE  KeepsJInv
<1> SUFFICES ASSUME JInv, IInv, IInv'  PROVE JInv'
  BY Zenon DEF KeepsJInv
<1> DEFINE N == NewlyLinked(b)
<1>1. PICK ids \in SequenceIds(N) :
        /\ seq' = [c \in Blocks |-> IF c \in N THEN ids[c] ELSE seq[c]]
        /\ counters' = [counters EXCEPT !.next = @ + Cardinality(N)]
        /\ candidates' = candidates \cup {c \in N : ~Worse(seq', c, tip)}
        /\ idx' = [idx EXCEPT !.known = @ \cup {b}, !.data = @ \cup {b}, !.linked = @ \cup N]
        /\ unlinked' = IF N = {} /\ Parent[b] \notin Failed(idx)
                       THEN unlinked \cup {b} ELSE unlinked \ N
  BY Zenon DEF ReceivedBlockTransactions
<1>2. Numbered' /\ N \cap idx.linked = {} /\ \A c \in idx.linked : seq'[c] = seq[c]
  BY <1>1, ReceivedSeq, Zenon
<1>3. \A d \in N : d \in Blocks /\ Chain[d] \subseteq idx.data \cup {b}
  BY LinkedHaveData, Zenon
<1>4. /\ idx'.known = idx.known \cup {b} /\ idx'.data = idx.data \cup {b}
      /\ idx'.linked = idx.linked \cup N /\ idx'.failedValid = idx.failedValid
  BY <1>1, Zenon DEF IInv, Types, Indexes
<1>5. b # Genesis
  <2>1. Genesis \in Chain[tip]
    BY Chains, Zenon DEF ChainOf, IInv, Types
  <2> QED  BY <2>1, Zenon DEF IInv, HaveData
<1>6. \A d \in Blocks :
          (/\ Chain[d] \subseteq idx.data \cup {b} /\ b \in Chain[d]
           /\ Chain[d] \cap idx.failedValid = {})
          => d \in N
  BY <1>5, ReceivedLinking, Zenon
<1> HIDE DEF N
<1>7. Linking'
  <2>1. \A d \in Blocks : Chain[d] \subseteq idx'.data /\ Chain[d] \cap idx'.failedValid = {}
                             => d \in idx'.linked
    BY <1>4, <1>6, Zenon DEF JInv, Linking
  <2>2. ASSUME NEW d \in idx'.data, ~(Chain[d] \subseteq idx'.data),
               Chain[d] \cap idx'.failedValid = {}
        PROVE  d \in unlinked'
    <3>1. d \notin N /\ d \in Blocks
      BY <1>3, <1>4, <2>2, Zenon DEF IInv, Types, Indexes
    <3>2. CASE d # b
      <4>1. d \in unlinked
        BY <1>4, <2>2, <3>2, Zenon DEF JInv, Linking, UnlinkedComplete
      <4> QED  BY <1>1, <3>1, <4>1, Zenon
    <3>3. CASE d = b
      <4>1. Parent[b] \in Blocks /\ Chain[b] = Chain[Parent[b]] \cup {b}
        BY <1>5, ParentBelow, Zenon
      <4>2. Parent[b] \notin idx.linked
        BY <1>4, <2>2, <3>3, <4>1, Zenon DEF IInv, HaveData
      <4>3. N = {}
        BY <4>2, Zenon DEF N, NewlyLinked
      <4>4. Parent[b] \notin Failed(idx)
        BY <1>4, <2>2, <3>3, <4>1 DEF IInv, FlagsAgree
      <4> QED  BY <1>1, <3>3, <4>3, <4>4, Zenon
    <3> QED  BY <3>2, <3>3, Zenon
  <2>3. candidates' \subseteq idx'.linked /\ act'.byWork \subseteq idx'.linked
        /\ idx'.data \subseteq idx'.known
    BY <1>1, <1>4, Zenon DEF JInv, Linking
  <2> QED  BY <2>1, <2>2, <2>3, Zenon DEF Linking, UnlinkedComplete
<1>8. Ref = tip /\ Ref' = tip' /\ ~CsMainHeld'
  BY Zenon DEF Ref, CsMainHeld
<1>9. SoundTip(tip)' /\ tip \in idx.linked
  <2>1. SoundTip(tip) /\ SoundTip(tip)'
    BY TipSound, PTL
  <2> QED  BY <2>1, SoundLinked, Zenon DEF JInv
<1>10. \A c \in idx.linked : Worse(seq', c, tip) <=> Worse(seq, c, tip)
  BY <1>2, <1>9, SameOrder, Zenon
<1>11. NotBelow(tip)'
  BY <1>1, <1>8, <1>10, Zenon DEF JInv, Ordered, NotBelow, Linking
<1>12. act.phase # "invalidating" => Complete(tip)'
  BY <1>1, <1>4, <1>8, <1>10, Zenon DEF JInv, Ordered, Complete
<1>13. Ordered'
  BY <1>1, <1>8, <1>9, <1>11, <1>12, Zenon DEF JInv, Ordered, CsMainHeld
<1>14. AboveTip' /\ AtBest'
  BY <1>8, Zenon DEF JInv, AboveTip, AtBest, HasTarget
<1> QED  BY <1>2, <1>7, <1>13, <1>14, Zenon DEF JInv

LEMMA NewBlockJInv ==
    ASSUME Reconsidered = {}, NEW b \in Blocks, NEW requested \in BOOLEAN,
           ProcessNewBlock(b, requested)
    PROVE  KeepsJInv
<1> SUFFICES ASSUME JInv, IInv, IInv'  PROVE JInv'
  BY Zenon DEF KeepsJInv
<1>1. UNCHANGED <<tip, act>> /\ b \notin idx.data /\ ~CsMainHeld
  BY Zenon DEF ProcessNewBlock
<1>2. CASE ReceivedBlockTransactions(b) /\ pending' = TRUE
  BY <1>1, <1>2, ReceivedJInv, Zenon DEF KeepsJInv
<1>3. CASE /\ idx' = [idx EXCEPT !.known = @ \cup {b}, !.failedValid = @ \cup {b}]
           /\ UNCHANGED <<unlinked, candidates, seq, counters, pending>>
  <2>1. /\ idx.known \subseteq idx'.known /\ idx'.data = idx.data /\ idx'.linked = idx.linked
        /\ idx.failedValid \subseteq idx'.failedValid /\ Failed(idx) \subseteq Failed(idx')
    BY <1>3, Zenon DEF IInv, Types, Indexes, Failed
  <2> QED  BY <1>1, <1>3, <2>1, FlagsJInv, Zenon DEF KeepsJInv
<1>4. CASE /\ idx' = [idx EXCEPT !.known = @ \cup {b}] /\ pending' = TRUE
           /\ UNCHANGED <<unlinked, candidates, seq, counters>>
  <2>1. /\ idx.known \subseteq idx'.known /\ idx'.data = idx.data /\ idx'.linked = idx.linked
        /\ idx.failedValid \subseteq idx'.failedValid /\ Failed(idx) \subseteq Failed(idx')
    BY <1>4, Zenon DEF IInv, Types, Indexes, Failed
  <2> QED  BY <1>1, <1>4, <2>1, FlagsJInv, Zenon DEF KeepsJInv
<1> QED  BY <1>2, <1>3, <1>4, Zenon DEF ProcessNewBlock

LEMMA StartJInv == ASSUME StartActivation  PROVE KeepsJInv
<1> SUFFICES ASSUME JInv, IInv, IInv'  PROVE JInv'
  BY Zenon DEF KeepsJInv
<1>1. /\ act.phase = "idle" /\ act'.phase = "active" /\ act'.target = NoBlock /\ act'.byWork = {}
      /\ UNCHANGED <<idx, unlinked, candidates, seq, counters, tip>>
  BY Zenon DEF StartActivation, NoCall
<1>2. Ref = tip /\ Ref' = tip /\ ~CsMainHeld /\ ~CsMainHeld'
  BY <1>1, Zenon DEF Ref, CsMainHeld
<1>3. Numbered' /\ Linking'
  BY <1>1, Zenon DEF JInv, Numbered, Linking, UnlinkedComplete
<1>4. Ordered'
  BY <1>1, <1>2, Zenon DEF JInv, Ordered, NotBelow, Complete, SoundTip, Unfailed
<1>5. AboveTip' /\ AtBest'
  BY <1>1, <1>2, Zenon DEF AboveTip, AtBest, HasTarget
<1> QED  BY <1>3, <1>4, <1>5, Zenon DEF JInv

\* The candidates of the next state against s.
NotBelowNext(s) == \A x \in candidates' : ~Worse(seq', x, s)

CompleteNext(s) ==
    \A b \in idx'.linked :
        ~Worse(seq', b, s) /\ ~Worse(seq', b, tip') /\ Chain[b] \cap idx'.failedValid = {}
            => b \in candidates'

BestNext(s) ==
    \A b \in Blocks : Chain[b] \subseteq idx'.data /\ Chain[b] \cap Failed(idx') = {}
                         => ~Worse(seq', s, b)

\* At the end of a call, or of a round: the tip is not worse than when the round began.
LEMMA ReleaseOrdered ==
    ASSUME IInv', Numbered', Linking', ~CsMainHeld', NEW s \in Blocks, ~Worse(seq', tip', s),
           NotBelowNext(tip'), CompleteNext(s)
    PROVE  Ordered'
<1>1. seq' \in [Blocks -> Int] /\ tip' \in Blocks /\ idx'.linked \subseteq Blocks
  BY Zenon DEF Numbered, IInv, Types, Indexes
<1>2. ~Worse(seq', tip', tip')
  BY <1>1, WorseOrder, Zenon
<1>3. Ref' = tip' /\ act'.phase \notin {"finding", "disconnecting"}
  BY Zenon DEF Ref, CsMainHeld
<1>4. \A b \in Blocks : ~Worse(seq', b, tip') => ~Worse(seq', b, s)
  BY <1>1, NotWorse, Zenon
<1>5. CompleteNext(tip')
  BY <1>1, <1>4, Zenon DEF CompleteNext
<1>6. SoundTip(tip)'
  BY TipSound, PTL
<1>7. tip' \in idx'.linked /\ Chain[tip'] \cap idx'.failedValid = {}
  BY <1>6, Chains, Zenon DEF Linking, SoundTip, Unfailed, Failed, ChainOf
<1>8. tip' \in candidates'
  BY <1>2, <1>5, <1>7, Zenon DEF CompleteNext
<1> QED
  BY <1>3, <1>5, <1>6, <1>8, Zenon
     DEF Ordered, NotBelow, Complete, NotBelowNext, CompleteNext

\* While cs_main stays held.
LEMMA HeldOrdered ==
    ASSUME CsMainHeld', SoundTip(act.start)', NotBelowNext(tip'), NotBelowNext(act'.start),
           CompleteNext(act'.start),
           act'.phase \in {"finding", "disconnecting"} => ~Worse(seq', act'.start, tip')
    PROVE  Ordered'
<1>1. Ref' = act'.start
  BY Zenon DEF Ref
<1> QED  BY <1>1, Zenon DEF Ordered, NotBelow, Complete, NotBelowNext, CompleteNext

LEMMA BeginStepJInv ==
    ASSUME NEW x \in Blocks, act.phase \in {"active", "finding"}, BeginStep(x),
           UNCHANGED <<idx, unlinked, candidates, seq, counters, tip, pending>>,
           ~Worse(seq, x, Ref), tip \in Chain[x] \/ x \notin Chain[tip], ~pending => Best(x)
    PROVE  KeepsJInv
<1> SUFFICES ASSUME JInv, IInv, IInv'  PROVE JInv'
  BY Zenon DEF KeepsJInv
<1>1. Numbered' /\ act'.byWork \subseteq act.byWork
  BY Zenon DEF JInv, Numbered, BeginStep, NoCall, IInv, Types, Calls
<1>2. Linking'
  BY <1>1, Zenon DEF JInv, Linking, UnlinkedComplete
<1>3. /\ Ref = Start /\ SoundTip(Ref) /\ Ref \in Blocks /\ tip \in Blocks
      /\ seq \in [Blocks -> Int]
  BY Zenon DEF Ref, Start, CsMainHeld, JInv, Ordered, SoundTip, IInv, Types, Numbered
<1>4. Best(x) => Best(x)'
  BY Zenon DEF Best, Unfailed
<1>5. NotBelowNext(tip') /\ NotBelowNext(Ref) /\ CompleteNext(Ref)
  BY Zenon DEF JInv, Ordered, NotBelow, Complete, NotBelowNext, CompleteNext
<1>6. CASE x = tip
  <2>1. act' = NoCall /\ ~CsMainHeld'
    BY <1>6, Zenon DEF BeginStep, NoCall, CsMainHeld
  <2>2. Ordered'
    BY <1>1, <1>2, <1>3, <1>5, <1>6, <2>1, ReleaseOrdered, Zenon
  <2>3. AboveTip' /\ AtBest'
    BY <1>4, <1>6, <2>1, Zenon DEF AboveTip, AtBest, HasTarget, NoCall, Best
  <2> QED  BY <1>1, <1>2, <2>2, <2>3, Zenon DEF JInv
<1>7. CASE x # tip
  <2>1. PICK p \in {"connecting", "disconnecting"} :
          /\ act' = [act EXCEPT !.phase = p, !.target = x, !.start = Start, !.oldTip = tip]
          /\ p = "connecting" <=> tip \in Chain[x]
    BY <1>7, Zenon DEF BeginStep
  <2>2. act'.phase = p /\ act'.target = x /\ act'.start = Ref
    BY <1>3, <2>1, Zenon DEF IInv, Types, Calls
  <2>3. CsMainHeld' /\ SoundTip(act.start)'
    BY <1>3, <2>2, Zenon DEF CsMainHeld, SoundTip, Unfailed
  <2>4. ~Worse(seq, Ref, tip)
    BY <1>3, WorseOrder, Zenon DEF JInv, Ordered, Ref, CsMainHeld
  <2>5. Ordered'
    BY <1>5, <2>2, <2>3, <2>4, HeldOrdered, Zenon
  <2>6. AboveTip'
    BY <2>1, <2>2, <2>3, Zenon DEF AboveTip, HasTarget
  <2>7. AtBest'
    BY <1>4, <2>2, Zenon DEF AtBest, HasTarget, Best
  <2> QED  BY <1>1, <1>2, <2>5, <2>6, <2>7, Zenon DEF JInv
<1> QED  BY <1>6, <1>7, Zenon

LEMMA ContinueJInv == ASSUME ContinueToTarget  PROVE KeepsJInv
<1> SUFFICES ASSUME JInv, IInv, IInv'  PROVE JInv'
  BY Zenon DEF KeepsJInv
<1> DEFINE x == act.target
<1>1. /\ x \in Blocks /\ HasTarget /\ act.phase \in {"active", "finding"} /\ BeginStep(x)
      /\ UNCHANGED <<idx, unlinked, candidates, seq, counters, tip, pending>>
  BY Zenon DEF ContinueToTarget, IInv, Types, Calls, HasTarget
<1>2. tip \in Chain[x] /\ (~pending => Best(x))
  BY <1>1, Zenon DEF JInv, AboveTip, AtBest
<1>3. ~Worse(seq, x, Ref)
  <2>1. ~Worse(seq, x, tip)
    BY <1>1, <1>2, AncestorNotBetter, Zenon DEF JInv, Numbered
  <2> QED  BY <1>1, <2>1, Zenon DEF JInv, AboveTip, Ref, CsMainHeld, HasTarget
<1> QED  BY <1>1, <1>2, <1>3, BeginStepJInv, Zenon DEF KeepsJInv

LEMMA FindJInv == ASSUME FindMostWorkChain  PROVE KeepsJInv
<1> SUFFICES ASSUME JInv, IInv, IInv'  PROVE JInv'
  BY Zenon DEF KeepsJInv
<1>1. /\ act.phase \in {"active", "finding"}
      /\ UNCHANGED <<idx, unlinked, candidates, seq, counters, tip, pending>>
  BY Zenon DEF FindMostWorkChain
<1>2. /\ Ref \in Blocks /\ tip \in Blocks /\ seq \in [Blocks -> Int] /\ Complete(Ref)
      /\ candidates \subseteq Blocks
  BY <1>1, Zenon DEF JInv, Ordered, SoundTip, IInv, Types, Numbered
<1>3. Ref \in candidates
  <2>1. SoundTip(Ref) /\ ~Worse(seq, Ref, Ref) /\ ~Worse(seq, Ref, tip)
    BY <1>1, <1>2, WorseOrder, Zenon DEF JInv, Ordered, Ref, CsMainHeld
  <2> QED  BY <1>2, <2>1, SoundLinked, Zenon DEF Complete, JInv
<1>4. PICK x \in candidates : MostWork(x) /\ BeginStep(x)
  BY <1>3, Zenon DEF FindMostWorkChain
<1>5. x \in Blocks /\ ~Worse(seq, x, tip) /\ ~Worse(seq, x, Ref)
  BY <1>2, Zenon DEF JInv, Ordered, NotBelow
<1>6. tip \in Chain[x] \/ x \notin Chain[tip]
  BY <1>2, <1>5, AncestorWorse, Chains, Zenon DEF ChainOf
<1>7. ASSUME NEW b \in Blocks, Chain[b] \subseteq idx.data, Unfailed(b)
      PROVE  ~Worse(seq, x, b)
  <2>1. b \in idx.linked /\ Chain[b] \cap idx.failedValid = {}
    BY <1>7, Zenon DEF JInv, Linking, Unfailed, Failed
  <2>2. CASE Worse(seq, b, Ref)
    BY <1>2, <1>5, <2>2, WorseOrder, NotWorse, Zenon
  <2>3. CASE Worse(seq, b, tip)
    BY <1>2, <1>5, <2>3, WorseOrder, NotWorse, Zenon
  <2>4. CASE ~Worse(seq, b, Ref) /\ ~Worse(seq, b, tip)
    <3>1. b \in candidates
      BY <1>2, <2>1, <2>4, Zenon DEF Complete
    <3>2. b = x \/ Worse(seq, b, x)
      BY <1>4, <3>1, Zenon DEF MostWork
    <3> QED  BY <1>2, <1>5, <3>2, WorseOrder, Zenon
  <2> QED  BY <2>2, <2>3, <2>4, Zenon
<1>8. Best(x)
  BY <1>7, Zenon DEF Best
<1> QED  BY <1>1, <1>4, <1>5, <1>6, <1>8, BeginStepJInv, Zenon DEF KeepsJInv

LEMMA DropJInv ==
    ASSUME Reconsidered = {}, DropInvalidCandidate  PROVE KeepsJInv
<1> SUFFICES ASSUME JInv, IInv, IInv'  PROVE JInv'
  BY Zenon DEF KeepsJInv
<1>1. PICK x, f :
          /\ x \in candidates /\ f \in Chain[x] \cap Failed(idx)
          /\ candidates' = candidates \ ({f} \cup (Chain[x] \ Chain[f]))
          /\ idx' = [idx EXCEPT !.failedChild = @ \cup (Chain[x] \ Chain[f])]
  BY Zenon DEF DropInvalidCandidate
<1>2. /\ act.phase \in {"active", "finding"} /\ act.target = NoBlock
      /\ act' = [act EXCEPT !.phase = "finding", !.start = Start]
      /\ UNCHANGED <<unlinked, seq, counters, tip>>
  BY Zenon DEF DropInvalidCandidate
<1>3. x \in Blocks /\ f \in Chain[x] /\ f \in Failed(idx)
  BY <1>1, Zenon DEF IInv, Types
<1>4. /\ idx'.known = idx.known /\ idx'.data = idx.data /\ idx'.linked = idx.linked
      /\ idx'.failedValid = idx.failedValid
      /\ Failed(idx') = Failed(idx) \cup (Chain[x] \ Chain[f])
  BY <1>1, Zenon DEF IInv, Types, Indexes, Failed
<1>5. /\ Ref = Start /\ SoundTip(Ref) /\ Ref \in Blocks /\ tip \in Blocks
      /\ seq \in [Blocks -> Int]
  BY <1>2, Zenon DEF Ref, Start, CsMainHeld, JInv, Ordered, SoundTip, IInv, Types, Numbered
<1>6. /\ act'.phase = "finding" /\ act'.target = NoBlock /\ act'.start = Ref
      /\ act'.byWork = act.byWork /\ CsMainHeld'
  BY <1>2, <1>5, Zenon DEF IInv, Types, Calls, CsMainHeld
<1>7. \A y \in {f} \cup (Chain[x] \ Chain[f]) : Chain[y] \cap idx.failedValid # {}
  <2>1. Chain[f] \cap idx.failedValid # {}
    BY <1>3, Zenon DEF IInv, FlagsAgree
  <2> QED  BY <1>3, <2>1, MarkedHaveCause, Zenon
<1>8. SoundTip(act.start)'
  <2>1. \A c \in Blocks : Unfailed(c) => Unfailed(c)'
    BY <1>3, <1>4, MarkedAbove, Zenon
  <2> QED  BY <1>4, <1>5, <1>6, <2>1, Zenon DEF SoundTip, Unfailed
<1>9. NotBelowNext(tip') /\ NotBelowNext(act'.start)
  BY <1>1, <1>2, <1>6, Zenon DEF NotBelowNext, JInv, Ordered, NotBelow
<1>10. CompleteNext(act'.start)
  <2>1. Complete(Ref)
    BY <1>2, Zenon DEF JInv, Ordered
  <2> QED  BY <1>1, <1>2, <1>4, <1>6, <1>7, <2>1, Zenon DEF Complete, CompleteNext
<1>11. ~Worse(seq', act'.start, tip')
  BY <1>2, <1>5, <1>6, WorseOrder DEF JInv, Ordered, Ref, CsMainHeld
<1>12. Ordered'
  BY <1>6, <1>8, <1>9, <1>10, <1>11, HeldOrdered, Zenon
<1>13. Numbered' /\ Linking'
  BY <1>1, <1>2, <1>4, <1>6, Zenon DEF JInv, Numbered, Linking, UnlinkedComplete
<1>14. AboveTip' /\ AtBest'
  BY <1>6, Zenon DEF AboveTip, AtBest, HasTarget
<1> QED  BY <1>12, <1>13, <1>14, Zenon DEF JInv

LEMMA DisconnectJInv == ASSUME DisconnectTip  PROVE KeepsJInv
<1> SUFFICES ASSUME JInv, IInv, IInv'  PROVE JInv'
  BY Zenon DEF KeepsJInv
<1>1. /\ act.phase = "disconnecting" /\ HasTarget /\ CsMainHeld /\ act.target \in Blocks
      /\ act.target \notin Chain[tip] /\ tip \notin Chain[act.target]
      /\ UNCHANGED <<idx, unlinked, candidates, seq, counters, pending>>
  BY Zenon DEF DisconnectTip, IInv, CallSound, Types, Calls, HasTarget, CsMainHeld, JInv, AboveTip
<1>2. tip \in Blocks /\ tip # Genesis /\ seq \in [Blocks -> Int]
  BY <1>1, Chains, Zenon DEF ChainOf, IInv, Types, JInv, Numbered
<1>3. tip' \in Chain[tip] /\ tip' \in Blocks /\ Chain[tip'] \subseteq Chain[tip]
  BY <1>2, ParentBelow, Chains DEF DisconnectTip, ChainOf
<1>4. /\ act'.phase \in {"connecting", "disconnecting"} /\ act'.target = act.target
      /\ act'.start = act.start /\ act'.byWork = act.byWork
      /\ act'.phase = "connecting" <=> tip' \in Chain[act.target]
  <2>1. tip' # act.target
    BY <1>1, <1>3, Zenon
  <2> QED  BY <1>1, <2>1, Zenon DEF DisconnectTip, IInv, Types, Calls
<1>5. CsMainHeld' /\ HasTarget' /\ Ref = act.start
  BY <1>1, <1>4, Zenon DEF CsMainHeld, HasTarget, Ref
<1>6. SoundTip(act.start)' /\ act.start \in Blocks
  BY <1>1, <1>4, <1>5, Zenon DEF JInv, Ordered, SoundTip, Unfailed
<1>7. ~Worse(seq, tip, tip') /\ ~Worse(seq, act.start, tip)
  BY <1>1, <1>2, <1>3, AncestorNotBetter, Zenon DEF JInv, Ordered
<1>8. \A b \in Blocks : ~Worse(seq, b, tip) => ~Worse(seq, b, tip')
  BY <1>2, <1>3, <1>7, NotWorse, Zenon
<1>9. \A b \in Blocks : ~Worse(seq, b, act.start) => ~Worse(seq, b, tip)
  BY <1>2, <1>6, <1>7, NotWorse, Zenon
<1>10. candidates \subseteq Blocks /\ idx.linked \subseteq Blocks
  BY Zenon DEF IInv, Types, Indexes
<1>11. NotBelowNext(tip') /\ NotBelowNext(act'.start)
  BY <1>1, <1>4, <1>5, <1>8, <1>10, Zenon DEF NotBelowNext, JInv, Ordered, NotBelow
<1>12. CompleteNext(act'.start)
  BY <1>1, <1>4, <1>5, <1>9, <1>10, Zenon DEF CompleteNext, JInv, Ordered, Complete
<1>13. Ordered'
  BY <1>1, <1>4, <1>5, <1>6, <1>7, <1>8, <1>11, <1>12, HeldOrdered, Zenon
<1>14. Numbered' /\ Linking'
  BY <1>1, <1>4, Zenon DEF JInv, Numbered, Linking, UnlinkedComplete
<1>15. AboveTip' /\ AtBest'
  BY <1>1, <1>3, <1>4, <1>5, Zenon DEF JInv, AboveTip, AtBest, Best, Unfailed, HasTarget
<1> QED  BY <1>13, <1>14, <1>15, Zenon DEF JInv

\* The end of a step towards the target, or one that forgets it (x = NoBlock).
LEMMA AfterStepJInv ==
    ASSUME act.phase = "connecting", NEW x \in Blocks \cup {NoBlock},
           act' = AfterStep(tip', x), UNCHANGED <<seq, counters, pending>>,
           Linking', SoundTip(act.start),
           Chain[act.start] \cap Failed(idx') = {}, idx.data \subseteq idx'.data,
           NotBelowNext(tip'), NotBelowNext(act.start), CompleteNext(act.start),
           x # NoBlock => /\ tip' \in Chain[x] /\ ~Worse(seq, x, act.start)
                          /\ ~pending => BestNext(x)
    PROVE  KeepsJInv
<1> SUFFICES ASSUME JInv, IInv, IInv'  PROVE JInv'
  BY Zenon DEF KeepsJInv
<1>1. Numbered'
  BY Zenon DEF JInv, Numbered
<1>2. act.start \in Blocks /\ tip' \in Blocks /\ seq \in [Blocks -> Int]
  BY Zenon DEF SoundTip, IInv, Types, JInv, Numbered
<1>3. CASE Worse(seq, tip', act.start)
  <2>1. act' = [act EXCEPT !.phase = "finding", !.target = x]
    BY <1>3, Zenon DEF AfterStep
  <2>2. act'.phase = "finding" /\ act'.target = x /\ act'.start = act.start /\ CsMainHeld'
    BY <2>1, Zenon DEF IInv, Types, Calls, CsMainHeld
  <2>3. SoundTip(act.start)'
    BY <2>2, ZenonT(60) DEF SoundTip, Unfailed
  <2>4. ~Worse(seq', act'.start, tip')
    BY <1>2, <1>3, <2>2, WorseOrder, ZenonT(60)
  <2>5. Ordered'
    BY <2>2, <2>3, <2>4, HeldOrdered, Zenon
  <2>6. AboveTip' /\ AtBest'
    BY <2>2, Zenon DEF AboveTip, AtBest, HasTarget, Best, BestNext, Unfailed
  <2> QED  BY <1>1, <2>5, <2>6, Zenon DEF JInv
<1>4. CASE ~Worse(seq, tip', act.start)
  <2>1. ~CsMainHeld' /\ act'.phase \in {"idle", "active"}
    BY <1>4, Zenon DEF AfterStep, NoCall, CsMainHeld
  <2>2. act'.phase = "active" => act'.target = x
    BY <1>4, Zenon DEF AfterStep, NoCall
  <2>3. act'.phase = "idle" => tip' = x
    BY <1>4, Zenon DEF AfterStep, NoCall
  <2>4. Ordered'
    BY <1>1, <1>2, <1>4, <2>1, ReleaseOrdered, Zenon
  <2>5. AboveTip'
    BY <2>1, <2>2, Zenon DEF AboveTip, HasTarget
  <2>6. AtBest'
    BY <1>2, <2>1, <2>2, <2>3, BlockTree, SMTT(60) DEF AtBest, HasTarget, Best, BestNext, Unfailed
  <2> QED  BY <1>1, <2>4, <2>5, <2>6, Zenon DEF JInv
<1> QED  BY <1>3, <1>4, Zenon

\* What holds while blocks are connected.
LEMMA ConnectingJInv ==
    ASSUME JInv, IInv, NEW b \in Blocks, Connecting(b)
    PROVE  /\ HasTarget /\ CsMainHeld /\ Ref = act.start /\ SoundTip(act.start)
           /\ NotBelow(tip) /\ NotBelow(act.start) /\ Complete(act.start)
           /\ ~Worse(seq, act.target, act.start) /\ ~Worse(seq, b, tip)
           /\ \A y \in Blocks : ~Worse(seq, y, b) => ~Worse(seq, y, tip)
<1>1. act.phase = "connecting" /\ HasTarget /\ CsMainHeld /\ Ref = act.start
  BY Zenon DEF Connecting, IInv, CallSound, HasTarget, CsMainHeld, Ref
<1>2. tip \in Chain[b] /\ tip \in Blocks /\ seq \in [Blocks -> Int]
  BY ConnectingSound, Chains DEF ChainOf, IInv, Types, JInv, Numbered
<1>3. ~Worse(seq, b, tip)
  BY <1>2, AncestorNotBetter, Zenon
<1>4. \A y \in Blocks : ~Worse(seq, y, b) => ~Worse(seq, y, tip)
  BY <1>2, <1>3, NotWorse, Zenon
<1> QED  BY <1>1, <1>3, <1>4, Zenon DEF JInv, Ordered, AboveTip, HasTarget

LEMMA ConnectJInv == ASSUME NEW b \in Blocks, ConnectTip(b)  PROVE KeepsJInv
<1> SUFFICES ASSUME JInv, IInv, IInv'  PROVE JInv'
  BY Zenon DEF KeepsJInv
<1>1. /\ Connecting(b) /\ tip' = b
      /\ candidates' = {x \in candidates : ~Worse(seq, x, b)}
      /\ UNCHANGED <<unlinked, seq, counters, pending>>
  BY Zenon DEF ConnectTip, PruneBlockIndexCandidates
<1>2. /\ HasTarget /\ CsMainHeld /\ SoundTip(act.start)
      /\ NotBelow(act.start) /\ Complete(act.start)
      /\ ~Worse(seq, act.target, act.start)
      /\ \A y \in Blocks : ~Worse(seq, y, b) => ~Worse(seq, y, tip)
  BY <1>1, ConnectingJInv, Zenon
<1>3. /\ idx'.known = idx.known /\ idx'.data = idx.data /\ idx'.linked = idx.linked
      /\ idx'.failedValid = idx.failedValid /\ Failed(idx') = Failed(idx)
      /\ idx.linked \subseteq Blocks
  BY Zenon DEF ConnectTip, IInv, Types, Indexes, Failed
<1>4. NotBelowNext(tip') /\ NotBelowNext(act.start)
  BY <1>1, <1>2, Zenon DEF NotBelowNext, NotBelow
<1>5. CompleteNext(act.start)
  BY <1>1, <1>2, <1>3, Zenon DEF CompleteNext, Complete
<1>6. act.target \in Blocks /\ b \in Chain[act.target] /\ act.phase = "connecting"
  BY <1>1, ConnectingSound, Zenon DEF Connecting
<1>7. ~pending => Best(act.target)
  BY <1>2, Zenon DEF JInv, AtBest
<1>8. ~pending => BestNext(act.target)
  BY <1>1, <1>3, <1>7, Zenon DEF Best, BestNext, Unfailed
<1>9. act'.byWork \subseteq act.byWork
  BY Zenon DEF ConnectTip, AfterStep, NoCall, IInv, Types, Calls
<1>10. Linking'
  BY <1>1, <1>3, <1>9, Zenon DEF JInv, Linking, UnlinkedComplete
<1>11. CASE act' = AfterStep(b, act.target)
  <2>1. Chain[act.start] \cap Failed(idx') = {}
    BY <1>2, <1>3, Zenon DEF SoundTip, Unfailed
  <2> QED
    BY <1>1, <1>2, <1>3, <1>4, <1>5, <1>6, <1>8, <1>10, <1>11, <2>1, AfterStepJInv, Zenon
       DEF KeepsJInv
<1>12. CASE act' = act
  <2>1. CsMainHeld' /\ SoundTip(act.start)' /\ HasTarget'
    BY <1>2, <1>3, <1>12, Zenon DEF SoundTip, Unfailed, HasTarget, CsMainHeld
  <2>2. Ordered'
    BY <1>4, <1>5, <1>6, <1>12, <2>1, HeldOrdered, Zenon
  <2>3. Numbered'
    BY <1>1, Zenon DEF JInv, Numbered
  <2>4. AboveTip'
    BY <1>1, <1>2, <1>6, <1>12, Zenon DEF AboveTip
  <2>5. AtBest'
    BY <1>1, <1>3, <1>6, <1>7, <1>12, Zenon DEF AtBest, Best, Unfailed
  <2> QED  BY <1>10, <2>2, <2>3, <2>4, <2>5, Zenon DEF JInv
<1> QED  BY <1>11, <1>12, Zenon DEF ConnectTip

LEMMA MutatedJInv ==
    ASSUME NEW b \in Blocks, ConnectTipMutated(b)  PROVE KeepsJInv
<1> SUFFICES ASSUME JInv, IInv, IInv'  PROVE JInv'
  BY Zenon DEF KeepsJInv
<1>1. /\ Connecting(b) /\ act.phase = "connecting" /\ act' = AfterStep(tip', NoBlock)
      /\ UNCHANGED <<idx, unlinked, candidates, seq, counters, tip, pending>>
  BY ZenonT(60) DEF ConnectTipMutated, Connecting
<1>2. SoundTip(act.start) /\ NotBelow(tip) /\ NotBelow(act.start) /\ Complete(act.start)
  BY <1>1, ConnectingJInv, Zenon
<1>3. NotBelowNext(tip') /\ NotBelowNext(act.start) /\ CompleteNext(act.start)
  BY <1>1, <1>2, Zenon DEF NotBelow, NotBelowNext, Complete, CompleteNext
<1>4. act'.byWork \subseteq act.byWork
  BY <1>1, Zenon DEF AfterStep, NoCall, IInv, Types, Calls
<1>5. Linking'
  BY <1>1, <1>4, Zenon DEF JInv, Linking, UnlinkedComplete
<1>6. Chain[act.start] \cap Failed(idx') = {}
  <2>1. idx' = idx
    BY <1>1, Zenon
  <2>2. Chain[act.start] \cap Failed(idx) = {}
    BY <1>2, Zenon DEF SoundTip, Unfailed
  <2> QED  BY <2>1, <2>2, Zenon
<1> QED  BY <1>1, <1>2, <1>3, <1>5, <1>6, AfterStepJInv, Zenon DEF KeepsJInv

\* A block that does not connect is not below the tip of the round: that one was connected.
LEMMA InvalidJInv ==
    ASSUME NEW b \in Blocks, ConnectTipInvalid(b)  PROVE KeepsJInv
<1> SUFFICES ASSUME JInv, IInv, IInv'  PROVE JInv'
  BY Zenon DEF KeepsJInv
<1>1. /\ Connecting(b) /\ b \in Invalid /\ act.phase = "connecting"
      /\ act' = AfterStep(tip', NoBlock) /\ candidates' = candidates \ {b}
      /\ UNCHANGED <<unlinked, seq, counters, tip, pending>>
  BY Zenon DEF ConnectTipInvalid, Connecting
<1>2. SoundTip(act.start) /\ NotBelow(tip) /\ NotBelow(act.start) /\ Complete(act.start)
  BY <1>1, ConnectingJInv, Zenon
<1>3. /\ idx'.known = idx.known /\ idx'.data = idx.data /\ idx'.linked = idx.linked
      /\ idx'.failedValid = idx.failedValid \cup {b} /\ Failed(idx') = Failed(idx) \cup {b}
  BY Zenon DEF ConnectTipInvalid, IInv, Types, Indexes, Failed
<1>4. b \in Chain[b]
  BY Chains, Zenon DEF ChainOf
<1>5. NotBelowNext(tip') /\ NotBelowNext(act.start) /\ CompleteNext(act.start)
  BY <1>1, <1>2, <1>3, <1>4, Zenon DEF NotBelow, NotBelowNext, Complete, CompleteNext
<1>6. act'.byWork \subseteq act.byWork
  BY <1>1, Zenon DEF AfterStep, NoCall, IInv, Types, Calls
<1>7. Linking'
  BY <1>1, <1>3, <1>6, Zenon DEF JInv, Linking, UnlinkedComplete
<1>8. Chain[act.start] \cap Failed(idx') = {}
  BY <1>1, <1>2, <1>3, Zenon DEF SoundTip, Unfailed
<1> QED  BY <1>1, <1>2, <1>3, <1>5, <1>7, <1>8, AfterStepJInv, Zenon DEF KeepsJInv

LEMMA StartInvalidateJInv ==
    ASSUME NEW b \in Blocks, StartInvalidate(b)  PROVE KeepsJInv
<1> SUFFICES ASSUME JInv, IInv, IInv'  PROVE JInv'
  BY Zenon DEF KeepsJInv
<1>1. /\ act.phase = "idle" /\ act'.phase = "invalidating"
      /\ act'.byWork \subseteq Usable(idx)
      /\ UNCHANGED <<idx, unlinked, candidates, seq, counters, tip>>
  BY Zenon DEF StartInvalidate, NoCall
<1>2. Ref = tip /\ Ref' = tip /\ ~CsMainHeld /\ ~CsMainHeld'
  BY <1>1, Zenon DEF Ref, CsMainHeld
<1>3. Numbered' /\ Linking'
  BY <1>1, Zenon DEF JInv, Numbered, Linking, UnlinkedComplete, Usable
<1>4. Ordered'
  BY <1>1, <1>2, Zenon DEF JInv, Ordered, NotBelow, SoundTip, Unfailed
<1>5. AboveTip' /\ AtBest'
  BY <1>1, <1>2, Zenon DEF AboveTip, AtBest, HasTarget
<1> QED  BY <1>3, <1>4, <1>5, Zenon DEF JInv

LEMMA InvalidateTipJInv == ASSUME InvalidateTip  PROVE KeepsJInv
<1> SUFFICES ASSUME JInv, IInv, IInv'  PROVE JInv'
  BY Zenon DEF KeepsJInv
<1> DEFINE p == Parent[tip]
           found == {c \in act.byWork : ~Worse(seq, c, p)}
<1>1. /\ act.phase = "invalidating" /\ tip' = p
      /\ candidates' = (candidates \ {tip}) \cup {p} \cup found
      /\ act' = [act EXCEPT !.mark = tip, !.byWork = @ \ found]
      /\ UNCHANGED <<unlinked, seq, counters>>
  BY Zenon DEF InvalidateTip
<1>2. tip \in Blocks /\ tip # Genesis /\ seq \in [Blocks -> Int]
  BY BlockTree, Zenon DEF InvalidateTip, IInv, Types, CallSound, JInv, Numbered
<1>3. p \in Blocks /\ p \in Chain[tip] /\ p \notin Failed(idx) /\ p # tip
  <2>1. p \in Blocks /\ p \in Chain[tip] /\ tip \notin Chain[p]
    BY <1>2, ParentBelow, Zenon
  <2>2. p \in Chain[p]
    BY <2>1, Chains, Zenon DEF ChainOf
  <2> QED  BY <2>1, <2>2, Zenon DEF IInv, NoneFailed, Unfailed
<1>4. idx' = [idx EXCEPT !.failedValid = @ \cup {tip}]
  <2>1. p \notin [idx EXCEPT !.failedValid = @ \cup {tip}].failedValid
    BY <1>3, Zenon DEF IInv, Types, Indexes, Failed
  <2> QED  BY <2>1, Zenon DEF InvalidateTip
<1>5. /\ idx'.known = idx.known /\ idx'.data = idx.data /\ idx'.linked = idx.linked
      /\ idx'.failedValid = idx.failedValid \cup {tip}
  BY <1>4, Zenon DEF IInv, Types, Indexes
<1>6. p \in idx.linked
  BY <1>3, TipSound, BelowSound, SoundLinked, Zenon DEF JInv
<1>7. ~Worse(seq, p, p) /\ \A y \in Blocks : ~Worse(seq, y, tip) => ~Worse(seq, y, p)
  BY <1>2, <1>3, AncestorNotBetter, NotWorse, WorseOrder, Zenon
<1>8. found \subseteq act.byWork /\ \A c \in found : ~Worse(seq, c, p)
  BY Zenon
<1> HIDE DEF p, found
<1>9. act'.phase = "invalidating" /\ act'.byWork \subseteq act.byWork
  BY <1>1, Zenon DEF IInv, Types, Calls
<1>10. Numbered' /\ Linking'
  BY <1>1, <1>5, <1>6, <1>8, <1>9, Zenon DEF JInv, Numbered, Linking, UnlinkedComplete
<1>11. Ref' = tip' /\ ~CsMainHeld'
  BY <1>9, Zenon DEF Ref, CsMainHeld
<1>12. NotBelow(tip)'
  BY <1>1, <1>7, <1>8, Zenon DEF JInv, Ordered, NotBelow, IInv, Types
<1>13. SoundTip(tip)'
  BY TipSound, PTL
<1>14. Ordered'
  BY <1>1, <1>9, <1>11, <1>12, <1>13, Zenon DEF Ordered, NotBelow
<1>15. AboveTip' /\ AtBest'
  BY <1>9, Zenon DEF AboveTip, AtBest, HasTarget, CsMainHeld
<1> QED  BY <1>10, <1>14, <1>15, Zenon DEF JInv

\* The search at the end of InvalidateBlock makes the candidates complete again.
LEMMA FinishInvalidateJInv ==
    ASSUME Reconsidered = {}, FinishInvalidate  PROVE KeepsJInv
<1> SUFFICES ASSUME JInv, IInv, IInv'  PROVE JInv'
  BY Zenon DEF KeepsJInv
<1>1. /\ act.phase = "invalidating" /\ act' = NoCall /\ pending'
      /\ idx' = [idx EXCEPT !.failedValid = @ \cup {act.mark}]
      /\ candidates' = (candidates \ {act.mark}) \cup {c \in Usable(idx') : ~Worse(seq, c, tip)}
      /\ UNCHANGED <<unlinked, seq, counters, tip>>
  BY Zenon DEF FinishInvalidate
<1>2. /\ idx'.known = idx.known /\ idx'.data = idx.data /\ idx'.linked = idx.linked
      /\ idx'.failedValid = idx.failedValid \cup {act.mark}
  BY <1>1, Zenon DEF IInv, Types, Indexes
<1>3. /\ Ref = tip /\ Ref' = tip' /\ ~CsMainHeld' /\ act'.byWork = {} /\ ~HasTarget'
      /\ act'.phase = "idle"
  BY <1>1, Zenon DEF Ref, CsMainHeld, NoCall, HasTarget
<1>4. Numbered' /\ Linking'
  BY <1>1, <1>2, <1>3, Zenon DEF JInv, Numbered, Linking, UnlinkedComplete, Usable
<1>5. NotBelowNext(tip')
  BY <1>1, <1>3, Zenon DEF NotBelowNext, JInv, Ordered, NotBelow
<1>6. CompleteNext(tip')
  <2>1. ASSUME NEW c \in idx'.linked, Chain[c] \cap idx'.failedValid = {}
        PROVE  c \in Usable(idx')
    <3>1. c \in Blocks /\ c \in Chain[c]
      BY Chains, Zenon DEF ChainOf, IInv, Types, Indexes
    <3>2. c \in idx'.data /\ c \notin Failed(idx')
      BY <2>1, <3>1, Zenon DEF IInv, HaveData, FlagsAgree
    <3> QED  BY <3>2, Zenon DEF Usable
  <2> QED  BY <1>1, <2>1, ZenonT(60) DEF CompleteNext
<1>7. Ordered'
  BY <1>3, <1>4, <1>5, <1>6, ReleaseOrdered, WorseOrder, Zenon DEF IInv, Types, Numbered
<1> QED  BY <1>1, <1>3, <1>4, <1>7, Zenon DEF JInv, AboveTip, AtBest

\* Only the place of the precious block changes.  When it is the tip, no other block of
\* the same work can be left before it, because no other number is negative.
LEMMA PreciousJInv ==
    ASSUME Undisturbed, NEW b \in Blocks, PreciousBlock(b)  PROVE KeepsJInv
<1> SUFFICES ASSUME JInv, IInv, IInv'  PROVE JInv'
  BY Zenon DEF KeepsJInv
<1> DEFINE r == IF Work[tip] > counters.lastPrecious THEN -1 ELSE counters.reverse
<1>1. /\ ~CsMainHeld /\ b \in Precious /\ pending'
      /\ counters' = [counters EXCEPT !.reverse = r - 1, !.lastPrecious = Work[tip]]
      /\ seq' = [seq EXCEPT ![b] = r]
      /\ candidates' = IF b \in Usable(idx)
                       THEN {x \in candidates \cup {b} : ~Worse(seq', x, tip)}
                       ELSE candidates \ {b}
      /\ UNCHANGED <<idx, unlinked, tip, act>>
  BY Zenon DEF PreciousBlock, PruneBlockIndexCandidates
<1>2. r \in Int /\ r < 0
  BY DEF JInv, Numbered
<1> HIDE DEF r
<1>3. seq' \in [Blocks -> Int] /\ seq'[b] = r /\ \A c \in Blocks \ {b} : seq'[c] = seq[c]
  BY <1>1, <1>2, Zenon DEF JInv, Numbered
<1>4. Numbered'
  <2>1. /\ counters' \in [next : Nat, reverse : Int, lastPrecious : Nat]
        /\ counters'.reverse < 0
    <3>1. Work[tip] \in Nat /\ r - 1 \in Int /\ r - 1 < 0
      BY <1>2, BlockTree DEF IInv, Types
    <3>2. counters' = [next |-> counters.next, reverse |-> r - 1, lastPrecious |-> Work[tip]]
      BY <1>1, Zenon DEF JInv, Numbered
    <3> QED  BY <3>1, <3>2, Zenon DEF JInv, Numbered
  <2> QED  BY <1>1, <1>3, <2>1, Zenon DEF JInv, Numbered
<1>5. Linking'
  BY <1>1, Zenon DEF JInv, Linking, UnlinkedComplete, Usable
<1>6. Ref = tip /\ Ref' = tip' /\ ~CsMainHeld' /\ tip \in Blocks
  BY <1>1, Zenon DEF Ref, CsMainHeld, IInv, Types
<1>7. SoundTip(tip) /\ SoundTip(tip)'
  BY TipSound, PTL
<1>8. tip \in Usable(idx)
  BY <1>7, SoundLinked, Zenon DEF Usable, JInv
<1>9. \A c \in idx.linked : Chain[c] \cap idx.failedValid = {} => c \in Usable(idx)
  <2>1. ASSUME NEW c \in idx.linked, Chain[c] \cap idx.failedValid = {}
        PROVE  c \in Usable(idx)
    <3>1. c \in Blocks /\ c \in Chain[c]
      BY Chains, Zenon DEF ChainOf, IInv, Types, Indexes
    <3>2. c \in idx.data /\ c \notin Failed(idx)
      BY <2>1, <3>1, Zenon DEF IInv, HaveData, FlagsAgree, Undisturbed
    <3> QED  BY <3>2, Zenon DEF Usable
  <2> QED  BY <2>1, Zenon
<1>10. NotBelow(tip)'
  <2>1. CASE b \in Usable(idx)
    BY <1>1, <2>1, Zenon DEF NotBelow
  <2>2. CASE b \notin Usable(idx)
    <3>1. \A c \in Blocks \ {b} : Worse(seq', c, tip) <=> Worse(seq, c, tip)
      BY <1>3, <1>6, <1>8, <2>2, SameOrder, Zenon
    <3> QED  BY <1>1, <1>6, <2>2, <3>1, Zenon DEF NotBelow, JInv, Ordered, IInv, Types
  <2> QED  BY <2>1, <2>2, Zenon
<1>11. ASSUME NEW c \in idx.linked, c # b, ~Worse(seq', c, tip)
       PROVE  ~Worse(seq, c, tip)
  <2>1. c \in Blocks /\ seq'[c] = seq[c]
    BY <1>3, <1>11, Zenon DEF IInv, Types, Indexes
  <2>2. CASE b # tip
    BY <1>3, <1>6, <1>11, <2>1, <2>2, SameOrder, ZenonT(60)
  <2>3. CASE b = tip
    <3>1. seq[c] >= 0
      BY <1>1, <1>11, <2>1, Zenon DEF Undisturbed, JInv, Numbered
    <3>2. Work[c] \in Nat /\ Work[tip] \in Nat /\ seq[c] \in Int
      BY <1>6, <2>1, BlockTree, Zenon DEF JInv, Numbered
    <3> QED  BY <1>2, <1>3, <1>11, <2>1, <2>3, <3>1, <3>2, SMTT(60) DEF Worse
  <2> QED  BY <2>2, <2>3, Zenon
<1>12. act.phase # "invalidating" => Complete(tip)'
  <2>1. ASSUME act.phase # "invalidating", NEW c \in idx.linked, ~Worse(seq', c, tip),
               Chain[c] \cap idx.failedValid = {}
        PROVE  c \in candidates'
    <3>1. CASE c = b
      BY <1>1, <1>9, <2>1, <3>1, Zenon
    <3>2. CASE c # b
      BY <1>1, <1>6, <1>11, <2>1, <3>2, Zenon DEF JInv, Ordered, Complete
    <3> QED  BY <3>1, <3>2, Zenon
  <2> QED  BY <1>1, <2>1, Zenon DEF Complete
<1>13. tip' \in candidates'
  <2>1. ~Worse(seq', tip, tip) /\ tip \in candidates
    BY <1>1, <1>3, <1>6, WorseOrder, Zenon DEF JInv, Ordered
  <2> QED  BY <1>1, <1>8, <2>1, Zenon
<1>14. Ordered'
  BY <1>1, <1>6, <1>7, <1>10, <1>12, <1>13, Zenon DEF Ordered, CsMainHeld
<1>15. AboveTip' /\ AtBest'
  BY <1>1, <1>6, Zenon DEF JInv, AboveTip, AtBest, HasTarget
<1> QED  BY <1>4, <1>5, <1>14, <1>15, Zenon DEF JInv

LEMMA FlushJInv == ASSUME FlushCoins  PROVE KeepsJInv
<1> SUFFICES ASSUME JInv, IInv, IInv'  PROVE JInv'
  BY Zenon DEF KeepsJInv
<1>1. UNCHANGED <<idx, unlinked, candidates, seq, counters, tip, pending, act>>
  BY Zenon DEF FlushCoins
<1>2. Numbered' /\ Linking'
  BY <1>1, Zenon DEF JInv, Numbered, Linking, UnlinkedComplete
<1>3. Ordered'
  BY <1>1, Zenon DEF JInv, Ordered, NotBelow, Complete, Ref, CsMainHeld, SoundTip, Unfailed
<1>4. AboveTip' /\ AtBest'
  BY <1>1, Zenon DEF JInv, AboveTip, AtBest, Best, Unfailed, HasTarget, CsMainHeld
<1> QED  BY <1>2, <1>3, <1>4, Zenon DEF JInv

LEMMA RestartJInv ==
    ASSUME Reconsidered = {}, NEW t \in Blocks, Restart(t)  PROVE KeepsJInv
<1> SUFFICES ASSUME JInv, IInv, IInv'  PROVE JInv'
  BY Zenon DEF KeepsJInv
<1>1. /\ idx' = Reloaded /\ seq' = [c \in Blocks |-> 0]
      /\ counters' = [next |-> 1, reverse |-> -1, lastPrecious |-> 0]
      /\ unlinked' = idx'.data \ idx'.linked /\ act' = NoCall /\ pending'
      /\ candidates' = {x \in Usable(idx') : ~Worse(seq', x, tip')}
  BY Zenon DEF Restart, UnlinkedAfterLoad, PruneBlockIndexCandidates
<1>2. Numbered'
  BY <1>1, SMTT(60) DEF Numbered
<1>3. /\ idx'.known = idx.known /\ idx'.data = idx.data
      /\ idx'.linked = {c \in idx.data : Chain[c] \subseteq idx.data}
  BY <1>1, Zenon DEF Reloaded, IInv, Types, Indexes
<1>4. act'.phase = "idle" /\ ~CsMainHeld' /\ act'.byWork = {} /\ ~HasTarget'
  BY <1>1, Zenon DEF NoCall, CsMainHeld, HasTarget
<1>5. \A c \in Blocks : c \in Chain[c]
  BY Chains, Zenon DEF ChainOf
<1>6. Linking'
  BY <1>1, <1>3, <1>4, <1>5, Zenon DEF Linking, UnlinkedComplete, Usable, JInv
<1>7. NotBelowNext(tip')
  BY <1>1, Zenon DEF NotBelowNext
<1>8. CompleteNext(tip')
  <2>1. ASSUME NEW c \in idx'.linked, Chain[c] \cap idx'.failedValid = {}
        PROVE  c \in Usable(idx')
    <3>1. c \in idx'.data /\ c \notin Failed(idx')
      BY <1>3, <2>1, Zenon DEF IInv, FlagsAgree
    <3> QED  BY <3>1, Zenon DEF Usable
  <2> QED  BY <1>1, <2>1, Zenon DEF CompleteNext
<1>9. Ordered'
  BY <1>2, <1>4, <1>6, <1>7, <1>8, ReleaseOrdered, WorseOrder, Zenon DEF IInv, Types, Numbered
<1> QED  BY <1>1, <1>2, <1>4, <1>6, <1>9, Zenon DEF JInv, AboveTip, AtBest

LEMMA NextJInv == ASSUME Undisturbed, [Next]_vars  PROVE KeepsJInv
<1> SUFFICES ASSUME JInv, IInv, IInv'  PROVE JInv'
  BY Zenon DEF KeepsJInv
<1> USE DEF Undisturbed
<1>1. CASE UNCHANGED vars
  BY <1>1, StutterJInv, Zenon
<1>2. ASSUME NEW b \in Blocks, ProcessNewBlockHeaders(b) \/ RejectHeader(b)  PROVE JInv'
  BY <1>2, HeadersJInv, RejectJInv, Zenon DEF KeepsJInv
<1>3. ASSUME NEW b \in Blocks, NEW requested \in BOOLEAN, ProcessNewBlock(b, requested)
      PROVE  JInv'
  BY <1>3, NewBlockJInv, Zenon DEF KeepsJInv
<1>4. ASSUME NEW b \in Blocks, StartInvalidate(b) \/ PreciousBlock(b) \/ Restart(b)
      PROVE  JInv'
  BY <1>4, StartInvalidateJInv, PreciousJInv, RestartJInv, Zenon DEF KeepsJInv
<1>5. ASSUME NEW b \in Blocks  PROVE ~ReconsiderBlock(b)
  BY Zenon DEF ReconsiderBlock
<1>6. CASE Activate
  BY <1>6, StartJInv, ContinueJInv, FindJInv, DropJInv, DisconnectJInv, ConnectJInv,
     InvalidJInv, MutatedJInv, Zenon DEF Activate, KeepsJInv
<1>7. CASE InvalidateTip \/ FinishInvalidate \/ FlushCoins
  BY <1>7, InvalidateTipJInv, FinishInvalidateJInv, FlushJInv, Zenon DEF KeepsJInv
<1> QED  BY <1>1, <1>2, <1>3, <1>4, <1>5, <1>6, <1>7, Zenon DEF Next

\* Both invariants hold in every state.
LEMMA JInvHolds == ASSUME Undisturbed  PROVE Spec => [](IInv /\ JInv)
<1>1. ~Crashes \/ Invalidated = {}
  BY Zenon DEF Undisturbed
<1>2. Init => IInv /\ JInv
  BY InitIInv, InitJInv, Zenon
<1>3. (IInv /\ JInv) /\ [Next]_vars => (IInv /\ JInv)'
  BY <1>1, NextIInv, NextJInv, Zenon DEF KeepsIInv, KeepsJInv
<1> QED  BY <1>2, <1>3, PTL DEF Spec

\* Every block whose data came before that of an ancestor waits in m_blocks_unlinked, unless
\* it descends from a failed block, for every block tree and every order of arrival, across
\* restarts.
THEOREM UnlinkedSound == ASSUME Undisturbed  PROVE Spec => []UnlinkedComplete
<1>1. JInv => UnlinkedComplete
  BY Zenon DEF JInv, Linking
<1> QED  BY <1>1, JInvHolds, PTL

\* Whenever cs_main is free, setBlockIndexCandidates is what CheckBlockIndex demands, for
\* every block tree: a chain that arrives, fails, is invalidated or disconnected between two
\* rounds of ActivateBestChain is neither lost to the node nor left behind.
THEOREM CandidatesSoundAndComplete == ASSUME Undisturbed  PROVE Spec => []CandidatesExact
<1>1. ASSUME IInv, JInv  PROVE CandidatesExact
  <2>1. CandidatesComplete
    BY <1>1, Zenon DEF JInv, Ordered, Ref, Complete, CandidatesComplete
  <2>2. CandidatesSound
    BY <1>1, Zenon DEF IInv, HaveData, JInv, Ordered, NotBelow, CandidatesSound
  <2> QED  BY <2>1, <2>2, Zenon DEF CandidatesExact
<1> QED  BY <1>1, JInvHolds, PTL

\* setBlockIndexCandidates is never empty, which PruneBlockIndexCandidates asserts: it holds
\* the tip, or the tip when the round began.
THEOREM CandidateRemains == ASSUME Undisturbed  PROVE Spec => []CandidatesLeft
<1>1. ASSUME IInv, JInv  PROVE CandidatesLeft
  <2>1. CASE ~CsMainHeld
    BY <1>1, <2>1, Zenon DEF JInv, Ordered, CandidatesLeft
  <2>2. CASE CsMainHeld
    <3>1. /\ SoundTip(Ref) /\ Complete(Ref) /\ Ref \in Blocks /\ tip \in Blocks
          /\ seq \in [Blocks -> Int]
      BY <1>1, <2>2, Zenon DEF JInv, Ordered, CsMainHeld, SoundTip, IInv, Types, Numbered
    <3>2. Ref \in idx.linked /\ Chain[Ref] \cap idx.failedValid = {}
      BY <1>1, <3>1, SoundLinked, Zenon DEF JInv
    <3>3. tip \in idx.linked /\ Chain[tip] \cap idx.failedValid = {}
      BY <1>1, TipSound, SoundLinked, Zenon DEF JInv
    <3>4. ~Worse(seq, Ref, Ref) /\ ~Worse(seq, tip, tip)
          /\ (~Worse(seq, Ref, tip) \/ ~Worse(seq, tip, Ref))
      BY <3>1, WorseOrder, ZenonT(60)
    <3>5. Ref \in candidates \/ tip \in candidates
      BY <3>1, <3>2, <3>3, <3>4, Zenon DEF Complete
    <3> QED  BY <3>5, Zenon DEF CandidatesLeft
  <2> QED  BY <2>1, <2>2, Zenon
<1> QED  BY <1>1, JInvHolds, PTL

\* When no call of ActivateBestChain or InvalidateBlock is under way or waiting, no complete
\* chain without a failed block sorts better than the active chain, for every block tree and
\* however the calls interleaved: no arrival is missed.
THEOREM BestChainActive == ASSUME Undisturbed  PROVE Spec => []Settled
<1>1. JInv => Settled
  BY Zenon DEF JInv, AtBest, Best, Unfailed, Settled
<1> QED  BY <1>1, JInvHolds, PTL
=============================================================================

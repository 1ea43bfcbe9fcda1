-------------------------- MODULE VersionBitsProofs --------------------------
(***************************************************************************)
(* GetStateFor and GetStateSinceHeightFor answer what the whole chain      *)
(* gives, for every block tree, period, threshold and deployment, and      *)
(* whatever was asked before on whichever branch.                          *)
(*                                                                         *)
(* The state of a period by Reference follows from that of the period      *)
(* before it, as the switch of GetStateFor has it.  So the function that   *)
(* the walk over a correct cache computes is Reference, and what it adds   *)
(* to the cache is correct.  Facts along a chain are shown by looking at   *)
(* the lowest block for which they would fail.                             *)
(***************************************************************************)
EXTENDS VersionBits, WellFoundedInduction, TLAPS

-----------------------------------------------------------------------------
(* Remainders.                                                             *)

\* What is left over of a multiple and a smaller number.
LEMMA Remainder ==
    ASSUME NEW n \in Nat \ {0}, NEW q \in Int, NEW r \in 0 .. n - 1
    PROVE  (q * n + r) % n = r
OBVIOUS

\* A height is a number of whole periods and a place in the period.
LEMMA Quotient ==
    ASSUME NEW n \in Nat \ {0}, NEW h \in Int
    PROVE  h \div n \in Int /\ h % n \in 0 .. n - 1 /\ h = (h \div n) * n + (h % n)
OBVIOUS

\* One period back, the place in the period is the same.
LEMMA PeriodBack ==
    ASSUME NEW n \in Nat \ {0}, NEW h \in Int
    PROVE  (h - n) % n = h % n
<1>1. PICK q \in Int : h = q * n + (h % n)
  <2>1. h = (h \div n) * n + (h % n) /\ h \div n \in Int
    BY Quotient
  <2> QED  BY <2>1, Zenon
<1>2. h % n \in 0 .. n - 1 /\ q - 1 \in Int /\ h - n = (q - 1) * n + (h % n)
  BY <1>1
<1> QED  BY <1>2, Remainder, Zenon

\* Two ends of periods are a period apart at least.
LEMMA PeriodApart ==
    ASSUME NEW n \in Nat \ {0}, NEW h \in Int, NEW k \in Int, h % n = 0, k % n = 0, h < k
    PROVE  h <= k - n
<1>1. h = (h \div n) * n /\ k = (k \div n) * n /\ h \div n \in Int /\ k \div n \in Int
  BY Quotient
<1>2. ((k \div n) - (h \div n)) * n > 0
  BY <1>1
<1>3. (k \div n) - (h \div n) >= 1
  BY <1>1, <1>2
<1>4. ((k \div n) - (h \div n)) * n >= n
  BY <1>1, <1>3
<1> QED  BY <1>1, <1>4

\* The last end of a period.
LEMMA PeriodEnd ==
    ASSUME NEW n \in Nat \ {0}, NEW h \in Nat
    PROVE  (h - (h % n)) % n = 0 /\ h - (h % n) >= 0
<1>1. h \div n \in Int /\ h % n \in 0 .. n - 1 /\ h = (h \div n) * n + (h % n)
  BY Quotient
<1>2. h \div n >= 0
  BY <1>1
<1>3. h - (h % n) = (h \div n) * n /\ (h \div n) * n >= 0
  BY <1>1, <1>2
<1>4. ((h \div n) * n + 0) % n = 0
  <2>1. 0 \in 0 .. n - 1
    OBVIOUS
  <2> QED  BY <1>1, <2>1, Remainder, Zenon
<1> QED  BY <1>1, <1>3, <1>4

-----------------------------------------------------------------------------
(* Chains.                                                                 *)

\* A set of numbers that is not empty has a smallest one.
LEMMA SmallestNumber ==
    ASSUME NEW S, S \subseteq Nat, S # {}
    PROVE  \E m \in S : \A k \in S : m <= k
<1>1. PICK m \in S : \A k \in S : ~ (<<k, m>> \in OpToRel(<, Nat))
  BY WFMin, NatLessThanWellFounded, Zenon
<1>2. ASSUME NEW k \in S  PROVE m <= k
  <2>1. <<k, m>> \in Nat \X Nat /\ <<k, m>>[1] = k /\ <<k, m>>[2] = m
    OBVIOUS
  <2>2. ~ (k < m)
    BY <1>1, <2>1 DEF OpToRel
  <2> QED  BY <2>2
<1> QED  BY <1>2

\* A set of blocks that is not empty has one of the smallest height.
LEMMA LowestExists ==
    ASSUME NEW S, S \subseteq Blocks, S # {}
    PROVE  \E e \in S : \A x \in S : Height[e] <= Height[x]
<1> DEFINE heights == {Height[x] : x \in S}
<1>1. heights \subseteq Nat /\ heights # {}
  BY TreeAssumption
<1>2. PICK m \in heights : \A k \in heights : m <= k
  <2> HIDE DEF heights
  <2> QED  BY <1>1, SmallestNumber, Zenon
<1> QED  BY <1>2

\* Lowest picks such a block.
LEMMA LowestIs ==
    ASSUME NEW S, S \subseteq Blocks, NEW e \in S,
           \A x \in S : x # e => Height[e] < Height[x]
    PROVE  Lowest(S) = e
<1>1. \A x \in S : Height[e] <= Height[x]
  BY TreeAssumption
<1>2. Lowest(S) \in S /\ \A x \in S : Height[Lowest(S)] <= Height[x]
  BY <1>1, Zenon DEF Lowest
<1>3. Height[Lowest(S)] \in Nat /\ Height[e] \in Nat
  BY <1>2, TreeAssumption
<1> QED  BY <1>2, <1>3

\* Blocks of a chain are told apart by their heights, and there is one at each.
ChainOf(b) ==
    /\ b \in Chain[b] /\ Chain[b] \subseteq Blocks
    /\ \A a \in Chain[b] : Height[a] <= Height[b] /\ Chain[a] \subseteq Chain[b]
    /\ \A a, c \in Chain[b] : Height[a] = Height[c] => a = c
    /\ \A a, c \in Chain[b] : Height[a] <= Height[c] => a \in Chain[c]
    /\ \A h \in 0 .. Height[b] : \E a \in Chain[b] : Height[a] = h

\* Every block's chain is what the code takes it to be, down to the genesis block.
LEMMA Chains == \A b \in Blocks : ChainOf(b)
<1> DEFINE bad == {b \in Blocks : ~ ChainOf(b)}
<1> SUFFICES ASSUME bad # {}  PROVE FALSE
  OBVIOUS
<1>1. PICK b \in bad : \A x \in bad : Height[b] <= Height[x]
  BY LowestExists, Zenon
<1>2. b \in Blocks /\ ~ ChainOf(b) /\ Height[b] \in Nat
  BY <1>1, TreeAssumption
<1>3. CASE Parent[b] = NoBlock
  <2>1. Chain[b] = {b} /\ Height[b] = 0
    BY <1>2, <1>3, TreeAssumption
  <2> QED  BY <1>2, <2>1 DEF ChainOf
<1>4. CASE Parent[b] # NoBlock
  <2> DEFINE a == Parent[b]
  <2>1. /\ a \in Blocks /\ Height[a] \in Nat
        /\ Height[b] = Height[a] + 1 /\ Chain[b] = {b} \cup Chain[a]
    BY <1>2, <1>4, TreeAssumption
  <2> HIDE DEF a
  <2>2. ChainOf(a)
    BY <1>1, <2>1
  <2>3. \A c \in Chain[a] : c \in Blocks /\ Height[c] \in Nat /\ Height[c] < Height[b] /\ c # b
    BY <2>1, <2>2, TreeAssumption DEF ChainOf
  <2>4. \A h \in 0 .. Height[b] : \E c \in Chain[b] : Height[c] = h
    <3> SUFFICES ASSUME NEW h \in 0 .. Height[b]  PROVE \E c \in Chain[b] : Height[c] = h
      OBVIOUS
    <3>1. CASE h = Height[b]
      BY <2>1, <3>1
    <3>2. CASE h # Height[b]
      <4>1. h \in 0 .. Height[a]
        BY <2>1, <3>2
      <4> QED  BY <2>1, <2>2, <4>1 DEF ChainOf
    <3> QED  BY <3>1, <3>2
  <2>5. \A c \in Chain[b] : Height[c] <= Height[b] /\ Chain[c] \subseteq Chain[b]
    BY <1>2, <2>1, <2>2, <2>3 DEF ChainOf
  <2>6. \A c, d \in Chain[b] : Height[c] = Height[d] => c = d
    BY <1>2, <2>1, <2>2, <2>3 DEF ChainOf
  <2>7. \A c, d \in Chain[b] : Height[c] <= Height[d] => c \in Chain[d]
    BY <1>2, <2>1, <2>2, <2>3 DEF ChainOf
  <2> QED  BY <1>2, <2>1, <2>2, <2>4, <2>5, <2>6, <2>7 DEF ChainOf
<1> QED  BY <1>3, <1>4

\* GetAncestor finds the block of the chain at a height.
LEMMA AncestorAt ==
    ASSUME NEW b \in Blocks, NEW h \in 0 .. Height[b]
    PROVE  GetAncestor(b, h) \in Chain[b] /\ Height[GetAncestor(b, h)] = h
<1>1. Height[b] \in Nat /\ \E a \in Chain[b] : Height[a] = h
  BY TreeAssumption, Chains DEF ChainOf
<1>2. ~ (h < 0) /\ ~ (h > Height[b])
  BY <1>1
<1> QED  BY <1>1, <1>2, Zenon DEF GetAncestor

-----------------------------------------------------------------------------
(* Periods.                                                                *)

\* The last blocks of periods.
Ends == PeriodParents \ {NoBlock}

\* PeriodParent goes back to the end of a period, within the period of the next block.
LEMMA PeriodParentIs ==
    ASSUME NEW b \in Blocks
    PROVE  LET p == PeriodParent(b) IN
           IF Height[b] + 1 < nPeriod THEN p = NoBlock
           ELSE p \in Chain[b] /\ (Height[p] + 1) % nPeriod = 0 /\ Height[b] < Height[p] + nPeriod
<1> DEFINE k == (Height[b] + 1) % nPeriod
           h == Height[b] - k
<1>1. /\ nPeriod \in Nat \ {0} /\ Height[b] \in Nat
      /\ Height[b] + 1 \in Nat /\ Height[b] + 1 \in Int
  BY TreeAssumption, ParametersAssumption
<1>2. k \in 0 .. nPeriod - 1
  BY <1>1, Quotient, Zenon
<1>3. (Height[b] + 1 - k) % nPeriod = 0 /\ Height[b] + 1 - k >= 0
  BY <1>1, PeriodEnd
<1>4. PeriodParent(b) = GetAncestor(b, h)
  BY TreeAssumption DEF PeriodParent
<1> HIDE DEF k
<1>5. h \in Int /\ h + 1 = Height[b] + 1 - k /\ h >= -1 /\ h <= Height[b]
  BY <1>1, <1>2, <1>3
<1>6. CASE Height[b] + 1 < nPeriod
  <2>1. ~ (0 < Height[b] + 1 - k)
    <3>1. ASSUME 0 < Height[b] + 1 - k  PROVE FALSE
      <4>1. 0 % nPeriod = 0
        BY <1>1
      <4>2. 0 <= (Height[b] + 1 - k) - nPeriod
        BY <1>1, <1>2, <1>3, <3>1, <4>1, PeriodApart
      <4> QED  BY <1>1, <1>2, <1>6, <4>2
    <3> QED  BY <3>1
  <2>2. h < 0
    BY <1>1, <1>2, <2>1
  <2> QED  BY <1>4, <1>6, <2>2 DEF GetAncestor
<1>7. CASE ~ (Height[b] + 1 < nPeriod)
  <2>1. h \in 0 .. Height[b]
    BY <1>1, <1>2, <1>7
  <2> HIDE DEF h
  <2>2. GetAncestor(b, h) \in Chain[b] /\ Height[GetAncestor(b, h)] = h
    BY <2>1, AncestorAt
  <2>3. (h + 1) % nPeriod = 0
    BY <1>3, <1>5
  <2>4. Height[b] < h + nPeriod
    BY <1>1, <1>2, <1>5
  <2> QED  BY <1>4, <1>7, <2>2, <2>3, <2>4
<1> QED  BY <1>6, <1>7

\* A block at the end of a period is its own period parent, and no other is one.
LEMMA EndsAre == Ends = {b \in Blocks : (Height[b] + 1) % nPeriod = 0}
<1>1. ASSUME NEW e \in Ends  PROVE e \in Blocks /\ (Height[e] + 1) % nPeriod = 0
  <2>1. PICK b \in Blocks : e = PeriodParent(b)
    BY DEF Ends, PeriodParents
  <2>2. e # NoBlock
    BY DEF Ends
  <2>3. Chain[b] \subseteq Blocks
    BY Chains DEF ChainOf
  <2> QED  BY <2>1, <2>2, <2>3, PeriodParentIs
<1>2. ASSUME NEW b \in Blocks, (Height[b] + 1) % nPeriod = 0  PROVE b \in Ends
  <2>1. Height[b] \in Nat /\ b # NoBlock
    BY TreeAssumption
  <2>2. PeriodParent(b) = GetAncestor(b, Height[b])
    BY <1>2, <2>1 DEF PeriodParent
  <2>3. GetAncestor(b, Height[b]) \in Chain[b] /\ Height[GetAncestor(b, Height[b])] = Height[b]
    BY <2>1, AncestorAt
  <2>4. PeriodParent(b) = b
    BY <2>2, <2>3, Chains DEF ChainOf
  <2> QED  BY <2>1, <2>4 DEF Ends, PeriodParents
<1> QED  BY <1>1, <1>2

\* PeriodParent is the last end of a period at or below a block.
LEMMA ParentIsEnd ==
    ASSUME NEW b \in Blocks
    PROVE  /\ PeriodParent(b) \in PeriodParents
           /\ PeriodParent(b) = NoBlock => Ends \cap Chain[b] = {}
           /\ PeriodParent(b) # NoBlock =>
                 /\ PeriodParent(b) \in Ends \cap Chain[b]
                 /\ \A e \in Ends \cap Chain[b] : Height[e] <= Height[PeriodParent(b)]
<1> DEFINE p == PeriodParent(b)
<1>1. p \in PeriodParents /\ nPeriod \in Nat \ {0} /\ Height[b] \in Nat
  BY TreeAssumption, ParametersAssumption DEF PeriodParents
<1>2. \A e \in Ends \cap Chain[b] :
          Height[e] \in Nat /\ (Height[e] + 1) % nPeriod = 0 /\ Height[e] <= Height[b]
  BY EndsAre, TreeAssumption, Chains DEF ChainOf
<1>3. CASE Height[b] + 1 < nPeriod
  <2>1. p = NoBlock
    BY <1>3, PeriodParentIs
  <2>2. ASSUME NEW e \in Ends \cap Chain[b]  PROVE FALSE
    <3>1. 0 % nPeriod = 0 /\ Height[e] + 1 \in Int /\ 0 < Height[e] + 1
      BY <1>1, <1>2
    <3>2. 0 <= (Height[e] + 1) - nPeriod
      BY <1>1, <1>2, <3>1, PeriodApart
    <3> QED  BY <1>1, <1>2, <1>3, <3>2
  <2> QED  BY <1>1, <2>1, <2>2
<1>4. CASE ~ (Height[b] + 1 < nPeriod)
  <2>1. p \in Chain[b] /\ (Height[p] + 1) % nPeriod = 0 /\ Height[b] < Height[p] + nPeriod
    BY <1>4, PeriodParentIs
  <2>2. p \in Blocks /\ p # NoBlock /\ Height[p] \in Nat
    BY <2>1, Chains, TreeAssumption DEF ChainOf
  <2> HIDE DEF p
  <2>3. p \in Ends
    BY <2>1, <2>2, EndsAre
  <2>4. ASSUME NEW e \in Ends \cap Chain[b], Height[p] < Height[e]  PROVE FALSE
    <3>1. Height[p] + 1 <= (Height[e] + 1) - nPeriod
      BY <1>1, <1>2, <2>1, <2>2, <2>4, PeriodApart
    <3> QED  BY <1>1, <1>2, <2>1, <2>2, <3>1
  <2>5. \A e \in Ends \cap Chain[b] : Height[e] <= Height[p]
    BY <1>2, <2>2, <2>4
  <2> QED  BY <1>1, <2>1, <2>2, <2>3, <2>5 DEF p
<1> QED  BY <1>3, <1>4

\* The ends of periods up to p are p and those up to the end of the period before.
LEMMA PreviousEnd ==
    ASSUME NEW p \in Ends
    PROVE  LET q == PreviousPeriodParent(p) IN
           /\ q \in PeriodParents
           /\ q = NoBlock => Ends \cap Chain[p] = {p}
           /\ q # NoBlock => /\ q \in Ends \cap Chain[p] /\ Height[q] < Height[p]
                             /\ Ends \cap Chain[p] = {p} \cup (Ends \cap Chain[q])
<1> DEFINE q == PreviousPeriodParent(p)
<1>1. /\ p \in Blocks /\ nPeriod \in Nat \ {0} /\ Height[p] \in Nat
      /\ (Height[p] + 1) % nPeriod = 0 /\ p \in Chain[p]
  BY EndsAre, TreeAssumption, ParametersAssumption, Chains DEF ChainOf
<1>2. ASSUME NEW e \in Ends \cap Chain[p], e # p
      PROVE  Height[e] \in Nat /\ Height[e] <= Height[p] - nPeriod
  <2>1. e \in Blocks /\ Height[e] \in Nat /\ (Height[e] + 1) % nPeriod = 0
    BY EndsAre, TreeAssumption
  <2>2. Height[e] < Height[p]
    BY <1>1, <1>2, <2>1, Chains DEF ChainOf
  <2>3. Height[e] + 1 <= (Height[p] + 1) - nPeriod
    BY <1>1, <2>1, <2>2, PeriodApart
  <2> QED  BY <1>1, <2>1, <2>3
<1>3. CASE Height[p] - nPeriod < 0
  <2>1. q = NoBlock
    BY <1>3 DEF PreviousPeriodParent, GetAncestor
  <2>2. Ends \cap Chain[p] = {p}
    BY <1>1, <1>2, <1>3
  <2> QED  BY <2>1, <2>2 DEF PeriodParents
<1>4. CASE ~ (Height[p] - nPeriod < 0)
  <2>1. Height[p] - nPeriod \in 0 .. Height[p]
    BY <1>1, <1>4
  <2>2. q \in Chain[p] /\ Height[q] = Height[p] - nPeriod
    BY <1>1, <2>1, AncestorAt DEF PreviousPeriodParent
  <2> HIDE DEF q
  <2>3. q \in Blocks /\ q # NoBlock /\ Height[q] < Height[p]
    BY <1>1, <2>2, Chains, TreeAssumption DEF ChainOf
  <2>4. (Height[q] + 1) % nPeriod = 0
    <3>1. Height[q] + 1 = (Height[p] + 1) - nPeriod
      BY <1>1, <2>2
    <3> QED  BY <1>1, <3>1, PeriodBack
  <2>5. q \in Ends
    BY <2>3, <2>4, EndsAre
  <2>6. Ends \cap Chain[p] \subseteq {p} \cup (Ends \cap Chain[q])
    BY <1>1, <1>2, <2>2, Chains DEF ChainOf
  <2>7. {p} \cup (Ends \cap Chain[q]) \subseteq Ends \cap Chain[p]
    BY <1>1, <2>2, Chains DEF ChainOf
  <2>8. q \in PeriodParents
    BY <2>5 DEF Ends
  <2> QED  BY <2>2, <2>3, <2>5, <2>6, <2>7, <2>8 DEF q
<1> QED  BY <1>3, <1>4

-----------------------------------------------------------------------------
(* Reference follows the switch of GetStateFor.                            *)

\* The median time does not fall along a chain.
LEMMA MedianRises == \A b \in Blocks : \A a \in Chain[b] : MedianTime[a] <= MedianTime[b]
<1> DEFINE bad == {b \in Blocks : ~ \A a \in Chain[b] : MedianTime[a] <= MedianTime[b]}
<1> SUFFICES ASSUME bad # {}  PROVE FALSE
  OBVIOUS
<1>1. PICK b \in bad : \A x \in bad : Height[b] <= Height[x]
  BY LowestExists, Zenon
<1>2. PICK a \in Chain[b] : ~ (MedianTime[a] <= MedianTime[b])
  BY <1>1
<1>3. \A x \in Blocks : MedianTime[x] \in Int /\ Height[x] \in Nat
  BY MedianAssumption, TreeAssumption
<1>4. a # b /\ a \in Blocks /\ b \in Blocks
  BY <1>1, <1>2, <1>3, Chains DEF ChainOf
<1>5. Parent[b] \in Blocks /\ Height[b] = Height[Parent[b]] + 1 /\ a \in Chain[Parent[b]]
  BY <1>2, <1>4, TreeAssumption
<1>6. Parent[b] \notin bad
  BY <1>1, <1>3, <1>4, <1>5
<1>7. MedianTime[a] <= MedianTime[Parent[b]] /\ MedianTime[Parent[b]] <= MedianTime[b]
  BY <1>4, <1>5, <1>6, MedianAssumption, TreeAssumption
<1> QED  BY <1>2, <1>3, <1>4, <1>5, <1>7

\* What is before the start of the deployment is so with all its ancestors.
LEMMA BeforeStartBelow ==
    ASSUME dep \in Deployments, NEW p \in Blocks, NEW a \in Chain[p], BeforeStart(p)
    PROVE  BeforeStart(a)
<1>1. a \in Blocks /\ Height[a] <= Height[p] /\ Height[a] \in Nat /\ Height[p] \in Nat
  BY TreeAssumption, Chains DEF ChainOf
<1>2. MedianTime[a] <= MedianTime[p] /\ MedianTime[a] \in Int /\ MedianTime[p] \in Int
  BY <1>1, MedianRises, MedianAssumption
<1>3. dep.start \in Int /\ dep.startHeight \in Int
  BY ParametersAssumption
<1> QED  BY <1>1, <1>2, <1>3 DEF BeforeStart

\* The lowest of some blocks of a chain, and what a block above all of them changes.
LEMMA LowestOfChain ==
    ASSUME NEW p \in Blocks, NEW S, S \subseteq Chain[p], S # {}
    PROVE  /\ Lowest(S) \in S
           /\ \A x \in S : x # Lowest(S) => Height[Lowest(S)] < Height[x]
           /\ \A e \in Blocks : (\A x \in S : Height[x] < Height[e])
                                  => Lowest(S \cup {e}) = Lowest(S)
<1>1. S \subseteq Blocks
  BY Chains DEF ChainOf
<1>2. PICK m \in S : \A x \in S : Height[m] <= Height[x]
  BY <1>1, LowestExists
<1>3. \A x \in S : x # m => Height[m] < Height[x]
  BY <1>1, <1>2, TreeAssumption, Chains DEF ChainOf
<1>4. Lowest(S) = m
  BY <1>1, <1>3, LowestIs
<1>5. ASSUME NEW e \in Blocks, \A x \in S : Height[x] < Height[e]
      PROVE  Lowest(S \cup {e}) = m
  <2>1. S \cup {e} \subseteq Blocks /\ m \in S \cup {e}
    BY <1>1
  <2>2. \A x \in S \cup {e} : x # m => Height[m] < Height[x]
    BY <1>3, <1>5
  <2> QED  BY <2>1, <2>2, LowestIs
<1> QED  BY <1>3, <1>4, <1>5

\* The ends of periods up to p at which the deployment has started ...
Started(p) == {e \in Ends \cap Chain[p] : ~BeforeStart(e)}

Decides(e) == Count(e) >= nThreshold \/ AfterTimeout(e)

\* ... and those, but for the first, with votes enough or after the timeout.
Decided(p) == {e \in Started(p) \ {Lowest(Started(p))} : Decides(e)}

Wins(e) == Count(e) >= nThreshold \/ fHeightBased

\* Reference, case by case.
LEMMA ReferenceIs ==
    /\ Reference(NoBlock) = "DEFINED"
    /\ \A p \in Ends : Reference(p) =
          IF Started(p) = {} THEN "DEFINED"
          ELSE IF Decided(p) = {} THEN "STARTED"
          ELSE IF ~Wins(Lowest(Decided(p))) THEN "FAILED"
          ELSE IF Lowest(Decided(p)) = p THEN "LOCKED_IN" ELSE "ACTIVE"
<1>1. Reference(NoBlock) = "DEFINED"
  BY DEF Reference
<1>2. ASSUME NEW p \in Ends
      PROVE  Reference(p) =
                IF Started(p) = {} THEN "DEFINED"
                ELSE IF Decided(p) = {} THEN "STARTED"
                ELSE IF ~Wins(Lowest(Decided(p))) THEN "FAILED"
                ELSE IF Lowest(Decided(p)) = p THEN "LOCKED_IN" ELSE "ACTIVE"
  <2>1. p # NoBlock
    BY DEF Ends
  <2>2. Reference(p) =
            CASE p = NoBlock -> "DEFINED"
              [] p # NoBlock /\ Started(p) = {} -> "DEFINED"
              [] p # NoBlock /\ Started(p) # {} /\ Decided(p) = {} -> "STARTED"
              [] OTHER -> IF ~Wins(Lowest(Decided(p))) THEN "FAILED"
                          ELSE IF Lowest(Decided(p)) = p THEN "LOCKED_IN" ELSE "ACTIVE"
    BY Zenon DEF Reference, Started, Decided, Decides, Wins, Ends
  <2> QED  BY <2>1, <2>2
<1> QED  BY <1>1, <1>2

\* Before the start the state is DEFINED.
LEMMA ReferenceBefore ==
    ASSUME dep \in Deployments, NEW p \in Ends, BeforeStart(p)
    PROVE  Reference(p) = "DEFINED"
<1>1. p \in Blocks
  BY EndsAre
<1>2. Started(p) = {}
  BY <1>1, BeforeStartBelow DEF Started
<1> QED  BY <1>2, ReferenceIs

\* After the start it follows from the state of the period before.
LEMMA ReferenceStep ==
    ASSUME dep \in Deployments, NEW p \in Ends, ~BeforeStart(p)
    PROVE  Reference(p) = StateAfter(Reference(PreviousPeriodParent(p)), p)
<1> DEFINE q == PreviousPeriodParent(p)
<1>1. p \in Blocks /\ p \in Chain[p] /\ p # NoBlock
  BY EndsAre, Chains DEF ChainOf, Ends
<1>2. /\ q \in PeriodParents
      /\ q = NoBlock => Ends \cap Chain[p] = {p}
      /\ q # NoBlock => /\ q \in Ends \cap Chain[p] /\ Height[q] < Height[p]
                        /\ Ends \cap Chain[p] = {p} \cup (Ends \cap Chain[q])
  BY PreviousEnd
<1> HIDE DEF q
<1>3. ASSUME q = NoBlock \/ Started(q) = {}
      PROVE  Reference(p) = StateAfter(Reference(q), p)
  <2>1. Reference(q) = "DEFINED"
    BY <1>2, <1>3, ReferenceIs DEF Ends
  <2>2. Started(p) = {p}
    BY <1>2, <1>3 DEF Started
  <2>3. Lowest(Started(p)) = p
    BY <1>1, <2>2, LowestIs
  <2>4. Decided(p) = {}
    BY <2>2, <2>3 DEF Decided
  <2>5. Reference(p) = "STARTED"
    BY <2>2, <2>4, ReferenceIs
  <2> QED  BY <2>1, <2>5 DEF StateAfter
<1>4. ASSUME q # NoBlock, Started(q) # {}
      PROVE  Reference(p) = StateAfter(Reference(q), p)
  <2>1. q \in Ends /\ q \in Blocks /\ q # p
    BY <1>1, <1>2, <1>4, EndsAre, TreeAssumption
  <2>2. Started(q) \subseteq Chain[q] /\ \A x \in Started(q) : Height[x] < Height[p]
    <3>1. \A x \in Chain[q] : x \in Blocks /\ Height[x] <= Height[q]
      BY <2>1, Chains DEF ChainOf
    <3> QED  BY <1>1, <1>2, <1>4, <2>1, <3>1, TreeAssumption DEF Started
  <2>3. Started(p) = Started(q) \cup {p}
    BY <1>2, <1>4 DEF Started
  <2>4. Lowest(Started(p)) = Lowest(Started(q)) /\ Lowest(Started(q)) \in Started(q)
    BY <1>1, <1>4, <2>1, <2>2, <2>3, LowestOfChain
  <2>5. p \notin Started(q)
    BY <1>1, <2>2, TreeAssumption
  <2>6. Decided(p) = Decided(q) \cup {e \in {p} : Decides(e)}
    BY <2>3, <2>4, <2>5 DEF Decided
  <2>7. CASE Decided(q) = {}
    <3>1. Reference(q) = "STARTED"
      BY <1>4, <2>1, <2>7, ReferenceIs
    <3>2. CASE Decides(p)
      <4>1. Decided(p) = {p}
        BY <2>6, <2>7, <3>2
      <4>2. Lowest(Decided(p)) = p
        BY <1>1, <4>1, LowestIs
      <4>3. Reference(p) = IF Wins(p) THEN "LOCKED_IN" ELSE "FAILED"
        BY <2>3, <4>1, <4>2, ReferenceIs
      <4> QED  BY <3>1, <3>2, <4>3 DEF StateAfter, Decides, Wins
    <3>3. CASE ~Decides(p)
      <4>1. Decided(p) = {}
        BY <2>6, <2>7, <3>3
      <4>2. Reference(p) = "STARTED"
        BY <2>3, <4>1, ReferenceIs
      <4> QED  BY <3>1, <3>3, <4>2 DEF StateAfter, Decides
    <3> QED  BY <3>2, <3>3
  <2>8. CASE Decided(q) # {}
    <3>1. Decided(q) \subseteq Chain[q] /\ \A x \in Decided(q) : Height[x] < Height[p]
      BY <2>2 DEF Decided
    <3>2. Lowest(Decided(q)) \in Decided(q) /\ Lowest(Decided(q) \cup {p}) = Lowest(Decided(q))
      BY <1>1, <2>1, <2>8, <3>1, LowestOfChain
    <3>3. Lowest(Decided(p)) = Lowest(Decided(q)) /\ Decided(p) # {}
      BY <2>6, <2>8, <3>2
    <3>4. Lowest(Decided(q)) # p
      BY <2>5, <3>2 DEF Decided
    <3>5. Reference(p) = IF ~Wins(Lowest(Decided(q))) THEN "FAILED" ELSE "ACTIVE"
      BY <2>3, <3>3, <3>4, ReferenceIs
    <3>6. Reference(q) = IF ~Wins(Lowest(Decided(q))) THEN "FAILED"
                         ELSE IF Lowest(Decided(q)) = q THEN "LOCKED_IN" ELSE "ACTIVE"
      BY <1>4, <2>1, <2>8, ReferenceIs
    <3> QED  BY <3>5, <3>6 DEF StateAfter
  <2> QED  BY <2>7, <2>8
<1> QED  BY <1>3, <1>4 DEF q

-----------------------------------------------------------------------------
(* The walk of GetStateFor.                                                *)

\* A cache that holds states of period parents, and the right ones.
Right(c) == DOMAIN c \subseteq PeriodParents /\ \A p \in DOMAIN c : c[p] = Reference(p)

\* What the recursion of Computed asks of a function.
ComputedAt(c, f, p) ==
    IF p \in DOMAIN c THEN c[p]
    ELSE IF Known(c, p) THEN "DEFINED"
    ELSE StateAfter(f[PreviousPeriodParent(p)], p)

\* Over a cache that is right, GetStateFor computes what the whole chain gives.
LEMMA ComputedRight ==
    ASSUME dep \in Deployments, NEW c, Right(c)
    PROVE  Computed(c) = [p \in PeriodParents |-> Reference(p)]
<1> DEFINE ref == [p \in PeriodParents |-> Reference(p)]
           f == Computed(c)
<1>1. \A p \in Ends : PreviousPeriodParent(p) \in PeriodParents
  BY PreviousEnd
<1>2. PeriodParents = Ends \cup {NoBlock} /\ NoBlock \notin Ends
  BY DEF Ends, PeriodParents
<1>3. ASSUME NEW p \in PeriodParents  PROVE ref[p] = ComputedAt(c, ref, p)
  <2>1. CASE p \in DOMAIN c
    BY <2>1 DEF ComputedAt, Right
  <2>2. CASE p \notin DOMAIN c /\ p = NoBlock
    BY <2>2, ReferenceIs DEF ComputedAt, Known
  <2>3. CASE p \notin DOMAIN c /\ p # NoBlock /\ BeforeStart(p)
    BY <1>2, <2>3, ReferenceBefore DEF ComputedAt, Known
  <2>4. CASE p \notin DOMAIN c /\ p # NoBlock /\ ~BeforeStart(p)
    <3>1. p \in Ends /\ ref[PreviousPeriodParent(p)] = Reference(PreviousPeriodParent(p))
      BY <1>1, <1>2, <2>4
    <3> QED  BY <2>4, <3>1, ReferenceStep DEF ComputedAt, Known
  <2> QED  BY <2>1, <2>2, <2>3, <2>4
<1>4. f = [p \in PeriodParents |-> ComputedAt(c, f, p)]
  <2>1. f = CHOOSE g : g = [p \in PeriodParents |-> ComputedAt(c, g, p)]
    BY Zenon DEF Computed, ComputedAt
  <2>2. ref = [p \in PeriodParents |-> ComputedAt(c, ref, p)]
    BY <1>3
  <2> HIDE DEF ref, f
  <2> QED  BY <2>1, <2>2, Zenon
<1> HIDE DEF f
<1>5. ASSUME NEW p \in PeriodParents, f[p] # Reference(p)  PROVE FALSE
  <2> DEFINE bad == {x \in Ends : f[x] # Reference(x)}
  <2>1. f[NoBlock] = Reference(NoBlock)
    BY <1>2, <1>4, ReferenceIs DEF ComputedAt, Known, Right
  <2>2. bad # {} /\ bad \subseteq Blocks
    BY <1>2, <1>5, <2>1, EndsAre
  <2>3. PICK e \in bad : \A x \in bad : Height[e] <= Height[x]
    BY <2>2, LowestExists, Zenon
  <2>4. e \in Ends /\ e \in PeriodParents /\ e # NoBlock /\ f[e] # Reference(e)
    BY <1>2, <2>3
  <2>5. e \notin DOMAIN c /\ ~BeforeStart(e)
    BY <1>4, <2>4, ReferenceBefore DEF ComputedAt, Known, Right
  <2>6. f[PreviousPeriodParent(e)] = Reference(PreviousPeriodParent(e))
    <3>1. CASE PreviousPeriodParent(e) = NoBlock
      BY <2>1, <3>1
    <3>2. CASE PreviousPeriodParent(e) # NoBlock
      <4>1. PreviousPeriodParent(e) \in Ends /\ Height[PreviousPeriodParent(e)] < Height[e]
        BY <2>4, <3>2, PreviousEnd
      <4>2. Height[PreviousPeriodParent(e)] \in Nat /\ Height[e] \in Nat
        BY <2>4, <4>1, EndsAre, TreeAssumption
      <4> QED  BY <2>3, <4>1, <4>2
    <3> QED  BY <3>1, <3>2
  <2>7. f[e] = StateAfter(f[PreviousPeriodParent(e)], e)
    BY <1>4, <2>4, <2>5 DEF ComputedAt, Known
  <2> QED  BY <2>4, <2>5, <2>6, <2>7, ReferenceStep
<1> QED  BY <1>4, <1>5 DEF f

\* What the recursion of Walk asks of a function, and a function that has it.
WalkAt(c, w, q) ==
    IF q \in DOMAIN c THEN {}
    ELSE IF Known(c, q) THEN {q}
    ELSE {q} \cup w[PreviousPeriodParent(q)]

Walked(c, q) ==
    IF q = NoBlock THEN {NoBlock} \ DOMAIN c
    ELSE {r \in (Ends \cap Chain[q]) \ DOMAIN c :
             \A x \in Ends \cap Chain[q] : Known(c, x) => Height[x] <= Height[r]}
         \cup {r \in {NoBlock} \ DOMAIN c : \A x \in Ends \cap Chain[q] : ~Known(c, x)}

\* What the walk visits from one period is that period and what it visits from the one before.
LEMMA WalkedStep ==
    ASSUME NEW c, NEW q \in Ends, ~Known(c, q)
    PROVE  Walked(c, q) = {q} \cup Walked(c, PreviousPeriodParent(q))
<1> DEFINE r == PreviousPeriodParent(q)
<1>1. q \in Blocks /\ q \in Chain[q] /\ q # NoBlock /\ q \notin DOMAIN c
  BY EndsAre, Chains DEF ChainOf, Ends, Known
<1>2. /\ r = NoBlock => Ends \cap Chain[q] = {q}
      /\ r # NoBlock => /\ r \in Ends /\ Height[r] < Height[q]
                        /\ Ends \cap Chain[q] = {q} \cup (Ends \cap Chain[r])
  BY PreviousEnd
<1>3. \A x \in Ends \cap Chain[q] : Height[x] <= Height[q]
  BY <1>1, Chains DEF ChainOf
<1> HIDE DEF r
<1>4. CASE r = NoBlock
  <2>1. Walked(c, r) = {NoBlock} \ DOMAIN c
    BY <1>4 DEF Walked
  <2>2. Walked(c, q) = {q} \cup ({NoBlock} \ DOMAIN c)
    BY <1>1, <1>2, <1>4 DEF Walked
  <2> QED  BY <2>1, <2>2 DEF r
<1>5. CASE r # NoBlock
  BY <1>1, <1>2, <1>3, <1>5 DEF Walked, r
<1> QED  BY <1>4, <1>5

\* GetStateFor stores the states of period parents only.
LEMMA WalkIn ==
    ASSUME NEW c, NEW p \in PeriodParents
    PROVE  Walk(c, p) \subseteq PeriodParents
<1> DEFINE walked == [q \in PeriodParents |-> Walked(c, q)]
           w == CHOOSE g : g = [q \in PeriodParents |-> WalkAt(c, g, q)]
<1>1. \A q \in Ends : PreviousPeriodParent(q) \in PeriodParents
  BY PreviousEnd
<1>2. PeriodParents = Ends \cup {NoBlock} /\ NoBlock \notin Ends
  BY DEF Ends, PeriodParents
<1>3. ASSUME NEW q \in PeriodParents  PROVE walked[q] = WalkAt(c, walked, q)
  <2>1. CASE q = NoBlock
    BY <2>1 DEF WalkAt, Walked, Known
  <2>2. CASE q # NoBlock /\ ~Known(c, q)
    BY <1>1, <1>2, <2>2, WalkedStep DEF WalkAt, Known
  <2>3. CASE q # NoBlock /\ Known(c, q)
    <3>1. q \in Ends /\ q \in Blocks /\ q \in Chain[q]
      BY <1>2, <2>3, EndsAre, Chains DEF ChainOf
    <3>2. \A r \in Ends \cap Chain[q] : Height[q] <= Height[r] => r = q
      BY <3>1, EndsAre, TreeAssumption, Chains DEF ChainOf
    <3>3. Height[q] <= Height[q]
      BY <3>1, TreeAssumption
    <3>4. \A x \in Ends \cap Chain[q] : Height[x] <= Height[q]
      BY <3>1, Chains DEF ChainOf
    <3>5. Walked(c, q) = {q} \ DOMAIN c
      BY <2>3, <3>1, <3>2, <3>3, <3>4 DEF Walked
    <3> QED  BY <2>3, <3>5 DEF WalkAt
  <2> QED  BY <2>1, <2>2, <2>3
<1>4. Walk(c, p) = w[p]
  BY Zenon DEF Walk, WalkAt
<1>5. w = [q \in PeriodParents |-> WalkAt(c, w, q)]
  <2>1. walked = [q \in PeriodParents |-> WalkAt(c, walked, q)]
    BY <1>3
  <2> HIDE DEF walked
  <2> QED  BY <2>1, Zenon
<1> HIDE DEF w
<1>6. ASSUME NEW q \in PeriodParents, ~ (w[q] \subseteq PeriodParents)  PROVE FALSE
  <2> DEFINE bad == {x \in Ends : ~ (w[x] \subseteq PeriodParents)}
  <2>1. w[NoBlock] \subseteq PeriodParents
    BY <1>2, <1>5 DEF WalkAt, Known
  <2>2. bad # {} /\ bad \subseteq Blocks
    BY <1>2, <1>6, <2>1, EndsAre
  <2>3. PICK e \in bad : \A x \in bad : Height[e] <= Height[x]
    BY <2>2, LowestExists, Zenon
  <2>4. e \in Ends /\ e \in PeriodParents /\ ~ (w[e] \subseteq PeriodParents)
    BY <1>2, <2>3
  <2>5. w[PreviousPeriodParent(e)] \subseteq PeriodParents
    <3>1. CASE PreviousPeriodParent(e) = NoBlock
      BY <2>1, <3>1
    <3>2. CASE PreviousPeriodParent(e) # NoBlock
      <4>1. PreviousPeriodParent(e) \in Ends /\ Height[PreviousPeriodParent(e)] < Height[e]
        BY <2>4, <3>2, PreviousEnd
      <4>2. Height[PreviousPeriodParent(e)] \in Nat /\ Height[e] \in Nat
        BY <2>4, <4>1, EndsAre, TreeAssumption
      <4> QED  BY <2>3, <4>1, <4>2
    <3> QED  BY <3>1, <3>2
  <2>6. w[e] \subseteq {e} \cup w[PreviousPeriodParent(e)]
    BY <1>5, <2>4, Zenon DEF WalkAt
  <2> QED  BY <2>4, <2>5, <2>6
<1> QED  BY <1>4, <1>6

-----------------------------------------------------------------------------
(* Since which height.                                                     *)

\* The period ends from which on the state is that of the period after p.
Runs(p) ==
    {e \in Ends \cap Chain[p] :
        /\ \A x \in Ends \cap Chain[p] : Height[e] <= Height[x] => Reference(x) = Reference(p)
        /\ \/ PreviousPeriodParent(e) = NoBlock
           \/ Reference(PreviousPeriodParent(e)) # Reference(p)}

Same(p) ==
    /\ PreviousPeriodParent(p) # NoBlock
    /\ Reference(PreviousPeriodParent(p)) = Reference(p)

\* One turn of the loop stays in the run of periods with the state.
LEMMA RunsStep ==
    ASSUME NEW p \in Ends
    PROVE  Runs(p) = IF Same(p) THEN Runs(PreviousPeriodParent(p)) ELSE {p}
<1> DEFINE q == PreviousPeriodParent(p)
<1>1. p \in Blocks /\ p \in Chain[p] /\ p # NoBlock /\ Height[p] \in Nat
  BY EndsAre, TreeAssumption, Chains DEF ChainOf, Ends
<1>2. /\ q = NoBlock => Ends \cap Chain[p] = {p}
      /\ q # NoBlock => /\ q \in Ends \cap Chain[p] /\ Height[q] < Height[p]
                        /\ Ends \cap Chain[p] = {p} \cup (Ends \cap Chain[q])
  BY PreviousEnd
<1>3. CASE Same(p)
  <2>1. q # NoBlock /\ Reference(q) = Reference(p)
    BY <1>3 DEF Same
  <2>2. p \notin Runs(p)
    BY <2>1 DEF Runs
  <2>3. p \notin Chain[q]
    <3>1. q \in Blocks /\ Height[q] \in Nat
      BY <1>2, <2>1, EndsAre, TreeAssumption
    <3> QED  BY <1>1, <1>2, <2>1, <3>1, Chains DEF ChainOf
  <2> HIDE DEF q
  <2>4. Runs(p) \subseteq Runs(q)
    BY <1>2, <2>1, <2>2 DEF Runs
  <2>5. Runs(q) \subseteq Runs(p)
    BY <1>2, <2>1 DEF Runs
  <2> QED  BY <1>3, <2>4, <2>5 DEF q
<1>4. CASE ~Same(p)
  <2>1. p \in Runs(p)
    <3>1. \A x \in Ends \cap Chain[p] : Height[p] <= Height[x] => x = p
      BY <1>1, EndsAre, TreeAssumption, Chains DEF ChainOf
    <3> QED  BY <1>1, <1>4, <3>1 DEF Runs, Same
  <2>2. ASSUME NEW e \in Runs(p), e # p  PROVE FALSE
    <3>1. q # NoBlock /\ e \in Ends \cap Chain[q]
      BY <1>2, <2>2 DEF Runs
    <3>2. q \in Ends \cap Chain[p] /\ q \in Blocks
      BY <1>2, <3>1, EndsAre
    <3>3. Height[e] <= Height[q]
      BY <3>1, <3>2, Chains DEF ChainOf
    <3>4. Reference(q) = Reference(p)
      BY <3>2, <3>3 DEF Runs
    <3> QED  BY <1>4, <3>1, <3>4 DEF Same
  <2> QED  BY <1>4, <2>1, <2>2
<1> QED  BY <1>3, <1>4

\* What the recursion of StateSinceHeight asks of a function.
BackAt(c, g, p) ==
    IF PreviousPeriodParent(p) # NoBlock
       /\ Computed(c)[PreviousPeriodParent(p)] = Computed(c)[p]
    THEN g[PreviousPeriodParent(p)]
    ELSE Height[p] + 1

Back(c) == CHOOSE g : g = [p \in PeriodParents \ {NoBlock} |-> BackAt(c, g, p)]

\* The loop goes back to the first period with the state.
LEMMA BackRight ==
    ASSUME dep \in Deployments, NEW c, Right(c), NEW p \in Ends
    PROVE  \E e \in Runs(p) : Back(c)[p] = Height[e] + 1
<1> DEFINE first == [x \in Ends |-> Height[CHOOSE e \in Runs(x) : TRUE] + 1]
           back == Back(c)
<1>1. Computed(c) = [x \in PeriodParents |-> Reference(x)]
  BY ComputedRight
<1>2. ASSUME NEW x \in Ends, NEW g
      PROVE  BackAt(c, g, x) = IF Same(x) THEN g[PreviousPeriodParent(x)] ELSE Height[x] + 1
  <2>1. x \in PeriodParents /\ PreviousPeriodParent(x) \in PeriodParents
    BY PreviousEnd DEF Ends
  <2> QED  BY <1>1, <2>1 DEF BackAt, Same
<1>3. ASSUME NEW x \in Ends, Same(x)
      PROVE  /\ PreviousPeriodParent(x) \in Ends
             /\ Height[PreviousPeriodParent(x)] < Height[x]
             /\ Height[PreviousPeriodParent(x)] \in Nat /\ Height[x] \in Nat
  <2>1. PreviousPeriodParent(x) \in Ends /\ Height[PreviousPeriodParent(x)] < Height[x]
    BY <1>3, PreviousEnd DEF Same
  <2> QED  BY <2>1, EndsAre, TreeAssumption
<1>4. ASSUME NEW x \in Ends  PROVE first[x] = BackAt(c, first, x)
  <2>1. CASE Same(x)
    BY <1>2, <1>3, <2>1, RunsStep
  <2>2. CASE ~Same(x)
    BY <1>2, <2>2, RunsStep
  <2> QED  BY <2>1, <2>2
<1>5. back = [x \in Ends |-> BackAt(c, back, x)]
  <2>1. back = CHOOSE g : g = [x \in Ends |-> BackAt(c, g, x)]
    BY Zenon DEF Back, Ends
  <2>2. first = [x \in Ends |-> BackAt(c, first, x)]
    BY <1>4
  <2> HIDE DEF first, back
  <2> QED  BY <2>1, <2>2, Zenon
<1> HIDE DEF back
<1> DEFINE bad == {x \in Ends : ~ \E e \in Runs(x) : back[x] = Height[e] + 1}
<1>6. ASSUME bad # {}  PROVE FALSE
  <2>1. bad \subseteq Blocks
    BY EndsAre
  <2>2. PICK x \in bad : \A y \in bad : Height[x] <= Height[y]
    BY <1>6, <2>1, LowestExists, Zenon
  <2>3. x \in Ends /\ back[x] = BackAt(c, back, x)
    BY <1>5, <2>2
  <2>4. CASE Same(x)
    <3>1. PreviousPeriodParent(x) \notin bad
      BY <1>3, <2>2, <2>3, <2>4
    <3> QED  BY <1>2, <1>3, <2>2, <2>3, <2>4, <3>1, RunsStep
  <2>5. CASE ~Same(x)
    BY <1>2, <2>2, <2>3, <2>5, RunsStep
  <2> QED  BY <2>4, <2>5
<1> QED  BY <1>6 DEF back

\* That period is the first from which on all blocks of the chain have the state.
LEMMA RunIsLowest ==
    ASSUME NEW b \in Blocks, PeriodParent(b) # NoBlock,
           Reference(PeriodParent(b)) # "DEFINED", NEW e \in Runs(PeriodParent(b))
    PROVE  Lowest({a \in Chain[b] : \A x \in Chain[b] : Height[x] >= Height[a] =>
                      Reference(PeriodParent(x)) = Reference(PeriodParent(b))}) = e
<1> DEFINE p == PeriodParent(b)
           same == {a \in Chain[b] : \A x \in Chain[b] : Height[x] >= Height[a] =>
                       Reference(PeriodParent(x)) = Reference(p)}
<1>1. p \in Ends \cap Chain[b] /\ \A x \in Ends \cap Chain[b] : Height[x] <= Height[p]
  BY ParentIsEnd
<1>2. p \in Blocks /\ ChainOf(b) /\ ChainOf(p)
  BY <1>1, EndsAre, Chains
<1>3. \A x \in Chain[b] : x \in Blocks /\ Height[x] \in Nat /\ ChainOf(x)
  BY <1>2, TreeAssumption, Chains DEF ChainOf
<1> HIDE DEF p
<1>4. /\ e \in Ends \cap Chain[p] /\ e \in Chain[b] /\ e \in Blocks /\ Height[e] \in Nat
      /\ \A x \in Ends \cap Chain[p] : Height[e] <= Height[x] => Reference(x) = Reference(p)
      /\ \/ PreviousPeriodParent(e) = NoBlock
         \/ Reference(PreviousPeriodParent(e)) # Reference(p)
  <2>1. e \in Runs(p)
    BY DEF p
  <2>2. /\ e \in Ends \cap Chain[p]
        /\ \A x \in Ends \cap Chain[p] : Height[e] <= Height[x] => Reference(x) = Reference(p)
        /\ \/ PreviousPeriodParent(e) = NoBlock
           \/ Reference(PreviousPeriodParent(e)) # Reference(p)
    BY <2>1, Zenon DEF Runs
  <2>3. e \in Chain[b]
    BY <1>1, <1>2, <2>2 DEF ChainOf
  <2> QED  BY <1>3, <2>2, <2>3
<1>5. ASSUME NEW x \in Chain[b], Height[x] >= Height[e]
      PROVE  Reference(PeriodParent(x)) = Reference(p)
  <2> DEFINE y == PeriodParent(x)
  <2>1. e \in Ends \cap Chain[x]
    BY <1>2, <1>3, <1>4, <1>5 DEF ChainOf
  <2>2. y \in Ends \cap Chain[x] /\ Height[e] <= Height[y]
    BY <1>3, <2>1, ParentIsEnd
  <2> HIDE DEF y
  <2>3. y \in Chain[b] /\ Height[y] <= Height[p]
    BY <1>1, <1>2, <2>2 DEF ChainOf
  <2>4. y \in Chain[p]
    BY <1>1, <1>2, <2>3 DEF ChainOf
  <2> QED  BY <1>4, <2>2, <2>4 DEF y
<1>6. ASSUME NEW a \in same, a # e, ~ (Height[e] < Height[a])  PROVE FALSE
  <2>1. Height[a] < Height[e] /\ Height[a] \in Nat /\ a \in Chain[b]
    BY <1>2, <1>3, <1>4, <1>6, SMTT(30) DEF ChainOf
  <2> DEFINE x == Parent[e]
  <2>2. x \in Blocks /\ Height[e] = Height[x] + 1 /\ Chain[e] = {e} \cup Chain[x]
    BY <1>4, <2>1, TreeAssumption
  <2> HIDE DEF x
  <2>3. x \in Chain[x] /\ x \in Chain[b] /\ Height[x] >= Height[a] /\ e \notin Chain[x]
    <3>1. ChainOf(x) /\ Height[x] \in Nat
      BY <2>2, Chains, TreeAssumption
    <3> QED  BY <1>2, <1>4, <2>1, <2>2, <3>1 DEF ChainOf
  <2>4. Reference(PeriodParent(x)) = Reference(p)
    BY <1>6, <2>3
  <2>5. Ends \cap Chain[e] = {e} \cup (Ends \cap Chain[x])
    BY <1>4, <2>2
  <2>6. CASE PreviousPeriodParent(e) = NoBlock
    <3>1. Ends \cap Chain[x] = {}
      BY <1>4, <2>3, <2>5, <2>6, PreviousEnd
    <3>2. PeriodParent(x) = NoBlock
      BY <2>2, <3>1, ParentIsEnd
    <3> QED  BY <2>4, <3>2, ReferenceIs DEF p
  <2>7. CASE PreviousPeriodParent(e) # NoBlock
    <3> DEFINE q == PreviousPeriodParent(e)
    <3>1. q \in Ends /\ Height[q] < Height[e] /\ Ends \cap Chain[e] = {e} \cup (Ends \cap Chain[q])
      BY <1>4, <2>7, PreviousEnd
    <3> HIDE DEF q
    <3>2. q \in Blocks /\ Height[q] \in Nat /\ ChainOf(q)
      BY <3>1, EndsAre, TreeAssumption, Chains
    <3>3. e \notin Chain[q]
      BY <1>4, <3>1, <3>2 DEF ChainOf
    <3>4. Ends \cap Chain[x] = Ends \cap Chain[q]
      BY <2>3, <2>5, <3>1, <3>3
    <3>5. q \in Ends \cap Chain[x]
      BY <3>1, <3>2, <3>4 DEF ChainOf
    <3>6. PeriodParent(x) \in Ends \cap Chain[q] /\ Height[q] <= Height[PeriodParent(x)]
      BY <2>2, <3>4, <3>5, ParentIsEnd
    <3>7. PeriodParent(x) = q
      <4>1. PeriodParent(x) \in Blocks /\ Height[PeriodParent(x)] \in Nat
        BY <3>6, EndsAre, TreeAssumption
      <4> QED  BY <3>2, <3>6, <4>1 DEF ChainOf
    <3> QED  BY <1>4, <2>4, <2>7, <3>7 DEF q
  <2> QED  BY <2>6, <2>7
<1>7. same \subseteq Blocks /\ e \in same
  BY <1>3, <1>4, <1>5
<1> HIDE DEF same
<1>8. Lowest(same) = e
  BY <1>6, <1>7, LowestIs
<1> QED  BY <1>8 DEF same, p

-----------------------------------------------------------------------------
(* The theorems.                                                           *)

\* The cache is right, on all branches at once.
IInv == dep \in Deployments /\ Right(cache)

\* The empty cache is right.
LEMMA InitIInv == Init => IInv
BY DEF Init, IInv, Right

\* Every question leaves the cache right, and clearing it does.
LEMMA NextIInv == IInv /\ [Next]_vars => IInv'
<1> SUFFICES ASSUME IInv, [Next]_vars  PROVE IInv'
  OBVIOUS
<1>1. dep' = dep /\ signals' = signals
  BY DEF Next, GetStateFor, Clear, vars
<1>2. \A p : Reference(p)' = Reference(p)
  BY <1>1 DEF Reference, BeforeStart, AfterTimeout, Count, fHeightBased
<1>3. ASSUME NEW c, Right(c), cache' = c  PROVE Right(cache)'
  BY <1>2, <1>3 DEF Right
<1>4. CASE Clear
  <2>1. Right([b \in {} |-> "DEFINED"])
    BY DEF Right
  <2> QED  BY <1>1, <1>3, <1>4, <2>1 DEF Clear, IInv
<1>5. ASSUME NEW b \in Blocks \cup {NoBlock}, GetStateFor(b)  PROVE IInv'
  <2>1. PeriodParent(b) \in PeriodParents
    <3>1. CASE b = NoBlock
      BY <3>1 DEF PeriodParent, PeriodParents
    <3> QED  BY <3>1, ParentIsEnd
  <2>2. Right(Filled(cache, PeriodParent(b)))
    <3>1. Walk(cache, PeriodParent(b)) \subseteq PeriodParents
      BY <2>1, WalkIn
    <3>2. Computed(cache) = [p \in PeriodParents |-> Reference(p)]
      BY ComputedRight DEF IInv
    <3> QED  BY <3>1, <3>2 DEF Right, Filled, IInv
  <2>3. Right(CacheAfter(cache, b))
    BY <2>2 DEF CacheAfter, IInv
  <2> QED  BY <1>1, <1>3, <1>5, <2>3 DEF GetStateFor, IInv
<1>6. CASE UNCHANGED vars
  BY <1>1, <1>3, <1>6 DEF IInv, vars
<1> QED  BY <1>4, <1>5, <1>6 DEF Next

\* The state of a period is one of the five of ThresholdState.
LEMMA ReferenceType ==
    \A p \in PeriodParents :
       Reference(p) \in {"DEFINED", "STARTED", "LOCKED_IN", "ACTIVE", "FAILED"}
BY ReferenceIs DEF Ends

\* For every block tree, period, threshold and deployment, and whatever was asked before on
\* whichever branch, AbstractThresholdConditionChecker::GetStateFor answers what the whole
\* chain of the block gives.
THEOREM AnswersExact == Spec => []AnswerExact
<1>1. ASSUME IInv  PROVE AnswerExact
  <2>1. TypeOK
    BY <1>1, ReferenceType DEF IInv, Right, TypeOK
  <2>2. ASSUME ~Fixed, NEW b \in Blocks  PROVE StateFor(cache, b) = Reference(PeriodParent(b))
    <3>1. PeriodParent(b) \in PeriodParents
      BY ParentIsEnd
    <3>2. StateFor(cache, b) = Computed(cache)[PeriodParent(b)]
      BY <2>2 DEF StateFor, Fixed
    <3> QED  BY <1>1, <3>1, <3>2, ComputedRight DEF IInv
  <2> QED  BY <2>1, <2>2 DEF AnswerExact
<1> QED  BY <1>1, InitIInv, NextIInv, PTL DEF Spec

\* And GetStateSinceHeightFor gives the first height from which on every block of the chain
\* has that state.
THEOREM SinceHeightsExact == Spec => []SinceHeightExact
<1>1. ASSUME IInv  PROVE SinceHeightExact
  <2> SUFFICES ASSUME NEW b \in Blocks, ~Fixed, Reference(PeriodParent(b)) # "DEFINED"
               PROVE  StateSinceHeight(cache, b) =
                         Height[Lowest({a \in Chain[b] :
                             \A x \in Chain[b] : Height[x] >= Height[a] =>
                                 Reference(PeriodParent(x)) = Reference(PeriodParent(b))})] + 1
    BY DEF SinceHeightExact
  <2>1. PeriodParent(b) \in Ends /\ PeriodParent(b) # NoBlock /\ PeriodParent(b) \in PeriodParents
    BY ParentIsEnd, ReferenceIs
  <2>2. StateFor(cache, b) # "DEFINED"
    BY <1>1, <2>1, ComputedRight DEF StateFor, Fixed, IInv
  <2>3. StateSinceHeight(cache, b) = Back(cache)[PeriodParent(b)]
    BY <2>2, Zenon DEF StateSinceHeight, Fixed, Back, BackAt
  <2>4. PICK e \in Runs(PeriodParent(b)) : Back(cache)[PeriodParent(b)] = Height[e] + 1
    BY <1>1, <2>1, BackRight DEF IInv
  <2> QED  BY <2>1, <2>3, <2>4, RunIsLowest
<1> QED  BY <1>1, InitIInv, NextIInv, PTL DEF Spec
=============================================================================

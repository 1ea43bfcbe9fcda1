-------------------------- MODULE CoinsCacheProofs --------------------------
(***************************************************************************)
(* Proofs about CoinsCache for any sets of outpoints, coins and blocks.    *)
(*                                                                         *)
(* The lemmas are about one cache over one base: every operation keeps the *)
(* cache coherent and changes what it shows exactly as the abstract        *)
(* operation does. The theorems put the two levels together.  The byte     *)
(* count needs facts about sums over the outpoints.                        *)
(***************************************************************************)
EXTENDS CoinsCache, FiniteSetTheorems, TLAPS

\* What a cache shows is a set of unspent outputs.
LEMMA ThroughType ==
    ASSUME NEW c \in Caches, NEW base \in Utxos
    PROVE  Through(c, base) \in Utxos
BY Zenon DEF Through, Caches, Utxos, Entries

\* An empty cache is coherent over anything and shows its base.
LEMMA EmptyFacts ==
    ASSUME NEW base \in Utxos
    PROVE  /\ EmptyCache \in Caches
           /\ Coherent(EmptyCache, base)
           /\ Through(EmptyCache, base) = base
BY Zenon DEF EmptyCache, Caches, Coherent, Through, Utxos

\* FetchCoin: reading fills the cache and changes nothing that is shown.
LEMMA FetchFacts ==
    ASSUME NEW c \in Caches, NEW base \in Utxos, NEW o \in Outpoints,
           Coherent(c, base)
    PROVE  /\ FetchCoin(c, base, o) \in Caches
           /\ Coherent(FetchCoin(c, base, o), base)
           /\ Through(FetchCoin(c, base, o), base) = Through(c, base)
<1>1. CASE c[o] = NotCached /\ base[o] # Spent
  <2> DEFINE e == [coin |-> base[o], dirty |-> FALSE, fresh |-> FALSE]
  <2>a. e \in Entries
    BY Zenon DEF Entries, Utxos
  <2>1. e \in Entries /\ e # NotCached
    BY <2>a, NotCachedNotEntry, Zenon
  <2>2. FetchCoin(c, base, o) = [c EXCEPT ![o] = e]
    BY <1>1, Zenon DEF FetchCoin
  <2> QED
    BY <1>1, <2>1, <2>2 DEF Caches, Coherent, Through, Utxos
<1>2. CASE ~(c[o] = NotCached /\ base[o] # Spent)
  BY <1>2, Zenon DEF FetchCoin
<1> QED BY <1>1, <1>2, Zenon

\* AddCoin: the coin is shown, unless its script is unspendable.
LEMMA AddFacts ==
    ASSUME NEW c \in Caches, NEW base \in Utxos, NEW o \in Outpoints,
           NEW coin \in Coins, NEW overwrite \in BOOLEAN,
           Coherent(c, base),
           overwrite \/ Through(c, base)[o] = Spent
    PROVE  /\ AddCoin(c, o, coin, overwrite) \in Caches
           /\ Coherent(AddCoin(c, o, coin, overwrite), base)
           /\ Through(AddCoin(c, o, coin, overwrite), base) =
                 IF coin \in Unspendable THEN Through(c, base)
                 ELSE [Through(c, base) EXCEPT ![o] = coin]
<1>1. CASE coin \in Unspendable
  BY <1>1, Zenon DEF AddCoin
<1>2. CASE coin \notin Unspendable
  <2> DEFINE wasDirty == c[o] # NotCached /\ c[o].dirty
             wasFresh == c[o] # NotCached /\ c[o].fresh
             e == [coin |-> coin, dirty |-> TRUE,
                   fresh |-> wasFresh \/ (~overwrite /\ ~wasDirty)]
  <2>1. c[o] \in Entries \cup {NotCached}
    BY Zenon DEF Caches
  <2>a. e.fresh \in BOOLEAN
    BY <2>1, Zenon
  <2>b. e \in Entries
    BY <2>1, <2>a, Zenon DEF Entries
  <2>2. e \in Entries /\ e # NotCached
    BY <2>b, NotCachedNotEntry, Zenon
  <2>3. AddCoin(c, o, coin, overwrite) = [c EXCEPT ![o] = e]
    BY <1>2, Zenon DEF AddCoin
  <2>4. e.fresh => base[o] = Spent
    <3>1. CASE wasFresh
      BY <3>1, Zenon DEF Coherent
    <3>2. CASE ~overwrite /\ ~wasDirty
      <4>1. Through(c, base)[o] = Spent
        BY <3>2, Zenon
      <4> QED
        BY <3>2, <4>1, <2>1, Zenon DEF Coherent, Through, Entries
    <3> QED BY <3>1, <3>2, Zenon
  <2>5. [c EXCEPT ![o] = e] \in Caches
    BY <2>2, Zenon DEF Caches
  <2>6. Coherent([c EXCEPT ![o] = e], base)
    BY <2>2, <2>4, SpentNotCoin, Zenon DEF Coherent, Caches
  <2>7. Through([c EXCEPT ![o] = e], base) = [Through(c, base) EXCEPT ![o] = coin]
    BY <2>2, Zenon DEF Through, Caches
  <2> QED BY <1>2, <2>3, <2>5, <2>6, <2>7, Zenon
<1> QED BY <1>1, <1>2, Zenon

\* SpendCoin: the outpoint is shown as spent, even when the entry is erased
\* because the base never had the coin.
LEMMA SpendFacts ==
    ASSUME NEW c \in Caches, NEW base \in Utxos, NEW o \in Outpoints,
           Coherent(c, base)
    PROVE  LET f == FetchCoin(c, base, o) IN
           /\ SpendCoin(f, o) \in Caches
           /\ Coherent(SpendCoin(f, o), base)
           /\ Through(SpendCoin(f, o), base) = [Through(c, base) EXCEPT ![o] = Spent]
<1> DEFINE f == FetchCoin(c, base, o)
<1>1. f \in Caches /\ Coherent(f, base) /\ Through(f, base) = Through(c, base)
  BY FetchFacts, Zenon
<1>2. Through(c, base) = Through(f, base) /\ f[o] \in Entries \cup {NotCached}
  BY <1>1, Zenon DEF Caches
<1>a. f[o] = NotCached => base[o] = Spent
  <2> DEFINE e == [coin |-> base[o], dirty |-> FALSE, fresh |-> FALSE]
  <2>1. e \in Entries
    BY Zenon DEF Entries, Utxos
  <2>2. e # NotCached
    BY <2>1, NotCachedNotEntry, Zenon
  <2> QED
    BY <2>2, Zenon DEF FetchCoin, Caches
<1> SUFFICES /\ SpendCoin(f, o) \in Caches
             /\ Coherent(SpendCoin(f, o), base)
             /\ Through(SpendCoin(f, o), base) = [Through(c, base) EXCEPT ![o] = Spent]
  BY Zenon
<1> HIDE DEF f
<1>3. CASE f[o] = NotCached
  BY <1>1, <1>a, <1>3, Zenon DEF SpendCoin, Through, Caches
<1>4. CASE f[o] # NotCached /\ f[o].fresh
  BY <1>1, <1>4, ZenonT(60) DEF SpendCoin, Through, Caches, Coherent
<1>5. CASE f[o] # NotCached /\ ~f[o].fresh
  <2> DEFINE e == [f[o] EXCEPT !.coin = Spent, !.dirty = TRUE]
  <2>a. e \in Entries /\ e.dirty /\ ~e.fresh /\ e.coin = Spent
    BY <1>2, <1>5, Zenon DEF Entries
  <2>1. e \in Entries /\ e # NotCached /\ e.dirty /\ ~e.fresh /\ e.coin = Spent
    BY <2>a, NotCachedNotEntry, Zenon
  <2>2. SpendCoin(f, o) = [f EXCEPT ![o] = e]
    BY <1>1, <1>2, <1>5, Zenon DEF SpendCoin, Caches, Entries
  <2> HIDE DEF e
  <2>3. [f EXCEPT ![o] = e] \in Caches
    BY <1>1, <2>1, Zenon DEF Caches
  <2>4. Coherent([f EXCEPT ![o] = e], base)
    BY <1>1, <2>1, Zenon DEF Caches, Coherent
  <2>5. Through([f EXCEPT ![o] = e], base) = [Through(f, base) EXCEPT ![o] = Spent]
    BY <1>1, <2>1, Zenon DEF Caches, Through
  <2> QED BY <1>1, <2>2, <2>3, <2>4, <2>5, Zenon
<1> QED BY <1>3, <1>4, <1>5, Zenon

\* BatchWrite: the parent stays coherent over its own base and now shows what
\* the child showed. Nothing is said of a child marked FRESH over an unspent
\* coin: coherence of the child excludes it.
LEMMA WriteFacts ==
    ASSUME NEW parent \in Caches, NEW child \in Caches, NEW base \in Utxos,
           Coherent(parent, base), Coherent(child, Through(parent, base))
    PROVE  /\ BatchWrite(parent, child) \in Caches
           /\ Coherent(BatchWrite(parent, child), base)
           /\ Through(BatchWrite(parent, child), base) =
                 Through(child, Through(parent, base))
           /\ ~FreshMisapplied(parent, child)
<1> DEFINE w(o) == WriteEntry(parent[o], child[o])
           made(o, b) == [coin |-> child[o].coin, dirty |-> TRUE, fresh |-> b]
<1>1. ASSUME NEW o \in Outpoints
      PROVE  /\ parent[o] \in Entries \cup {NotCached}
             /\ child[o] \in Entries \cup {NotCached}
             /\ base[o] \in Coins \cup {Spent}
  BY Zenon DEF Caches, Utxos
<1>2. ASSUME NEW o \in Outpoints, NEW b \in BOOLEAN, child[o] # NotCached
      PROVE  made(o, b) \in Entries /\ made(o, b) # NotCached
  <2>1. made(o, b) \in Entries
    BY <1>1, <1>2, Zenon DEF Entries
  <2> QED BY <2>1, NotCachedNotEntry, Zenon
<1>3. ASSUME NEW o \in Outpoints
      PROVE  /\ w(o) \in Entries \cup {NotCached}
             /\ w(o) # NotCached =>
                  /\ ~w(o).dirty => w(o).coin = base[o] /\ base[o] # Spent
                  /\ w(o).fresh => w(o).dirty /\ w(o).coin # Spent /\ base[o] = Spent
             /\ (IF w(o) = NotCached THEN base[o] ELSE w(o).coin) =
                  (IF child[o] = NotCached THEN Through(parent, base)[o] ELSE child[o].coin)
  <2>0. Through(parent, base)[o] = IF parent[o] = NotCached THEN base[o] ELSE parent[o].coin
    BY Zenon DEF Through
  <2>a. parent[o] # NotCached =>
          /\ ~parent[o].dirty => parent[o].coin = base[o] /\ base[o] # Spent
          /\ parent[o].fresh => parent[o].dirty /\ parent[o].coin # Spent /\ base[o] = Spent
    BY Zenon DEF Coherent
  <2>b. child[o] # NotCached =>
          /\ ~child[o].dirty => /\ child[o].coin = Through(parent, base)[o]
                                /\ Through(parent, base)[o] # Spent
          /\ child[o].fresh => /\ child[o].dirty /\ child[o].coin # Spent
                               /\ Through(parent, base)[o] = Spent
    BY Zenon DEF Coherent
  <2>1. CASE child[o] = NotCached
    BY <1>1, <2>0, <2>a, <2>1, Zenon DEF WriteEntry
  <2>2. CASE child[o] # NotCached /\ ~child[o].dirty
    BY <1>1, <2>0, <2>a, <2>b, <2>2, Zenon DEF WriteEntry
  <2>3. CASE child[o] # NotCached /\ child[o].dirty /\ parent[o] = NotCached
    <3>1. child[o].fresh \in BOOLEAN
      BY <1>1, <2>3, Zenon DEF Entries
    <3>2. made(o, child[o].fresh) \in Entries /\ made(o, child[o].fresh) # NotCached
      BY <1>2, <2>3, <3>1, Zenon
    <3>3. w(o) = made(o, child[o].fresh)
      BY <2>b, <2>3, Zenon DEF WriteEntry
    <3> QED
      BY <2>0, <2>b, <2>3, <3>2, <3>3
  <2>4. CASE child[o] # NotCached /\ child[o].dirty /\ parent[o] # NotCached
    <3>1. parent[o].fresh \in BOOLEAN
      BY <1>1, <2>4, Zenon DEF Entries
    <3>2. made(o, parent[o].fresh) \in Entries /\ made(o, parent[o].fresh) # NotCached
      BY <1>2, <2>4, <3>1, Zenon
    <3>3. CASE parent[o].fresh /\ child[o].coin = Spent
      <4>1. w(o) = NotCached
        BY <2>4, <3>3, Zenon DEF WriteEntry
      <4> QED BY <2>a, <2>4, <3>3, <4>1, Zenon
    <3>4. CASE ~(parent[o].fresh /\ child[o].coin = Spent)
      <4>1. w(o) = made(o, parent[o].fresh)
        BY <2>4, <3>4, Zenon DEF WriteEntry
      <4> QED BY <2>a, <2>4, <3>2, <3>4, <4>1
    <3> QED BY <3>3, <3>4, Zenon
  <2> QED BY <2>1, <2>2, <2>3, <2>4, Zenon
<1>4. BatchWrite(parent, child) = [o \in Outpoints |-> w(o)]
  BY Zenon DEF BatchWrite
<1> HIDE DEF w
<1>5. BatchWrite(parent, child) \in Caches
  BY <1>3, <1>4, Zenon DEF Caches
<1>6. Coherent(BatchWrite(parent, child), base)
  BY <1>3, <1>4 DEF Coherent
<1>7. Through(BatchWrite(parent, child), base) = Through(child, Through(parent, base))
  BY <1>3, <1>4, Zenon DEF Through
<1>8. ~FreshMisapplied(parent, child)
  BY Zenon DEF FreshMisapplied, Coherent, Through, CachedCoin
<1> QED BY <1>5, <1>6, <1>7, <1>8, Zenon

\* A flush of CoinsTip() leaves in the database what CoinsTip() showed.
LEMMA DbWriteFacts ==
    ASSUME db \in Utxos, tip \in Caches, Coherent(tip, db)
    PROVE  DbWrite(tip) \in Utxos /\ DbWrite(tip) = TipCoins
<1>1. DbWrite(tip) = TipCoins
  BY Zenon DEF DbWrite, TipCoins, Through, Coherent, Caches, Utxos
<1> QED BY <1>1, ThroughType, Zenon DEF TipCoins

-----------------------------------------------------------------------------
(* The sum over the outpoints, taken in the order of Pick.                 *)

Pick(s) == CHOOSE x \in s : TRUE

Sums == [SUBSET Outpoints -> Int]

Plus(f, g, s) == IF s = {} THEN 0 ELSE f[Pick(s)] + g[s \ {Pick(s)}]

\* The sums of f over the sets of outpoints, as the recursion of Total has them.
SumsOf(f) == CHOOSE g : g = [s \in SUBSET Outpoints |-> Plus(f, g, s)]

\* A set of numbers that is not empty has a smallest one.
LEMMA SmallestNumber ==
    ASSUME NEW S, S \subseteq Nat, S # {}
    PROVE  \E m \in S : \A k \in S : m <= k
<1>1. PICK m \in S : \A k \in S : ~ (<<k, m>> \in OpToRel(<, Nat))
  BY WFMin, NatLessThanWellFounded, Zenon
<1>2. ASSUME NEW k \in S  PROVE m <= k
  <2>1. <<k, m>> \in Nat \X Nat /\ <<k, m>>[1] = k /\ <<k, m>>[2] = m
    BY Zenon
  <2>2. ~ (k < m)
    BY <1>1, <2>1, Zenon DEF OpToRel
  <2> QED  BY <2>2
<1> QED  BY <1>2, Zenon

\* What is left of a set when the picked outpoint is taken is smaller by one.
LEMMA PickFacts ==
    ASSUME NEW s \in SUBSET Outpoints
    PROVE  /\ Cardinality(s) \in Nat
           /\ Cardinality(s) = 0 <=> s = {}
           /\ Cardinality(s) <= Cardinality(Outpoints)
           /\ s # {} => /\ Pick(s) \in s
                        /\ s \ {Pick(s)} \in SUBSET Outpoints
                        /\ Cardinality(s \ {Pick(s)}) = Cardinality(s) - 1
<1>1. IsFiniteSet(s) /\ Cardinality(s) <= Cardinality(Outpoints)
  BY FiniteOutpoints, FS_Subset, Zenon
<1>2. Cardinality(s) \in Nat /\ (Cardinality(s) = 0 <=> s = {})
  BY <1>1, FS_CardinalityType, FS_EmptySet, Zenon
<1>3. ASSUME s # {}
      PROVE  /\ Pick(s) \in s /\ s \ {Pick(s)} \in SUBSET Outpoints
             /\ Cardinality(s \ {Pick(s)}) = Cardinality(s) - 1
  <2>1. Pick(s) \in s
    BY <1>3, Zenon DEF Pick
  <2> QED  BY <1>1, <2>1, FS_RemoveElement, Zenon
<1> QED  BY <1>1, <1>2, <1>3, Zenon

\* Among sets of outpoints there is one of the smallest size.
LEMMA SmallestSet ==
    ASSUME NEW Bad, Bad \subseteq SUBSET Outpoints, Bad # {}
    PROVE  \E s \in Bad : \A t \in Bad : Cardinality(s) <= Cardinality(t)
<1> DEFINE sizes == {Cardinality(s) : s \in Bad}
<1>1. \A s \in Bad : Cardinality(s) \in Nat
  BY PickFacts, Zenon
<1>2. PICK m \in sizes : \A k \in sizes : m <= k
  <2>1. sizes \subseteq Nat /\ sizes # {}
    BY <1>1, Zenon
  <2> HIDE DEF sizes
  <2> QED  BY <2>1, SmallestNumber, Zenon
<1> QED  BY <1>2, Zenon

\* The recursion of Total has a solution: if one is right for the sets of fewer
\* than n outpoints, then there is one that is right for those of n.
LEMMA SumsExist ==
    ASSUME NEW f \in [Outpoints -> Int]
    PROVE  \E g \in Sums : \A s \in SUBSET Outpoints : g[s] = Plus(f, g, s)
<1> DEFINE Upto(n, g) == \A s \in SUBSET Outpoints : Cardinality(s) <= n => g[s] = Plus(f, g, s)
           bad == {n \in Nat : ~ \E g \in Sums : Upto(n, g)}
<1>1. ASSUME bad # {}  PROVE FALSE
  <2>1. PICK n \in bad : \A k \in bad : n <= k
    <3>1. bad \subseteq Nat
      BY Zenon
    <3> HIDE DEF bad
    <3> QED  BY <1>1, <3>1, SmallestNumber, Zenon
  <2>2. PICK g \in Sums : n # 0 => Upto(n - 1, g)
    <3>1. CASE n = 0
      <4>1. [s \in SUBSET Outpoints |-> 0] \in Sums
        BY DEF Sums
      <4> QED  BY <3>1, <4>1, Zenon
    <3>2. CASE n # 0
      <4>1. n - 1 \in Nat /\ n - 1 \notin bad
        BY <2>1, <3>2
      <4> QED  BY <4>1, Zenon
    <3> QED  BY <3>1, <3>2, Zenon
  <2> DEFINE h == [s \in SUBSET Outpoints |-> Plus(f, g, s)]
  <2>3. h \in Sums
    <3>1. ASSUME NEW s \in SUBSET Outpoints  PROVE Plus(f, g, s) \in Int
      <4>1. s # {} => f[Pick(s)] \in Int /\ g[s \ {Pick(s)}] \in Int
        BY PickFacts, Zenon DEF Sums
      <4> QED  BY <4>1 DEF Plus
    <3> QED  BY <3>1, Zenon DEF Sums
  <2>4. ASSUME NEW s \in SUBSET Outpoints, Cardinality(s) <= n  PROVE h[s] = Plus(f, h, s)
    <3>1. CASE s = {}
      BY <3>1, Zenon DEF Plus
    <3>2. CASE s # {}
      <4> DEFINE t == s \ {Pick(s)}
      <4>1. t \in SUBSET Outpoints /\ n # 0 /\ Cardinality(t) <= n - 1
        BY <2>4, <3>2, PickFacts
      <4>2. g[t] = Plus(f, g, t) /\ h[t] = Plus(f, g, t)
        BY <2>2, <4>1, Zenon
      <4> QED  BY <3>2, <4>2, Zenon DEF Plus
    <3> QED  BY <3>1, <3>2, Zenon
  <2>5. Upto(n, h)
    BY <2>4, Zenon
  <2> HIDE DEF h
  <2> QED  BY <2>1, <2>3, <2>5, Zenon
<1>2. Cardinality(Outpoints) \in Nat
  BY PickFacts, Zenon
<1>3. PICK g \in Sums : Upto(Cardinality(Outpoints), g)
  BY <1>1, <1>2, Zenon
<1> QED  BY <1>3, PickFacts, Zenon

\* Total is the last of these sums.
LEMMA SumsFacts ==
    ASSUME NEW f \in [Outpoints -> Int]
    PROVE  /\ SumsOf(f) \in Sums
           /\ \A s \in SUBSET Outpoints : SumsOf(f)[s] = Plus(f, SumsOf(f), s)
           /\ Total(f) = SumsOf(f)[Outpoints]
<1>1. PICK g \in Sums : \A s \in SUBSET Outpoints : g[s] = Plus(f, g, s)
  BY SumsExist, Zenon
<1>2. g = [s \in SUBSET Outpoints |-> Plus(f, g, s)]
  BY <1>1, Zenon DEF Sums
<1>3. SumsOf(f) = [s \in SUBSET Outpoints |-> Plus(f, SumsOf(f), s)]
  BY <1>2, Zenon DEF SumsOf
<1>4. \A s \in SUBSET Outpoints : SumsOf(f)[s] = Plus(f, SumsOf(f), s)
  BY <1>3, Zenon
<1>5. SumsOf(f) \in Sums
  <2> DEFINE bad == {s \in SUBSET Outpoints : SumsOf(f)[s] \notin Int}
  <2>1. ASSUME bad # {}  PROVE FALSE
    <3>1. PICK s \in bad : \A t \in bad : Cardinality(s) <= Cardinality(t)
      <4>1. bad \subseteq SUBSET Outpoints
        BY Zenon
      <4> HIDE DEF bad
      <4> QED  BY <2>1, <4>1, SmallestSet, Zenon
    <3>2. SumsOf(f)[s] = Plus(f, SumsOf(f), s) /\ SumsOf(f)[s] \notin Int
      BY <1>4, <3>1, Zenon
    <3>3. CASE s = {}
      BY <3>2, <3>3 DEF Plus
    <3>4. CASE s # {}
      <4> DEFINE t == s \ {Pick(s)}
      <4>1. /\ Pick(s) \in Outpoints /\ t \in SUBSET Outpoints
            /\ ~ (Cardinality(s) <= Cardinality(t))
        BY <3>1, <3>4, PickFacts
      <4>2. SumsOf(f)[t] \in Int /\ f[Pick(s)] \in Int
        BY <3>1, <4>1, Zenon
      <4> QED  BY <3>2, <3>4, <4>2 DEF Plus
    <3> QED  BY <3>3, <3>4, Zenon
  <2> QED  BY <1>3, <2>1, Zenon DEF Sums
<1>6. Total(f) = SumsOf(f)[Outpoints]
  BY Zenon DEF Total, MapThenSumSet, MapThenFoldSet, SumsOf, Plus, Pick
<1> QED  BY <1>4, <1>5, <1>6, Zenon

\* Sums are added outpoint by outpoint.
LEMMA TotalAdds ==
    ASSUME NEW f \in [Outpoints -> Int], NEW g \in [Outpoints -> Int],
           NEW h \in [Outpoints -> Int], \A o \in Outpoints : h[o] = f[o] + g[o]
    PROVE  Total(f) \in Int /\ Total(g) \in Int /\ Total(h) = Total(f) + Total(g)
<1> DEFINE F == SumsOf(f)
           G == SumsOf(g)
           H == SumsOf(h)
           bad == {s \in SUBSET Outpoints : H[s] # F[s] + G[s]}
<1>1. /\ F \in Sums /\ G \in Sums /\ H \in Sums
      /\ \A s \in SUBSET Outpoints :
            F[s] = Plus(f, F, s) /\ G[s] = Plus(g, G, s) /\ H[s] = Plus(h, H, s)
      /\ Total(f) = F[Outpoints] /\ Total(g) = G[Outpoints] /\ Total(h) = H[Outpoints]
  BY SumsFacts, Zenon
<1> HIDE DEF F, G, H
<1>2. ASSUME bad # {}  PROVE FALSE
  <2>1. PICK s \in bad : \A t \in bad : Cardinality(s) <= Cardinality(t)
    <3>1. bad \subseteq SUBSET Outpoints
      BY Zenon
    <3> HIDE DEF bad
    <3> QED  BY <1>2, <3>1, SmallestSet, Zenon
  <2>2. CASE s = {}
    <3>1. F[s] = 0 /\ G[s] = 0 /\ H[s] = 0
      BY <1>1, <2>1, <2>2, Zenon DEF Plus
    <3> QED  BY <2>1, <3>1
  <2>3. CASE s # {}
    <3> DEFINE x == Pick(s)
               t == s \ {x}
    <3>1. x \in Outpoints /\ t \in SUBSET Outpoints /\ t \notin bad
      BY <2>1, <2>3, PickFacts
    <3>2. F[s] = f[x] + F[t] /\ G[s] = g[x] + G[t] /\ H[s] = h[x] + H[t]
      BY <1>1, <2>1, <2>3, Zenon DEF Plus
    <3>3. /\ F[t] \in Int /\ G[t] \in Int /\ H[t] = F[t] + G[t]
          /\ f[x] \in Int /\ g[x] \in Int /\ h[x] = f[x] + g[x]
      BY <1>1, <3>1, Zenon DEF Sums
    <3> HIDE DEF x, t
    <3> QED  BY <2>1, <3>2, <3>3
  <2> QED  BY <2>2, <2>3, Zenon
<1> QED  BY <1>1, <1>2 DEF Sums

\* The sum of a function that is 0 but at one outpoint.
LEMMA TotalSingle ==
    ASSUME NEW f \in [Outpoints -> Int], NEW o \in Outpoints,
           \A x \in Outpoints \ {o} : f[x] = 0
    PROVE  Total(f) = f[o]
<1> DEFINE F == SumsOf(f)
           bad == {s \in SUBSET Outpoints : F[s] # IF o \in s THEN f[o] ELSE 0}
<1>1. /\ F \in Sums /\ Total(f) = F[Outpoints]
      /\ \A s \in SUBSET Outpoints : F[s] = Plus(f, F, s)
  BY SumsFacts, Zenon
<1> HIDE DEF F
<1>2. ASSUME bad # {}  PROVE FALSE
  <2>1. PICK s \in bad : \A t \in bad : Cardinality(s) <= Cardinality(t)
    <3>1. bad \subseteq SUBSET Outpoints
      BY Zenon
    <3> HIDE DEF bad
    <3> QED  BY <1>2, <3>1, SmallestSet, Zenon
  <2>2. CASE s = {}
    BY <1>1, <2>1, <2>2, Zenon DEF Plus
  <2>3. CASE s # {}
    <3> DEFINE x == Pick(s)
               t == s \ {x}
    <3>1. x \in s /\ x \in Outpoints /\ t \in SUBSET Outpoints /\ t \notin bad
      BY <2>1, <2>3, PickFacts
    <3>2. F[s] = f[x] + F[t]
      BY <1>1, <2>1, <2>3, Zenon DEF Plus
    <3>3. F[t] = IF o \in t THEN f[o] ELSE 0
      BY <3>1, Zenon
    <3>4. (o \in t <=> o \in s /\ o # x) /\ f[o] \in Int /\ f[x] \in Int
      BY <3>1, Zenon
    <3> HIDE DEF x, t
    <3>5. F[s] = IF o \in s THEN f[o] ELSE 0
      <4>1. CASE x = o
        BY <3>1, <3>2, <3>3, <3>4, <4>1
      <4>2. CASE x # o
        BY <3>1, <3>2, <3>3, <3>4, <4>2
      <4> QED  BY <4>1, <4>2, Zenon
    <3> QED  BY <2>1, <3>5, Zenon
  <2> QED  BY <2>2, <2>3, Zenon
<1> QED  BY <1>1, <1>2, Zenon

-----------------------------------------------------------------------------
(* The byte count: what an operation adds to it is what it adds to the     *)
(* sizes of the coins held.                                                *)

Size(e) == CoinUsage[CachedCoin(e)]

\* The size of an entry is a number, 0 when there is none or it is spent.
LEMMA SizeFacts ==
    ASSUME NEW e \in Entries \cup {NotCached}
    PROVE  /\ Size(e) \in Nat
           /\ e = NotCached => Size(e) = 0
           /\ e # NotCached => Size(e) = CoinUsage[e.coin]
BY CoinUsageType, Zenon DEF Size, CachedCoin, Entries

\* If the sizes change by d, outpoint by outpoint, their sum changes by that of d.
LEMMA UsageAdds ==
    ASSUME NEW a \in Caches, NEW b \in Caches, NEW d \in [Outpoints -> Int],
           \A o \in Outpoints : Size(b[o]) = Size(a[o]) + d[o]
    PROVE  CoinsUsage(a) \in Int /\ CoinsUsage(b) = CoinsUsage(a) + Total(d)
<1> DEFINE f == [o \in Outpoints |-> CoinUsage[CachedCoin(a[o])]]
           h == [o \in Outpoints |-> CoinUsage[CachedCoin(b[o])]]
<1>1. \A o \in Outpoints : a[o] \in Entries \cup {NotCached} /\ b[o] \in Entries \cup {NotCached}
  BY Zenon DEF Caches
<1>2. \A o \in Outpoints : f[o] = Size(a[o]) /\ h[o] = Size(b[o])
  BY Zenon DEF Size
<1>3. f \in [Outpoints -> Int] /\ h \in [Outpoints -> Int]
  BY <1>1, <1>2, SizeFacts
<1>4. CoinsUsage(a) = Total(f) /\ CoinsUsage(b) = Total(h)
  BY Zenon DEF CoinsUsage
<1> HIDE DEF f, h
<1>5. \A o \in Outpoints : h[o] = f[o] + d[o]
  BY <1>2, Zenon
<1> QED  BY <1>3, <1>4, <1>5, TotalAdds

\* The same when one entry changes.
LEMMA UsageMoves ==
    ASSUME NEW a \in Caches, NEW b \in Caches, NEW o \in Outpoints,
           \A x \in Outpoints \ {o} : b[x] = a[x]
    PROVE  CoinsUsage(a) \in Int /\ CoinsUsage(b) = CoinsUsage(a) + (Size(b[o]) - Size(a[o]))
<1> DEFINE d == [x \in Outpoints |-> IF x = o THEN Size(b[o]) - Size(a[o]) ELSE 0]
<1>1. \A x \in Outpoints : Size(a[x]) \in Nat /\ Size(b[x]) \in Nat
  BY SizeFacts, Zenon DEF Caches
<1>2. d \in [Outpoints -> Int]
  BY <1>1
<1>3. d[o] = Size(b[o]) - Size(a[o]) /\ \A x \in Outpoints \ {o} : d[x] = 0
  BY Zenon
<1> HIDE DEF d
<1>4. \A x \in Outpoints : Size(b[x]) = Size(a[x]) + d[x]
  BY <1>1, <1>3
<1>5. Total(d) = d[o]
  BY <1>2, <1>3, TotalSingle, Zenon
<1> QED  BY <1>2, <1>3, <1>4, <1>5, UsageAdds, Zenon

\* An empty cache has nothing to count.
LEMMA EmptyUsage == EmptyCache \in Caches /\ CoinsUsage(EmptyCache) = 0
<1>1. EmptyCache \in Caches
  BY Zenon DEF EmptyCache, Caches
<1> DEFINE f == [o \in Outpoints |-> CoinUsage[CachedCoin(EmptyCache[o])]]
<1>2. \A o \in Outpoints : f[o] = 0
  BY CoinUsageType, Zenon DEF EmptyCache, CachedCoin
<1>3. f \in [Outpoints -> Int] /\ CoinsUsage(EmptyCache) = Total(f)
  <2>1. CoinsUsage(EmptyCache) = Total(f)
    BY Zenon DEF CoinsUsage
  <2> QED  BY <1>2, <2>1
<1> HIDE DEF f
<1>4. Total(f) \in Int /\ Total(f) = Total(f) + Total(f)
  BY <1>2, <1>3, TotalAdds
<1>5. \A n \in Int : n = n + n => n = 0
  OBVIOUS
<1> QED  BY <1>1, <1>3, <1>4, <1>5, Zenon

\* FetchCoin counts the coin that it brings in.
LEMMA FetchCounted ==
    ASSUME NEW c \in Caches, NEW base \in Utxos, NEW o \in Outpoints, Coherent(c, base)
    PROVE  /\ CoinsUsage(c) \in Int
           /\ CoinsUsage(FetchCoin(c, base, o)) = CoinsUsage(c) + FetchUsage(c, base, o)
<1> DEFINE f == FetchCoin(c, base, o)
<1>1. f \in Caches /\ \A x \in Outpoints \ {o} : f[x] = c[x]
  <2>1. f \in Caches
    BY FetchFacts, Zenon
  <2>2. \A x \in Outpoints \ {o} : f[x] = c[x]
    BY Zenon DEF FetchCoin, Caches
  <2> QED  BY <2>1, <2>2, Zenon
<1>2. Size(f[o]) - Size(c[o]) = FetchUsage(c, base, o)
  <2>1. CASE c[o] = NotCached /\ base[o] # Spent
    <3>1. f[o] = [coin |-> base[o], dirty |-> FALSE, fresh |-> FALSE]
      BY <2>1, Zenon DEF FetchCoin, Caches
    <3>2. f[o] \in Entries /\ f[o].coin = base[o] /\ CoinUsage[base[o]] \in Nat
      BY <3>1, CoinUsageType DEF Entries, Utxos
    <3>3. Size(f[o]) = CoinUsage[base[o]] /\ Size(c[o]) = 0
      BY <2>1, <3>2, SizeFacts, NotCachedNotEntry, Zenon
    <3> QED  BY <2>1, <3>2, <3>3 DEF FetchUsage
  <2>2. CASE ~ (c[o] = NotCached /\ base[o] # Spent)
    <3>1. f = c /\ FetchUsage(c, base, o) = 0
      BY <2>2, Zenon DEF FetchCoin, FetchUsage
    <3>2. Size(c[o]) \in Nat
      BY SizeFacts, Zenon DEF Caches
    <3> QED  BY <3>1, <3>2
  <2> QED  BY <2>1, <2>2, Zenon
<1> HIDE DEF f
<1>3. CoinsUsage(c) \in Int /\ CoinsUsage(f) = CoinsUsage(c) + (Size(f[o]) - Size(c[o]))
  BY <1>1, UsageMoves, Zenon
<1> QED  BY <1>2, <1>3, Zenon DEF f

\* AddCoin counts the new coin and no longer the one it replaces.
LEMMA AddCounted ==
    ASSUME NEW c \in Caches, NEW o \in Outpoints, NEW coin \in Coins, NEW overwrite \in BOOLEAN,
           AddCoin(c, o, coin, overwrite) \in Caches
    PROVE  /\ CoinsUsage(c) \in Int
           /\ CoinsUsage(AddCoin(c, o, coin, overwrite)) = CoinsUsage(c) + AddUsage(c, o, coin)
<1> DEFINE f == AddCoin(c, o, coin, overwrite)
<1>1. f \in Caches /\ \A x \in Outpoints \ {o} : f[x] = c[x]
  BY Zenon DEF AddCoin, Caches
<1>2. Size(f[o]) - Size(c[o]) = AddUsage(c, o, coin)
  <2>1. CASE coin \in Unspendable
    <3>1. f = c /\ AddUsage(c, o, coin) = 0
      BY <2>1, Zenon DEF AddCoin, AddUsage
    <3>2. Size(c[o]) \in Nat
      BY SizeFacts, Zenon DEF Caches
    <3> QED  BY <3>1, <3>2
  <2>2. CASE coin \notin Unspendable
    <3>1. f[o] \in Entries \cup {NotCached} /\ c[o] \in Entries \cup {NotCached}
      BY <1>1, Zenon DEF Caches
    <3>2. f[o].coin = coin
      BY <2>2, Zenon DEF AddCoin, Caches
    <3>3. f[o] # NotCached
      <4>1. \E fr \in BOOLEAN : f[o] = [coin |-> coin, dirty |-> TRUE, fresh |-> fr]
        BY <2>2, Zenon DEF AddCoin, Caches
      <4>2. f[o] \in Entries
        BY <4>1 DEF Entries
      <4> QED  BY <4>2, NotCachedNotEntry, Zenon
    <3>4. Size(f[o]) = CoinUsage[coin] /\ CoinUsage[coin] \in Nat
      BY <3>1, <3>2, <3>3, SizeFacts, Zenon
    <3>5. Size(c[o]) = IF c[o] = NotCached THEN 0 ELSE CoinUsage[c[o].coin]
      BY <3>1, SizeFacts, Zenon
    <3> QED  BY <2>2, <3>4, <3>5, Zenon DEF AddUsage
  <2> QED  BY <2>1, <2>2, Zenon
<1> HIDE DEF f
<1>3. CoinsUsage(c) \in Int /\ CoinsUsage(f) = CoinsUsage(c) + (Size(f[o]) - Size(c[o]))
  BY <1>1, UsageMoves, Zenon
<1> QED  BY <1>2, <1>3, Zenon DEF f

\* SpendCoin no longer counts the coin, whether its entry is erased or cleared.
LEMMA SpendCounted ==
    ASSUME NEW c \in Caches, NEW o \in Outpoints, SpendCoin(c, o) \in Caches
    PROVE  /\ CoinsUsage(c) \in Int
           /\ CoinsUsage(SpendCoin(c, o)) = CoinsUsage(c) + SpendUsage(c, o)
<1> DEFINE f == SpendCoin(c, o)
<1>1. f \in Caches /\ \A x \in Outpoints \ {o} : f[x] = c[x]
  BY Zenon DEF SpendCoin, Caches
<1>2. f[o] \in Entries \cup {NotCached} /\ c[o] \in Entries \cup {NotCached}
  BY <1>1, Zenon DEF Caches
<1>3. Size(f[o]) - Size(c[o]) = SpendUsage(c, o)
  <2>1. CASE c[o] = NotCached
    BY <1>2, <2>1, SizeFacts DEF SpendCoin, SpendUsage
  <2>2. CASE c[o] # NotCached
    <3>1. f[o] = NotCached \/ f[o].coin = Spent
      BY <1>2, <2>2, Zenon DEF SpendCoin, Caches, Entries
    <3>2. Size(f[o]) = 0
      BY <1>2, <3>1, SizeFacts, CoinUsageType, Zenon
    <3>3. Size(c[o]) = CoinUsage[c[o].coin] /\ Size(c[o]) \in Nat
      BY <1>2, <2>2, SizeFacts, Zenon
    <3> QED  BY <2>2, <3>2, <3>3 DEF SpendUsage
  <2> QED  BY <2>1, <2>2, Zenon
<1> HIDE DEF f
<1>4. CoinsUsage(c) \in Int /\ CoinsUsage(f) = CoinsUsage(c) + (Size(f[o]) - Size(c[o]))
  BY <1>1, UsageMoves, Zenon
<1> QED  BY <1>3, <1>4, Zenon DEF f

\* BatchWrite counts what the entries of the child change in the parent.
LEMMA WriteCounted ==
    ASSUME NEW p \in Caches, NEW c \in Caches, BatchWrite(p, c) \in Caches
    PROVE  /\ CoinsUsage(p) \in Int
           /\ CoinsUsage(BatchWrite(p, c)) = CoinsUsage(p) + BatchUsage(p, c)
<1> DEFINE d == [o \in Outpoints |-> WriteUsage(p[o], c[o])]
           b == BatchWrite(p, c)
<1>1. ASSUME NEW o \in Outpoints
      PROVE  d[o] \in Int /\ Size(b[o]) = Size(p[o]) + d[o]
  <2>1. /\ p[o] \in Entries \cup {NotCached} /\ c[o] \in Entries \cup {NotCached}
        /\ b[o] \in Entries \cup {NotCached}
        /\ b[o] = WriteEntry(p[o], c[o]) /\ d[o] = WriteUsage(p[o], c[o])
    BY Zenon DEF BatchWrite, Caches
  <2>2. /\ Size(p[o]) \in Nat /\ Size(p[o]) = IF p[o] = NotCached THEN 0 ELSE CoinUsage[p[o].coin]
        /\ Size(c[o]) \in Nat /\ Size(c[o]) = IF c[o] = NotCached THEN 0 ELSE CoinUsage[c[o].coin]
        /\ Size(b[o]) \in Nat /\ Size(b[o]) = IF b[o] = NotCached THEN 0 ELSE CoinUsage[b[o].coin]
    BY <2>1, SizeFacts, Zenon
  <2> HIDE DEF d, b
  <2>3. CASE c[o] = NotCached \/ ~c[o].dirty
    <3>1. b[o] = p[o] /\ d[o] = 0
      BY <2>1, <2>3, Zenon DEF WriteEntry, WriteUsage
    <3> QED  BY <2>2, <3>1, SMTT(60)
  <2>4. CASE c[o] # NotCached /\ c[o].dirty
    <3>1. CASE b[o] = NotCached
      <4>1. p[o] = NotCached \/ (p[o].fresh /\ c[o].coin = Spent)
        <5>1. ASSUME p[o] # NotCached, ~ (p[o].fresh /\ c[o].coin = Spent)  PROVE FALSE
          <6>1. b[o] = [coin |-> c[o].coin, dirty |-> TRUE, fresh |-> p[o].fresh]
            BY <2>1, <2>4, <5>1, Zenon DEF WriteEntry
          <6>2. b[o] \in Entries
            BY <2>1, <2>4, <5>1, <6>1 DEF Entries
          <6> QED  BY <3>1, <6>2, NotCachedNotEntry, Zenon
        <5> QED  BY <5>1, Zenon
      <4>2. p[o] = NotCached => c[o].fresh /\ c[o].coin = Spent
        <5>1. ASSUME p[o] = NotCached, ~ (c[o].fresh /\ c[o].coin = Spent)  PROVE FALSE
          <6>1. b[o] = [coin |-> c[o].coin, dirty |-> TRUE, fresh |-> c[o].fresh]
            BY <2>1, <2>4, <5>1, Zenon DEF WriteEntry
          <6>2. b[o] \in Entries
            BY <2>1, <2>4, <6>1, Zenon DEF Entries
          <6> QED  BY <3>1, <6>2, NotCachedNotEntry, Zenon
        <5> QED  BY <5>1, Zenon
      <4>3. d[o] = IF p[o] = NotCached THEN 0 ELSE - CoinUsage[p[o].coin]
        BY <2>1, <2>4, <4>1, <4>2, Zenon DEF WriteUsage
      <4> QED  BY <2>2, <3>1, <4>3
    <3>2. CASE b[o] # NotCached
      <4>1. /\ b[o].coin = c[o].coin
            /\ d[o] = IF p[o] = NotCached THEN CoinUsage[c[o].coin]
                      ELSE CoinUsage[c[o].coin] - CoinUsage[p[o].coin]
        BY <2>1, <2>4, <3>2 DEF WriteEntry, WriteUsage
      <4> QED  BY <2>2, <2>4, <3>2, <4>1
    <3> QED  BY <3>1, <3>2, Zenon
  <2> QED  BY <2>3, <2>4, Zenon
<1>2. d \in [Outpoints -> Int] /\ BatchUsage(p, c) = Total(d)
  BY <1>1, Zenon DEF BatchUsage
<1> HIDE DEF d, b
<1>3. CoinsUsage(p) \in Int /\ CoinsUsage(b) = CoinsUsage(p) + Total(d)
  <2>1. b \in Caches
    BY Zenon DEF b
  <2> QED  BY <1>1, <1>2, <2>1, UsageAdds, Zenon
<1> QED  BY <1>2, <1>3, Zenon DEF b

-----------------------------------------------------------------------------
\* An open view without a best block stands over a database without one, so a
\* null hashBlock is never flushed over a real one.
BestKnown == open /\ viewBest = NullBlock => dbBest = NullBlock

\* The inductive invariant: types, coherence of both levels, and best blocks.
IInv == TypeOK /\ CachesCoherent /\ BestKnown

\* Init establishes it: an empty database under an empty cache.
LEMMA InitIInv == Init => IInv
<1> SUFFICES ASSUME Init PROVE IInv
  BY Zenon
<1>1. db \in Utxos
  BY Zenon DEF Init, Utxos
<1>2. TypeOK
  BY <1>1, EmptyFacts, Zenon DEF Init, TypeOK
<1>3. TipCoins \in Utxos
  BY <1>1, EmptyFacts, Zenon DEF Init, TipCoins
<1> QED
  BY <1>1, <1>2, <1>3, EmptyFacts, Zenon DEF Init, IInv, CachesCoherent, BestKnown

\* A read of CoinsTip() leaves what it shows, and with it the open view, alone.
LEMMA TipFetchFacts ==
    ASSUME IInv, NEW o \in Outpoints, db' = db, tip' = FetchCoin(tip, db, o)
    PROVE  /\ tip' \in Caches /\ Coherent(tip', db')
           /\ TipCoins' = TipCoins /\ TipCoins \in Utxos
<1>1. db \in Utxos /\ tip \in Caches /\ Coherent(tip, db)
  BY Zenon DEF IInv, TypeOK, CachesCoherent
<1> QED
  BY <1>1, FetchFacts, ThroughType, Zenon DEF TipCoins

\* The same when the read only reaches CoinsTip() on a miss in the view.
LEMMA TipMissFacts ==
    ASSUME IInv, NEW o \in Outpoints, db' = db,
           tip' = IF view[o] = NotCached THEN FetchCoin(tip, db, o) ELSE tip
    PROVE  /\ tip' \in Caches /\ Coherent(tip', db')
           /\ TipCoins' = TipCoins /\ TipCoins \in Utxos
<1>1. CASE view[o] = NotCached
  BY <1>1, TipFetchFacts, Zenon
<1>2. CASE view[o] # NotCached
  <2>1. db \in Utxos /\ tip \in Caches /\ Coherent(tip, db)
    BY Zenon DEF IInv, TypeOK, CachesCoherent
  <2> QED BY <1>2, <2>1, ThroughType, Zenon DEF TipCoins
<1> QED BY <1>1, <1>2, Zenon

\* One step of the caches keeps the invariant and is one step of the plain sets,
\* or no step of them at all.
LEMMA StepFacts ==
    ASSUME IInv, [Next]_vars
    PROVE  IInv' /\ [Abstract!Next]_(Abstract!vars)
<1> USE DEF IInv
<1>0. /\ db \in Utxos /\ tip \in Caches /\ view \in Caches /\ open \in BOOLEAN
      /\ dbBest \in Blocks \cup {NullBlock} /\ tipBest \in Blocks \cup {NullBlock}
      /\ viewBest \in Blocks \cup {NullBlock}
      /\ Coherent(tip, db) /\ Coherent(view, TipCoins)
      /\ ~open => view = EmptyCache
      /\ open /\ viewBest = NullBlock => dbBest = NullBlock
  BY Zenon DEF TypeOK, CachesCoherent, BestKnown
<1>t. TipCoins \in Utxos /\ TipBestBlock \in Blocks \cup {NullBlock}
  BY <1>0, ThroughType, Zenon DEF TipCoins, TipBestBlock
<1>1. CASE OpenView
  <2>1. UNCHANGED <<db, tip, view, dbBest>> /\ open' = TRUE /\ ~open
        /\ tipBest' = TipBestBlock /\ viewBest' = TipBestBlock
    BY <1>1, Zenon DEF OpenView
  <2>2. TipCoins' = TipCoins /\ ViewCoins' = ViewCoins /\ TipBestBlock' = TipBestBlock
    BY <2>1, Zenon DEF TipCoins, ViewCoins, TipBestBlock
  <2>3. ViewCoins = TipCoins
    BY <1>0, <1>t, <2>1, EmptyFacts, Zenon DEF ViewCoins
  <2>4. IInv'
    BY <1>0, <1>t, <2>1, <2>2, Zenon DEF TypeOK, CachesCoherent, BestKnown, TipBestBlock
  <2>5. Abstract!Begin
    BY <2>1, <2>2, <2>3, Zenon DEF Abstract!Begin
  <2> QED BY <2>4, <2>5, Zenon DEF Abstract!Next
<1>2. ASSUME NEW o \in Outpoints, ReadTip(o)
      PROVE  IInv' /\ [Abstract!Next]_(Abstract!vars)
  <2>1. /\ ~open /\ UNCHANGED <<db, view, open, dbBest, tipBest, viewBest>>
        /\ tip' = FetchCoin(tip, db, o)
    BY <1>2, Zenon DEF ReadTip
  <2>2. tip' \in Caches /\ Coherent(tip', db') /\ TipCoins' = TipCoins
    BY <2>1, TipFetchFacts, Zenon
  <2>3. ViewCoins' = ViewCoins /\ TipBestBlock' = TipBestBlock
    BY <2>1, <2>2, Zenon DEF ViewCoins, TipBestBlock
  <2>4. IInv'
    BY <1>0, <2>1, <2>2, Zenon DEF TypeOK, CachesCoherent, BestKnown, EmptyCache
  <2> QED BY <2>1, <2>2, <2>3, <2>4, Zenon DEF Abstract!vars
<1>3. ASSUME NEW o \in Outpoints, ReadView(o)
      PROVE  IInv' /\ [Abstract!Next]_(Abstract!vars)
  <2>1. /\ open /\ UNCHANGED <<db, open, dbBest, tipBest, viewBest>>
        /\ tip' = IF view[o] = NotCached THEN FetchCoin(tip, db, o) ELSE tip
        /\ view' = FetchCoin(view, TipCoins, o)
    BY <1>3, Zenon DEF ReadView
  <2>2. tip' \in Caches /\ Coherent(tip', db') /\ TipCoins' = TipCoins
    BY <2>1, TipMissFacts, Zenon
  <2>3. /\ view' \in Caches /\ Coherent(view', TipCoins)
        /\ Through(view', TipCoins) = ViewCoins
    BY <1>0, <1>t, <2>1, FetchFacts, Zenon DEF ViewCoins
  <2>4. ViewCoins' = ViewCoins /\ TipBestBlock' = TipBestBlock
    BY <2>1, <2>2, <2>3, Zenon DEF ViewCoins, TipBestBlock
  <2>5. IInv'
    BY <1>0, <2>1, <2>2, <2>3, Zenon DEF TypeOK, CachesCoherent, BestKnown
  <2> QED BY <2>1, <2>2, <2>4, <2>5, Zenon DEF Abstract!vars
<1>4. ASSUME NEW o \in Outpoints, NEW coin \in Coins, NEW overwrite \in BOOLEAN,
             AddToView(o, coin, overwrite)
      PROVE  IInv' /\ [Abstract!Next]_(Abstract!vars)
  <2>1. /\ open /\ UNCHANGED <<db, tip, open, dbBest, tipBest, viewBest>>
        /\ overwrite \/ Through(view, TipCoins)[o] = Spent
        /\ view' = AddCoin(view, o, coin, overwrite)
    BY <1>4, Zenon DEF AddToView, ViewCoins
  <2>2. TipCoins' = TipCoins /\ TipBestBlock' = TipBestBlock
    BY <2>1, Zenon DEF TipCoins, TipBestBlock
  <2>3. /\ view' \in Caches /\ Coherent(view', TipCoins)
        /\ Through(view', TipCoins) = IF coin \in Unspendable THEN ViewCoins
                                      ELSE [ViewCoins EXCEPT ![o] = coin]
    BY <1>0, <1>t, <2>1, AddFacts DEF ViewCoins
  <2>4. ViewCoins' = IF coin \in Unspendable THEN ViewCoins
                     ELSE [ViewCoins EXCEPT ![o] = coin]
    BY <2>2, <2>3, Zenon DEF ViewCoins
  <2>5. IInv'
    BY <1>0, <2>1, <2>2, <2>3, Zenon DEF TypeOK, CachesCoherent, BestKnown
  <2>6. CASE coin \in Unspendable
    BY <2>1, <2>2, <2>4, <2>5, <2>6, Zenon DEF Abstract!vars
  <2>7. CASE coin \notin Unspendable
    <3>1. Abstract!Add(o, coin)
      BY <2>1, <2>2, <2>4, <2>7, Zenon DEF Abstract!Add
    <3> QED BY <2>5, <2>7, <3>1, Zenon DEF Abstract!Next
  <2> QED BY <2>6, <2>7, Zenon
<1>5. ASSUME NEW o \in Outpoints, SpendFromView(o)
      PROVE  IInv' /\ [Abstract!Next]_(Abstract!vars)
  <2>1. /\ open /\ UNCHANGED <<db, open, dbBest, tipBest, viewBest>>
        /\ tip' = IF view[o] = NotCached THEN FetchCoin(tip, db, o) ELSE tip
        /\ view' = SpendCoin(FetchCoin(view, TipCoins, o), o)
    BY <1>5, Zenon DEF SpendFromView
  <2>2. tip' \in Caches /\ Coherent(tip', db') /\ TipCoins' = TipCoins
    BY <2>1, TipMissFacts, Zenon
  <2>3. /\ view' \in Caches /\ Coherent(view', TipCoins)
        /\ Through(view', TipCoins) = [ViewCoins EXCEPT ![o] = Spent]
    BY <1>0, <1>t, <2>1, SpendFacts, Zenon DEF ViewCoins
  <2>4. ViewCoins' = [ViewCoins EXCEPT ![o] = Spent] /\ TipBestBlock' = TipBestBlock
    BY <2>1, <2>2, <2>3, Zenon DEF ViewCoins, TipBestBlock
  <2>5. IInv'
    BY <1>0, <2>1, <2>2, <2>3, Zenon DEF TypeOK, CachesCoherent, BestKnown
  <2>6. Abstract!Spend(o)
    BY <2>1, <2>2, <2>4, Zenon DEF Abstract!Spend
  <2> QED BY <2>5, <2>6, Zenon DEF Abstract!Next
<1>6. ASSUME NEW b \in Blocks, SetBestBlock(b)
      PROVE  IInv' /\ [Abstract!Next]_(Abstract!vars)
  <2>1. open /\ UNCHANGED <<db, tip, view, open, dbBest, tipBest>> /\ viewBest' = b
    BY <1>6, Zenon DEF SetBestBlock
  <2>2. TipCoins' = TipCoins /\ ViewCoins' = ViewCoins /\ TipBestBlock' = TipBestBlock
    BY <2>1, Zenon DEF TipCoins, ViewCoins, TipBestBlock
  <2>3. IInv'
    BY <1>0, <2>1, <2>2, NullNotBlock, Zenon DEF TypeOK, CachesCoherent, BestKnown
  <2>4. Abstract!SetBest(b)
    BY <2>1, <2>2, Zenon DEF Abstract!SetBest
  <2> QED BY <2>3, <2>4, Zenon DEF Abstract!Next
<1>7. CASE FlushView
  <2>1. /\ open /\ open' = FALSE /\ UNCHANGED <<db, dbBest>>
        /\ tip' = BatchWrite(tip, view) /\ view' = EmptyCache
        /\ tipBest' = viewBest /\ viewBest' = NullBlock
    BY <1>7, Zenon DEF FlushView
  <2>2. tip' \in Caches /\ Coherent(tip', db) /\ Through(tip', db) = ViewCoins
    BY <1>0, <2>1, WriteFacts, Zenon DEF ViewCoins, TipCoins
  <2>3. TipCoins' = ViewCoins /\ ViewCoins \in Utxos
    BY <1>0, <1>t, <2>1, <2>2, ThroughType, Zenon DEF TipCoins, ViewCoins
  <2>4. view' \in Caches /\ Coherent(view', TipCoins') /\ ViewCoins' = ViewCoins
    BY <2>1, <2>3, EmptyFacts, Zenon DEF ViewCoins
  <2>5. IInv'
    BY <1>0, <2>1, <2>2, <2>4, Zenon DEF TypeOK, CachesCoherent, BestKnown, EmptyCache
  <2>6. Abstract!Commit
    BY <1>0, <2>1, <2>3, <2>4, Zenon DEF Abstract!Commit, TipBestBlock
  <2> QED BY <2>5, <2>6, Zenon DEF Abstract!Next
<1>8. CASE DropView
  <2>1. /\ open /\ open' = FALSE /\ UNCHANGED <<db, tip, dbBest, tipBest>>
        /\ view' = EmptyCache /\ viewBest' = NullBlock
    BY <1>8, Zenon DEF DropView
  <2>2. TipCoins' = TipCoins /\ TipBestBlock' = TipBestBlock
    BY <2>1, Zenon DEF TipCoins, TipBestBlock
  <2>3. view' \in Caches /\ Coherent(view', TipCoins') /\ ViewCoins' = TipCoins
    BY <1>t, <2>1, <2>2, EmptyFacts, Zenon DEF ViewCoins
  <2>4. IInv'
    BY <1>0, <2>1, <2>2, <2>3, ZenonT(60) DEF TypeOK, CachesCoherent, BestKnown, EmptyCache
  <2>5. Abstract!Abandon
    BY <2>1, <2>2, <2>3, Zenon DEF Abstract!Abandon
  <2> QED BY <2>4, <2>5, Zenon DEF Abstract!Next
<1>9. ASSUME NEW o \in Outpoints, Uncache(o)
      PROVE  IInv' /\ [Abstract!Next]_(Abstract!vars)
  <2>1. /\ ~open /\ UNCHANGED <<db, view, open, dbBest, tipBest, viewBest>>
        /\ tip[o] # NotCached /\ ~tip[o].dirty
        /\ tip' = [tip EXCEPT ![o] = NotCached]
    BY <1>9, Zenon DEF Uncache
  <2>2. tip' \in Caches /\ Coherent(tip', db')
    BY <1>0, <2>1, Zenon DEF Caches, Coherent
  <2>3. TipCoins' = TipCoins
    BY <1>0, <2>1, Zenon DEF TipCoins, Through, Coherent, Caches
  <2>4. ViewCoins' = ViewCoins /\ TipBestBlock' = TipBestBlock
    BY <2>1, <2>3, Zenon DEF ViewCoins, TipBestBlock
  <2>5. IInv'
    BY <1>0, <2>1, <2>2, <2>3, Zenon DEF TypeOK, CachesCoherent, BestKnown, EmptyCache
  <2> QED BY <2>1, <2>3, <2>4, <2>5, Zenon DEF Abstract!vars
<1>10. CASE FlushTip
  <2>1. /\ ~open /\ UNCHANGED <<view, open, viewBest>> /\ view = EmptyCache
        /\ db' = DbWrite(tip) /\ dbBest' = TipBestBlock
        /\ tip' = EmptyCache /\ tipBest' = TipBestBlock
    BY <1>0, <1>10, Zenon DEF FlushTip
  <2>2. db' \in Utxos /\ db' = TipCoins
    BY <1>0, <2>1, DbWriteFacts, Zenon
  <2>3. tip' \in Caches /\ Coherent(tip', db') /\ TipCoins' = TipCoins
    BY <2>1, <2>2, EmptyFacts, Zenon DEF TipCoins
  <2>4. ViewCoins' = ViewCoins
    BY <2>1, <2>3, Zenon DEF ViewCoins
  <2>5. TipBestBlock' = TipBestBlock
    BY <2>1, Zenon DEF TipBestBlock
  <2>6. IInv'
    BY <1>0, <1>t, <2>1, <2>2, <2>3, Zenon DEF TypeOK, CachesCoherent, BestKnown, EmptyCache
  <2>7. Abstract!Sync
    BY <2>1, <2>2, <2>3, <2>4, <2>5, Zenon DEF Abstract!Sync
  <2> QED BY <2>6, <2>7, Zenon DEF Abstract!Next
<1>11. CASE UNCHANGED vars
  <2>1. TipCoins' = TipCoins /\ ViewCoins' = ViewCoins /\ TipBestBlock' = TipBestBlock
    BY <1>11, Zenon DEF vars, TipCoins, ViewCoins, TipBestBlock
  <2> QED
    BY <1>0, <1>11, <2>1, Zenon
       DEF vars, TypeOK, CachesCoherent, BestKnown, EmptyCache, Abstract!vars
<1> QED
  BY <1>1, <1>2, <1>3, <1>4, <1>5, <1>6, <1>7, <1>8, <1>9, <1>10, <1>11 DEF Next

\* A read that may have to go through to CoinsTip() is counted there.
LEMMA TipMissCounted ==
    ASSUME IInv, NEW o \in Outpoints,
           tip' = IF view[o] = NotCached THEN FetchCoin(tip, db, o) ELSE tip
    PROVE  /\ CoinsUsage(tip) \in Int
           /\ CoinsUsage(tip') = CoinsUsage(tip) + IF view[o] = NotCached
                                                   THEN FetchUsage(tip, db, o) ELSE 0
<1>1. db \in Utxos /\ tip \in Caches /\ Coherent(tip, db)
  BY DEF IInv, TypeOK, CachesCoherent
<1>2. /\ CoinsUsage(tip) \in Int
      /\ CoinsUsage(FetchCoin(tip, db, o)) = CoinsUsage(tip) + FetchUsage(tip, db, o)
  BY <1>1, FetchCounted
<1>3. CASE view[o] = NotCached
  BY <1>2, <1>3
<1>4. CASE view[o] # NotCached
  BY <1>2, <1>4
<1> QED  BY <1>3, <1>4

\* One step of the caches keeps the byte counts exact.
LEMMA UsageStep ==
    ASSUME IInv, UsageExact, [Next]_vars
    PROVE  UsageExact'
<1>0. /\ db \in Utxos /\ tip \in Caches /\ view \in Caches
      /\ Coherent(tip, db) /\ Coherent(view, TipCoins)
  BY DEF IInv, TypeOK, CachesCoherent
<1>1. TipCoins \in Utxos /\ tip' \in Caches /\ view' \in Caches
  BY <1>0, ThroughType, StepFacts DEF TipCoins, IInv, TypeOK
<1>2. /\ usage = [tip |-> CoinsUsage(tip), view |-> CoinsUsage(view)]
      /\ usage.tip = CoinsUsage(tip) /\ usage.view = CoinsUsage(view)
  BY DEF UsageExact
<1> SUFFICES usage' = [tip |-> CoinsUsage(tip'), view |-> CoinsUsage(view')]
  BY DEF UsageExact
<1>3. CASE UNCHANGED <<tip, view, usage>>
  BY <1>2, <1>3
<1>4. ASSUME NEW o \in Outpoints, ReadTip(o)
      PROVE  usage' = [tip |-> CoinsUsage(tip'), view |-> CoinsUsage(view')]
  <2>1. CoinsUsage(tip') = CoinsUsage(tip) + FetchUsage(tip, db, o)
    BY <1>0, <1>4, FetchCounted DEF ReadTip
  <2>2. view' = view /\ usage' = [usage EXCEPT !.tip = @ + FetchUsage(tip, db, o)]
    BY <1>4 DEF ReadTip
  <2> QED  BY <1>2, <2>1, <2>2
<1>5. ASSUME NEW o \in Outpoints, ReadView(o)
      PROVE  usage' = [tip |-> CoinsUsage(tip'), view |-> CoinsUsage(view')]
  <2>1. CoinsUsage(tip') = CoinsUsage(tip) + IF view[o] = NotCached
                                             THEN FetchUsage(tip, db, o) ELSE 0
    BY <1>5, TipMissCounted DEF ReadView
  <2>2. CoinsUsage(view') = CoinsUsage(view) + FetchUsage(view, TipCoins, o)
    BY <1>0, <1>1, <1>5, FetchCounted DEF ReadView
  <2> QED  BY <1>2, <1>5, <2>1, <2>2 DEF ReadView
<1>6. ASSUME NEW o \in Outpoints, NEW coin \in Coins, NEW overwrite \in BOOLEAN,
             AddToView(o, coin, overwrite)
      PROVE  usage' = [tip |-> CoinsUsage(tip'), view |-> CoinsUsage(view')]
  <2>1. /\ view' = AddCoin(view, o, coin, overwrite) /\ tip' = tip
        /\ usage' = [usage EXCEPT !.view = @ + AddUsage(view, o, coin)]
    BY <1>6 DEF AddToView
  <2>2. CoinsUsage(view') = CoinsUsage(view) + AddUsage(view, o, coin)
    BY <1>0, <1>1, <2>1, AddCounted
  <2> QED  BY <1>2, <2>1, <2>2
<1>7. ASSUME NEW o \in Outpoints, SpendFromView(o)
      PROVE  usage' = [tip |-> CoinsUsage(tip'), view |-> CoinsUsage(view')]
  <2> DEFINE f == FetchCoin(view, TipCoins, o)
  <2>1. /\ view' = SpendCoin(f, o)
        /\ usage' = [tip  |-> usage.tip + IF view[o] = NotCached
                                          THEN FetchUsage(tip, db, o) ELSE 0,
                     view |-> usage.view + FetchUsage(view, TipCoins, o) + SpendUsage(f, o)]
    BY <1>7 DEF SpendFromView
  <2>2. CoinsUsage(tip') = CoinsUsage(tip) + IF view[o] = NotCached
                                             THEN FetchUsage(tip, db, o) ELSE 0
    BY <1>7, TipMissCounted DEF SpendFromView
  <2>3. f \in Caches /\ CoinsUsage(f) = CoinsUsage(view) + FetchUsage(view, TipCoins, o)
    BY <1>0, <1>1, FetchFacts, FetchCounted
  <2> HIDE DEF f
  <2>4. CoinsUsage(view') = CoinsUsage(f) + SpendUsage(f, o)
    BY <1>1, <2>1, <2>3, SpendCounted
  <2> QED  BY <1>2, <2>1, <2>2, <2>3, <2>4
<1>8. CASE FlushView
  <2>1. /\ tip' = BatchWrite(tip, view) /\ view' = EmptyCache
        /\ usage' = [tip |-> usage.tip + BatchUsage(tip, view), view |-> 0]
    BY <1>8 DEF FlushView
  <2>2. CoinsUsage(tip') = CoinsUsage(tip) + BatchUsage(tip, view)
    BY <1>0, <1>1, <2>1, WriteCounted
  <2>3. CoinsUsage(view') = 0
    BY <2>1, EmptyUsage, Zenon
  <2> QED  BY <1>2, <2>1, <2>2, <2>3
<1>9. CASE DropView
  <2>1. tip' = tip /\ view' = EmptyCache /\ usage' = [usage EXCEPT !.view = 0]
    BY <1>9 DEF DropView
  <2>2. CoinsUsage(view') = 0
    BY <2>1, EmptyUsage, Zenon
  <2> QED  BY <1>2, <2>1, <2>2
<1>10. ASSUME NEW o \in Outpoints, Uncache(o)
       PROVE  usage' = [tip |-> CoinsUsage(tip'), view |-> CoinsUsage(view')]
  <2>1. /\ tip[o] # NotCached /\ tip' = [tip EXCEPT ![o] = NotCached] /\ view' = view
        /\ usage' = [usage EXCEPT !.tip = @ - CoinUsage[tip[o].coin]]
    BY <1>10 DEF Uncache
  <2>2. /\ tip[o] \in Entries \cup {NotCached} /\ tip'[o] = NotCached
        /\ \A x \in Outpoints \ {o} : tip'[x] = tip[x]
    BY <1>0, <2>1 DEF Caches
  <2>3. Size(tip'[o]) = 0 /\ Size(tip[o]) = CoinUsage[tip[o].coin] /\ Size(tip[o]) \in Nat
    BY <2>1, <2>2, SizeFacts
  <2>4. /\ CoinsUsage(tip) \in Int
        /\ CoinsUsage(tip') = CoinsUsage(tip) + (Size(tip'[o]) - Size(tip[o]))
    BY <1>0, <1>1, <2>2, UsageMoves
  <2>5. CoinsUsage(tip') = CoinsUsage(tip) - CoinUsage[tip[o].coin]
    BY <2>3, <2>4
  <2> QED  BY <1>2, <2>1, <2>5
<1>11. CASE FlushTip
  <2>1. tip' = EmptyCache /\ view' = view /\ usage' = [usage EXCEPT !.tip = 0]
    BY <1>11 DEF FlushTip
  <2>2. CoinsUsage(tip') = 0
    BY <2>1, EmptyUsage, Zenon
  <2> QED  BY <1>2, <2>1, <2>2
<1>12. OpenView \/ (\E b \in Blocks : SetBestBlock(b)) \/ UNCHANGED vars
          => UNCHANGED <<tip, view, usage>>
  BY DEF OpenView, SetBestBlock, vars
<1> QED
  BY <1>3, <1>4, <1>5, <1>6, <1>7, <1>8, <1>9, <1>10, <1>11, <1>12 DEF Next

-----------------------------------------------------------------------------
\* For every set of outpoints, coins and blocks, the variables keep their types.
THEOREM TypeCorrect == Spec => []TypeOK
<1>1. Init => IInv
  BY InitIInv
<1>2. IInv /\ [Next]_vars => IInv'
  BY StepFacts
<1>3. IInv => TypeOK
  BY DEF IInv
<1> QED BY <1>1, <1>2, <1>3, PTL DEF Spec

\* The DIRTY and FRESH flags of both caches always tell the truth about the
\* level below (coins.h, comments on CCoinsCacheEntry::Flags).
THEOREM CoherenceAlways == Spec => []CachesCoherent
<1>1. Init => IInv
  BY InitIInv
<1>2. IInv /\ [Next]_vars => IInv'
  BY StepFacts
<1>3. IInv => CachesCoherent
  BY DEF IInv
<1> QED BY <1>1, <1>2, <1>3, PTL DEF Spec

\* The logic_error of CCoinsViewCache::BatchWrite is never thrown.
THEOREM FreshSound == Spec => []FreshNeverMisapplied
<1>1. Init => IInv
  BY InitIInv
<1>2. IInv /\ [Next]_vars => IInv'
  BY StepFacts
<1>3. IInv => FreshNeverMisapplied
  BY WriteFacts DEF IInv, TypeOK, CachesCoherent, FreshNeverMisapplied, TipCoins
<1> QED BY <1>1, <1>2, <1>3, PTL DEF Spec

\* The two caches over the database implement the three plain sets of UtxoSet.
THEOREM CachesImplementUtxoSet == Spec => ImplementsUtxoSet
<1>1. Init => IInv
  BY InitIInv
<1>2. IInv /\ [Next]_vars => IInv' /\ [Abstract!Next]_(Abstract!vars)
  BY StepFacts
<1>3. Init => Abstract!Init
  <2> SUFFICES ASSUME Init PROVE Abstract!Init
    OBVIOUS
  <2>1. db \in Utxos
    BY DEF Init, Utxos
  <2>2. TipCoins = db
    BY <2>1, EmptyFacts DEF Init, TipCoins
  <2>3. ViewCoins = db
    BY <2>1, <2>2, EmptyFacts DEF Init, ViewCoins
  <2> QED
    BY <2>2, <2>3 DEF Init, Abstract!Init, TipBestBlock
<1> QED BY <1>1, <1>2, <1>3, PTL DEF Spec, ImplementsUtxoSet, Abstract!Spec

\* cachedCoinsUsage of both caches is the sum of the sizes of the coins held: it
\* never drifts, however reads, overwrites, spends, evictions and flushes follow
\* one another, and so never wraps below 0 (coins.cpp, all that adds to it).
THEOREM UsageAlwaysExact == Spec => []UsageExact
<1>1. Init => IInv /\ UsageExact
  BY InitIInv, EmptyUsage, Zenon DEF Init, UsageExact
<1>2. IInv /\ UsageExact /\ [Next]_vars => IInv' /\ UsageExact'
  BY StepFacts, UsageStep
<1> QED BY <1>1, <1>2, PTL DEF Spec
=============================================================================

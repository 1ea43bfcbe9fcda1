----------------------------- MODULE IndexProofs -----------------------------
(***************************************************************************)
(* The list of subscribers of CMainSignals stays in order while it changes *)
(* under the threads that go through it, for any number of subscribers and *)
(* of threads, and however the index, the chain and the node behave: the   *)
(* counts are exact, no iterator loses its entry, and every subscriber     *)
(* that stays registered is called.                                        *)
(*                                                                         *)
(* The list, the map and the iterators are looked at as values: Sound says *)
(* that they agree, Ahead that what an iterator has yet to visit lies      *)
(* ahead of it.  Each member function keeps both (one lemma for one entry  *)
(* that is counted up or down, cited by all).                              *)
(***************************************************************************)
EXTENDS Index, FiniteSetTheorems, SequenceTheorems, TLAPS

Entries == [id : Nat \ {0}, callbacks : Subscribers, count : Nat]

Unique(l) == \A i, j \in DOMAIN l : l[i].id = l[j].id => i = j

Executions(a, id) == {c \in Callers : a[c] = id}

Registered(m, e) == IF m[e.callbacks] = e.id THEN 1 ELSE 0

\* List l, map m and iterators a agree.
Sound(l, m, a) ==
    /\ l \in Seq(Entries) /\ m \in [Subscribers -> Nat] /\ a \in [Callers -> Nat]
    /\ Unique(l)
    /\ \A i \in DOMAIN l : /\ l[i].count = Cardinality(Executions(a, l[i].id)) + Registered(m, l[i])
                           /\ l[i].count > 0
    /\ \A c \in Callers : a[c] # 0 => \E i \in DOMAIN l : l[i].id = a[c]
    /\ \A s \in Subscribers : m[s] # 0 =>
          \E i \in DOMAIN l : l[i].id = m[s] /\ l[i].callbacks = s

\* The registered entries of the subscribers in o lie behind entry id in list l.
Ahead(l, m, id, o) ==
    \A s \in o : m[s] # 0 /\ \A i, j \in DOMAIN l : l[i].id = id /\ l[j].id = m[s] => i < j

-----------------------------------------------------------------------------
(* Lists.                                                                  *)

\* The list without its element at place k.
LEMMA Removed ==
    ASSUME NEW l \in Seq(Entries), NEW k \in DOMAIN l
    PROVE  /\ Erased(l, k) \in Seq(Entries) /\ Len(Erased(l, k)) = Len(l) - 1
           /\ \A j \in 1 .. Len(l) - 1 : Erased(l, k)[j] = IF j < k THEN l[j] ELSE l[j + 1]
<1> DEFINE a == SubSeq(l, 1, k - 1)
           b == SubSeq(l, k + 1, Len(l))
<1>1. Len(l) \in Nat /\ DOMAIN l = 1 .. Len(l) /\ k \in 1 .. Len(l)
  BY LenProperties, Zenon
<1>2. /\ a \in Seq(Entries) /\ Len(a) = k - 1 /\ \A j \in 1 .. k - 1 : a[j] = l[j]
  <2>1. \A j \in 1 .. k - 1 : j \in DOMAIN l
    BY <1>1
  <2> QED  BY <1>1, <2>1, SubSeqProperties
<1>3. /\ b \in Seq(Entries) /\ Len(b) = Len(l) - k
      /\ \A j \in 1 .. Len(l) - k : b[j] = l[k + j]
  <2>1. \A j \in k + 1 .. Len(l) : j \in DOMAIN l
    BY <1>1
  <2> QED  BY <1>1, <2>1, SubSeqProperties
<1> HIDE DEF a, b
<1>4. /\ a \o b \in Seq(Entries) /\ Len(a \o b) = Len(a) + Len(b)
      /\ \A j \in 1 .. Len(a) + Len(b) : (a \o b)[j] = IF j <= Len(a) THEN a[j] ELSE b[j - Len(a)]
  BY <1>2, <1>3, ConcatProperties, Zenon
<1>5. Erased(l, k) = a \o b
  BY Zenon DEF Erased, a, b
<1>6. ASSUME NEW j \in 1 .. Len(l) - 1
      PROVE  (a \o b)[j] = IF j < k THEN l[j] ELSE l[j + 1]
  <2>1. CASE j < k
    BY <1>1, <1>2, <1>3, <1>4, <2>1
  <2>2. CASE ~ (j < k)
    <3>1. j - (k - 1) \in 1 .. Len(l) - k /\ k + (j - (k - 1)) = j + 1
      BY <1>1, <2>2
    <3>2. j \in 1 .. Len(a) + Len(b) /\ ~ (j <= Len(a)) /\ Len(a) = k - 1
      BY <1>1, <1>2, <1>3, <2>2
    <3>3. (a \o b)[j] = b[j - (k - 1)]
      BY <1>4, <3>2, Zenon
    <3> QED  BY <1>3, <2>2, <3>1, <3>3, Zenon
  <2> QED  BY <2>1, <2>2, Zenon
<1>7. Len(a \o b) = Len(l) - 1
  BY <1>1, <1>2, <1>3, <1>4
<1> QED  BY <1>4, <1>5, <1>6, <1>7, Zenon

\* An iterator finds its entry, since no two have the same number.
LEMMA PlaceFound ==
    ASSUME NEW l, Unique(l), NEW k \in DOMAIN l
    PROVE  PlaceIn(l, l[k].id) = k
BY Zenon DEF PlaceIn, Unique

\* List new is l with n for the count of the entry at place k, or without it.
Edited(l, new, k, n) ==
    /\ new \in Seq(Entries)
    /\ n = 0 => /\ Len(new) = Len(l) - 1
                /\ \A j \in 1 .. Len(l) - 1 : new[j] = IF j < k THEN l[j] ELSE l[j + 1]
    /\ n # 0 => /\ Len(new) = Len(l)
                /\ \A j \in 1 .. Len(l) :
                      new[j] = IF j = k THEN [id        |-> l[k].id,
                                              callbacks |-> l[k].callbacks,
                                              count     |-> n]
                               ELSE l[j]

\* Counted edits one entry.
LEMMA CountedList ==
    ASSUME NEW l \in Seq(Entries), Unique(l), NEW k \in DOMAIN l, NEW d \in {-1, 1},
           l[k].count > 0
    PROVE  Edited(l, Counted(l, l[k].id, d), k, l[k].count + d)
<1> DEFINE e == [id |-> l[k].id, callbacks |-> l[k].callbacks, count |-> l[k].count + d]
           new == Counted(l, l[k].id, d)
<1>1. /\ Len(l) \in Nat /\ DOMAIN l = 1 .. Len(l) /\ k \in 1 .. Len(l) /\ l[k] \in Entries
      /\ l \in [1 .. Len(l) -> Entries]
  BY LenProperties, Zenon
<1>2. PlaceIn(l, l[k].id) = k
  BY PlaceFound, Zenon
<1>3. CASE l[k].count + d = 0
  <2>1. new = Erased(l, k)
    BY <1>2, <1>3, Zenon DEF Counted
  <2>2. /\ Erased(l, k) \in Seq(Entries) /\ Len(Erased(l, k)) = Len(l) - 1
        /\ \A j \in 1 .. Len(l) - 1 : Erased(l, k)[j] = IF j < k THEN l[j] ELSE l[j + 1]
    BY Removed, Zenon
  <2> HIDE DEF new
  <2>3. Edited(l, new, k, l[k].count + d)
    BY <1>3, <2>1, <2>2, Zenon DEF Edited
  <2> QED  BY <2>3, Zenon DEF new
<1>4. CASE l[k].count + d # 0
  <2>1. e \in Entries
    BY <1>1, <1>4 DEF Entries
  <2>2. new = [l EXCEPT ![k].count = @ + d]
    BY <1>2, <1>4, Zenon DEF Counted
  <2>3. [l[k] EXCEPT !.count = @ + d] = e
    BY <1>1 DEF Entries
  <2>4. new = [l EXCEPT ![k] = e]
    BY <1>1, <2>2, <2>3, Zenon
  <2> HIDE DEF e, new
  <2>5. /\ new \in Seq(Entries) /\ Len(new) = Len(l)
        /\ \A j \in 1 .. Len(l) : new[j] = IF j = k THEN e ELSE l[j]
    BY <1>1, <2>1, <2>4, ExceptSeq, Zenon
  <2>6. Edited(l, new, k, l[k].count + d)
    BY <1>4, <2>5, Zenon DEF Edited, e
  <2> QED  BY <2>6, Zenon DEF new
<1> QED  BY <1>3, <1>4, Zenon

\* The entries of list new are those of list l, in their order, but for entry id, which has
\* count n, or is gone if n is 0.
Changed(l, new, id, n) ==
    /\ new \in Seq(Entries) /\ Unique(new)
    /\ \A j \in DOMAIN new :
          \E i \in DOMAIN l : /\ new[j].id = l[i].id /\ new[j].callbacks = l[i].callbacks
                              /\ new[j].count = IF l[i].id = id THEN n ELSE l[i].count
    /\ \A i \in DOMAIN l : (l[i].id = id => n # 0) =>
          \E j \in DOMAIN new : new[j].id = l[i].id /\ new[j].callbacks = l[i].callbacks
    /\ n = 0 => \A j \in DOMAIN new : new[j].id # id
    /\ \A i1, i2 \in DOMAIN l : \A j1, j2 \in DOMAIN new :
          l[i1].id = new[j1].id /\ l[i2].id = new[j2].id /\ i1 < i2 => j1 < j2

\* The other entries stay, in their order.
LEMMA CountedChanges ==
    ASSUME NEW l \in Seq(Entries), Unique(l), NEW k \in DOMAIN l, NEW d \in {-1, 1},
           l[k].count > 0
    PROVE  Changed(l, Counted(l, l[k].id, d), l[k].id, l[k].count + d)
<1> DEFINE new == Counted(l, l[k].id, d)
           n == l[k].count + d
<1>0. Edited(l, new, k, n)
  BY CountedList, Zenon
<1>1. /\ Len(l) \in Nat /\ DOMAIN l = 1 .. Len(l) /\ k \in 1 .. Len(l)
      /\ \A i \in 1 .. Len(l) : l[i] \in Entries
  BY LenProperties, Zenon
<1>2. new \in Seq(Entries) /\ DOMAIN new = 1 .. Len(new) /\ Len(new) \in Nat
  <2> HIDE DEF new
  <2>1. new \in Seq(Entries)
    BY <1>0, Zenon DEF Edited
  <2> QED  BY <2>1, LenProperties, Zenon
<1>3. CASE n = 0
  <2> DEFINE old(j) == IF j < k THEN j ELSE j + 1
  <2>1. Len(new) = Len(l) - 1 /\ \A j \in DOMAIN new : new[j] = l[old(j)]
    <3>1. /\ Len(new) = Len(l) - 1
          /\ \A j \in 1 .. Len(l) - 1 : new[j] = IF j < k THEN l[j] ELSE l[j + 1]
      BY <1>0, <1>3, Zenon DEF Edited
    <3> HIDE DEF new
    <3> QED  BY <1>1, <1>2, <3>1, Zenon
  <2>2. \A j \in DOMAIN new : old(j) \in DOMAIN l /\ old(j) # k
    <3> HIDE DEF new
    <3> QED  BY <1>1, <1>2, <2>1
  <2>3. \A i \in DOMAIN l : i # k => \E j \in DOMAIN new : old(j) = i
    <3> HIDE DEF new
    <3> TAKE i \in DOMAIN l
    <3> HAVE i # k
    <3>1. CASE i < k
      BY <1>1, <1>2, <2>1, <3>1
    <3>2. CASE i > k
      <4>1. i - 1 \in DOMAIN new /\ old(i - 1) = i
        BY <1>1, <1>2, <2>1, <3>2
      <4> QED  BY <4>1, Zenon
    <3> QED  BY <1>1, <3>1, <3>2
  <2>4. \A j1, j2 \in DOMAIN new : old(j1) < old(j2) => j1 < j2
    <3> HIDE DEF new
    <3> QED  BY <1>1, <1>2, <2>1
  <2>5. \A j1, j2 \in DOMAIN new : old(j1) = old(j2) => j1 = j2
    <3> HIDE DEF new
    <3> QED  BY <1>1, <1>2, <2>1
  <2>6. \A i \in DOMAIN l : l[i].id = l[k].id => i = k
    BY Zenon DEF Unique
  <2> HIDE DEF new, n, old
  <2>7. Unique(new)
    BY <2>1, <2>2, <2>5 DEF Unique
  <2>8. \A j \in DOMAIN new :
            \E i \in DOMAIN l : /\ new[j].id = l[i].id /\ new[j].callbacks = l[i].callbacks
                                /\ new[j].count = IF l[i].id = l[k].id THEN n ELSE l[i].count
    BY <2>1, <2>2, <2>6, Zenon
  <2>9. \A i \in DOMAIN l : (l[i].id = l[k].id => n # 0) =>
            \E j \in DOMAIN new : new[j].id = l[i].id /\ new[j].callbacks = l[i].callbacks
    BY <1>3, <2>1, <2>3, Zenon
  <2>10. \A j \in DOMAIN new : new[j].id # l[k].id
    BY <2>1, <2>2, <2>6, Zenon
  <2>11. ASSUME NEW i1 \in DOMAIN l, NEW i2 \in DOMAIN l, NEW j1 \in DOMAIN new,
                NEW j2 \in DOMAIN new, l[i1].id = new[j1].id, l[i2].id = new[j2].id, i1 < i2
         PROVE  j1 < j2
    <3>1. i1 = old(j1) /\ i2 = old(j2)
      BY <2>1, <2>2, <2>11, Zenon DEF Unique
    <3> QED  BY <2>4, <2>11, <3>1, Zenon
  <2> QED  BY <1>2, <2>7, <2>8, <2>9, <2>10, <2>11, Zenon DEF Changed, new, n
<1>4. CASE n # 0
  <2>1. /\ Len(new) = Len(l)
        /\ \A j \in 1 .. Len(l) : new[j] = IF j = k THEN [id        |-> l[k].id,
                                                          callbacks |-> l[k].callbacks,
                                                          count     |-> n]
                                           ELSE l[j]
    BY <1>0, <1>4, Zenon DEF Edited
  <2> HIDE DEF new, n
  <2>2. DOMAIN new = DOMAIN l
    BY <1>1, <1>2, <2>1, Zenon
  <2>3. \A j \in DOMAIN l : /\ new[j].id = l[j].id /\ new[j].callbacks = l[j].callbacks
                            /\ new[j].count = IF j = k THEN n ELSE l[j].count
    BY <1>1, <2>1
  <2>4. \A i \in DOMAIN l : l[i].id = l[k].id <=> i = k
    BY Zenon DEF Unique
  <2>5. Unique(new)
    BY <2>2, <2>3, Zenon DEF Unique
  <2>6. \A j \in DOMAIN new :
            \E i \in DOMAIN l : /\ new[j].id = l[i].id /\ new[j].callbacks = l[i].callbacks
                                /\ new[j].count = IF l[i].id = l[k].id THEN n ELSE l[i].count
    BY <2>2, <2>3, <2>4, Zenon
  <2>7. \A i \in DOMAIN l :
            \E j \in DOMAIN new : new[j].id = l[i].id /\ new[j].callbacks = l[i].callbacks
    BY <2>2, <2>3, Zenon
  <2>8. ASSUME NEW i1 \in DOMAIN l, NEW i2 \in DOMAIN l, NEW j1 \in DOMAIN new,
               NEW j2 \in DOMAIN new, l[i1].id = new[j1].id, l[i2].id = new[j2].id, i1 < i2
        PROVE  j1 < j2
    <3>1. i1 = j1 /\ i2 = j2
      BY <2>2, <2>3, <2>8, Zenon DEF Unique
    <3> QED  BY <2>8, <3>1, Zenon
  <2> QED  BY <1>2, <1>4, <2>5, <2>6, <2>7, <2>8, Zenon DEF Changed, new, n
<1> QED  BY <1>3, <1>4, Zenon

-----------------------------------------------------------------------------
(* Counts.                                                                 *)

\* An entry has finitely many executions.
LEMMA ExecutionsFinite ==
    ASSUME NEW a, NEW id
    PROVE  IsFiniteSet(Executions(a, id)) /\ Cardinality(Executions(a, id)) \in Nat
<1>1. Executions(a, id) \subseteq Callers
  BY Zenon DEF Executions
<1> QED  BY <1>1, FiniteCallers, FS_Subset, FS_CardinalityType, Zenon

\* A thread goes on from one entry to another.
LEMMA ExecutionsMove ==
    ASSUME NEW a \in [Callers -> Nat], NEW c \in Callers, NEW x \in Nat, x # a[c],
           NEW b, \A y \in Callers : b[y] = IF y = c THEN x ELSE a[y]
    PROVE  /\ Cardinality(Executions(b, x)) = Cardinality(Executions(a, x)) + 1
           /\ Cardinality(Executions(b, a[c])) = Cardinality(Executions(a, a[c])) - 1
           /\ \A id : id # x /\ id # a[c] => Executions(b, id) = Executions(a, id)
<1>1. Executions(b, x) = Executions(a, x) \cup {c} /\ c \notin Executions(a, x)
  BY Zenon DEF Executions
<1>2. Executions(b, a[c]) = Executions(a, a[c]) \ {c} /\ c \in Executions(a, a[c])
  BY Zenon DEF Executions
<1>3. \A id : id # x /\ id # a[c] => Executions(b, id) = Executions(a, id)
  BY Zenon DEF Executions
<1>4. Cardinality(Executions(b, x)) = Cardinality(Executions(a, x)) + 1
  BY <1>1, ExecutionsFinite, FS_AddElement, Zenon
<1>5. Cardinality(Executions(b, a[c])) = Cardinality(Executions(a, a[c])) - 1
  BY <1>2, ExecutionsFinite, FS_RemoveElement, Zenon
<1> QED  BY <1>3, <1>4, <1>5, Zenon

\* One entry has a new count, which is what it should be, and nothing else refers to it if
\* that is 0.
LEMMA Recounted ==
    ASSUME NEW l, NEW m, NEW a, Sound(l, m, a), NEW k \in DOMAIN l, NEW n \in Nat,
           NEW new, Changed(l, new, l[k].id, n),
           NEW m2 \in [Subscribers -> Nat], NEW b \in [Callers -> Nat],
           n = Cardinality(Executions(b, l[k].id)) + Registered(m2, l[k]),
           \A i \in DOMAIN l \ {k} :
               /\ Cardinality(Executions(b, l[i].id)) = Cardinality(Executions(a, l[i].id))
               /\ Registered(m2, l[i]) = Registered(m, l[i]),
           \A c \in Callers : b[c] # 0 => b[c] = l[k].id \/ b[c] = a[c],
           \A s \in Subscribers : m2[s] # 0 => m2[s] = m[s]
    PROVE  Sound(new, m2, b)
<1>1. new \in Seq(Entries) /\ Unique(new)
  BY Zenon DEF Changed
<1>2. ASSUME NEW j \in DOMAIN new
      PROVE  /\ new[j].count = Cardinality(Executions(b, new[j].id)) + Registered(m2, new[j])
             /\ new[j].count > 0
  <2>1. PICK i \in DOMAIN l : /\ new[j].id = l[i].id /\ new[j].callbacks = l[i].callbacks
                              /\ new[j].count = IF l[i].id = l[k].id THEN n ELSE l[i].count
    BY Zenon DEF Changed
  <2>2. Registered(m2, new[j]) = Registered(m2, l[i])
    BY <2>1, Zenon DEF Registered
  <2>3. CASE i = k
    <3>1. n # 0
      BY <2>1, <2>3, Zenon DEF Changed
    <3> QED  BY <2>1, <2>2, <2>3, <3>1, SMTT(60)
  <2>4. CASE i # k
    <3>1. l[i].id # l[k].id
      BY <2>4, Zenon DEF Sound, Unique
    <3>2. /\ l[i].count = Cardinality(Executions(a, l[i].id)) + Registered(m, l[i])
          /\ l[i].count > 0
      BY Zenon DEF Sound
    <3>3. /\ Cardinality(Executions(b, l[i].id)) = Cardinality(Executions(a, l[i].id))
          /\ Registered(m2, l[i]) = Registered(m, l[i])
      BY <2>4, Zenon
    <3> QED  BY <2>1, <2>2, <3>1, <3>2, <3>3, Zenon
  <2> QED  BY <2>3, <2>4, Zenon
<1>3. ASSUME NEW i \in DOMAIN l, l[i].id = l[k].id => n # 0
      PROVE  \E j \in DOMAIN new : new[j].id = l[i].id /\ new[j].callbacks = l[i].callbacks
  BY <1>3, Zenon DEF Changed
<1>4. ASSUME NEW c \in Callers, b[c] # 0  PROVE \E j \in DOMAIN new : new[j].id = b[c]
  <2>1. PICK i \in DOMAIN l : l[i].id = b[c]
    <3>1. CASE b[c] = l[k].id
      BY <3>1, Zenon
    <3>2. CASE b[c] = a[c]
      BY <1>4, <3>2 DEF Sound
    <3> QED  BY <1>4, <3>1, <3>2, Zenon
  <2>2. ASSUME l[i].id = l[k].id  PROVE n # 0
    <3>1. c \in Executions(b, l[k].id)
      BY <2>1, <2>2, Zenon DEF Executions
    <3>2. Cardinality(Executions(b, l[k].id)) # 0
      BY <3>1, ExecutionsFinite, FS_EmptySet, Zenon
    <3>3. Registered(m2, l[k]) \in {0, 1} /\ Cardinality(Executions(b, l[k].id)) \in Nat
      BY ExecutionsFinite, Zenon DEF Registered
    <3> QED  BY <3>2, <3>3
  <2>3. \E j \in DOMAIN new : new[j].id = l[i].id
    BY <1>3, <2>2, Zenon
  <2> QED  BY <2>1, <2>3, Zenon
<1>5. ASSUME NEW s \in Subscribers, m2[s] # 0
      PROVE  \E j \in DOMAIN new : new[j].id = m2[s] /\ new[j].callbacks = s
  <2>1. PICK i \in DOMAIN l : l[i].id = m2[s] /\ l[i].callbacks = s
    BY <1>5, Zenon DEF Sound
  <2>2. ASSUME l[i].id = l[k].id  PROVE n # 0
    <3>1. i = k
      BY <2>2, Zenon DEF Sound, Unique
    <3>2. Registered(m2, l[k]) = 1
      BY <2>1, <3>1, Zenon DEF Registered
    <3>3. Cardinality(Executions(b, l[k].id)) \in Nat
      BY ExecutionsFinite, Zenon
    <3> QED  BY <3>2, <3>3
  <2>3. \E j \in DOMAIN new : new[j].id = l[i].id /\ new[j].callbacks = l[i].callbacks
    BY <1>3, <2>2, Zenon
  <2> QED  BY <2>1, <2>3, Zenon
<1> QED  BY <1>1, <1>2, <1>4, <1>5, Zenon DEF Sound

\* What lies ahead stays ahead when an entry is counted.
LEMMA AheadKept ==
    ASSUME NEW l, NEW new, NEW id, NEW n, Changed(l, new, id, n),
           NEW m, NEW x, NEW o, Ahead(l, m, x, o)
    PROVE  Ahead(new, m, x, o)
<1> SUFFICES ASSUME NEW s \in o, NEW i \in DOMAIN new, NEW j \in DOMAIN new,
                    new[i].id = x, new[j].id = m[s]
             PROVE  i < j
  BY Zenon DEF Ahead
<1>1. PICK i1 \in DOMAIN l : l[i1].id = new[i].id
  BY Zenon DEF Changed
<1>2. PICK j1 \in DOMAIN l : l[j1].id = new[j].id
  BY Zenon DEF Changed
<1>3. i1 < j1
  BY <1>1, <1>2, Zenon DEF Ahead
<1> QED  BY <1>1, <1>2, <1>3, Zenon DEF Changed

\* An entry in order, and its change.
LEMMA EntrySound ==
    ASSUME NEW l, NEW m, NEW a, Sound(l, m, a), NEW k \in DOMAIN l, NEW d \in {-1, 1}
    PROVE  /\ l[k].count \in Nat /\ l[k].count > 0 /\ l[k].id \in Nat \ {0}
           /\ l[k].callbacks \in Subscribers
           /\ l[k].count = Cardinality(Executions(a, l[k].id)) + Registered(m, l[k])
           /\ Changed(l, Counted(l, l[k].id, d), l[k].id, l[k].count + d)
<1>1. l[k] \in Entries
  BY LenProperties, Zenon DEF Sound
<1>2. /\ l[k].count > 0
      /\ l[k].count = Cardinality(Executions(a, l[k].id)) + Registered(m, l[k])
  BY Zenon DEF Sound
<1>3. Changed(l, Counted(l, l[k].id, d), l[k].id, l[k].count + d)
  BY <1>2, CountedChanges, Zenon DEF Sound
<1> QED  BY <1>1, <1>2, <1>3, Zenon DEF Entries

\* The callback of c has returned.
LEMMA Leaves ==
    ASSUME NEW l, NEW m, NEW a, Sound(l, m, a), NEW c \in Callers, a[c] # 0
    PROVE  Sound(Counted(l, a[c], -1), m, [a EXCEPT ![c] = 0])
<1> DEFINE b == [a EXCEPT ![c] = 0]
           new == Counted(l, a[c], -1)
<1>1. PICK k \in DOMAIN l : l[k].id = a[c]
  BY Zenon DEF Sound
<1> DEFINE n == l[k].count + (-1)
<1>2. /\ l[k].count \in Nat /\ l[k].count > 0
      /\ l[k].count = Cardinality(Executions(a, l[k].id)) + Registered(m, l[k])
      /\ Changed(l, new, l[k].id, n)
  BY <1>1, EntrySound, Zenon
<1>3. a \in [Callers -> Nat] /\ b \in [Callers -> Nat] /\ m \in [Subscribers -> Nat]
  BY Zenon DEF Sound
<1>4. /\ Cardinality(Executions(b, a[c])) = Cardinality(Executions(a, a[c])) - 1
      /\ \A id : id # 0 /\ id # a[c] => Executions(b, id) = Executions(a, id)
  <2>1. \A y \in Callers : b[y] = IF y = c THEN 0 ELSE a[y]
    BY <1>3, Zenon
  <2> HIDE DEF b
  <2> QED  BY <1>3, <2>1, ExecutionsMove
<1>5. n \in Nat /\ n = Cardinality(Executions(b, l[k].id)) + Registered(m, l[k])
  <2>1. Cardinality(Executions(a, a[c])) \in Nat /\ Registered(m, l[k]) \in {0, 1}
    BY ExecutionsFinite, Zenon DEF Registered
  <2> QED  BY <1>1, <1>2, <1>4, <2>1
<1>6. \A i \in DOMAIN l \ {k} :
          Cardinality(Executions(b, l[i].id)) = Cardinality(Executions(a, l[i].id))
  <2> TAKE i \in DOMAIN l \ {k}
  <2>1. l[i].id # 0
    BY EntrySound, Zenon
  <2>2. l[i].id # a[c]
    BY <1>1 DEF Sound, Unique
  <2> QED  BY <1>4, <2>1, <2>2, Zenon
<1>7. \A x \in Callers : b[x] # 0 => b[x] = l[k].id \/ b[x] = a[x]
  BY <1>3, Zenon
<1> HIDE DEF b, new, n
<1>8. Sound(new, m, b)
  BY <1>2, <1>3, <1>5, <1>6, <1>7, Recounted, SMTT(60)
<1> QED  BY <1>8, Zenon DEF new, b

\* Thread c, which runs nothing, is going to run the callback of the entry at place k.
LEMMA Enters ==
    ASSUME NEW l, NEW m, NEW a, Sound(l, m, a), NEW c \in Callers, a[c] = 0, NEW k \in DOMAIN l
    PROVE  Sound(Counted(l, l[k].id, 1), m, [a EXCEPT ![c] = l[k].id])
<1> DEFINE x == l[k].id
           b == [a EXCEPT ![c] = x]
           new == Counted(l, x, 1)
           n == l[k].count + 1
<1>1. /\ l[k].count \in Nat /\ x \in Nat \ {0}
      /\ l[k].count = Cardinality(Executions(a, x)) + Registered(m, l[k])
      /\ Changed(l, new, x, n)
  BY EntrySound, Zenon
<1>2. a \in [Callers -> Nat] /\ m \in [Subscribers -> Nat]
  BY Zenon DEF Sound
<1>3. b \in [Callers -> Nat]
  BY <1>1, <1>2, Zenon
<1>4. /\ Cardinality(Executions(b, x)) = Cardinality(Executions(a, x)) + 1
      /\ \A id : id # x /\ id # 0 => Executions(b, id) = Executions(a, id)
  <2>1. \A y \in Callers : b[y] = IF y = c THEN x ELSE a[y]
    BY <1>2, Zenon
  <2> HIDE DEF x, b
  <2> QED  BY <1>1, <1>2, <2>1, ExecutionsMove
<1>5. n \in Nat /\ n = Cardinality(Executions(b, x)) + Registered(m, l[k])
  <2>1. Cardinality(Executions(a, x)) \in Nat /\ Registered(m, l[k]) \in {0, 1}
    BY ExecutionsFinite, Zenon DEF Registered
  <2> QED  BY <1>1, <1>4, <2>1
<1>6. \A i \in DOMAIN l \ {k} :
          Cardinality(Executions(b, l[i].id)) = Cardinality(Executions(a, l[i].id))
  <2> TAKE i \in DOMAIN l \ {k}
  <2>1. l[i].id # 0
    BY EntrySound, Zenon
  <2>2. l[i].id # x
    BY Zenon DEF Sound, Unique
  <2> QED  BY <1>4, <2>1, <2>2, Zenon
<1>7. \A y \in Callers : b[y] # 0 => b[y] = x \/ b[y] = a[y]
  BY <1>2, Zenon
<1> HIDE DEF b, new, n
<1>8. Sound(new, m, b)
  BY <1>1, <1>2, <1>3, <1>5, <1>6, <1>7, Recounted, SMTT(60)
<1> QED  BY <1>8, Zenon DEF new, b

\* Subscriber s is unregistered.
LEMMA Drops ==
    ASSUME NEW l, NEW m, NEW a, Sound(l, m, a), NEW s \in Subscribers, m[s] # 0
    PROVE  /\ Sound(Counted(l, m[s], -1), [m EXCEPT ![s] = 0], a)
           /\ \E id, n : Changed(l, Counted(l, m[s], -1), id, n)
<1> DEFINE m2 == [m EXCEPT ![s] = 0]
           new == Counted(l, m[s], -1)
<1>1. PICK k \in DOMAIN l : l[k].id = m[s] /\ l[k].callbacks = s
  BY Zenon DEF Sound
<1> DEFINE n == l[k].count + (-1)
<1>2. /\ l[k].count \in Nat /\ l[k].count > 0 /\ l[k].id # 0
      /\ l[k].count = Cardinality(Executions(a, l[k].id)) + Registered(m, l[k])
      /\ Changed(l, new, l[k].id, n)
  BY <1>1, EntrySound
<1>3. a \in [Callers -> Nat] /\ m \in [Subscribers -> Nat] /\ m2 \in [Subscribers -> Nat]
  BY Zenon DEF Sound
<1>4. n \in Nat /\ n = Cardinality(Executions(a, l[k].id)) + Registered(m2, l[k])
  <2>1. Cardinality(Executions(a, l[k].id)) \in Nat
    BY ExecutionsFinite, Zenon
  <2>2. Registered(m, l[k]) = 1 /\ Registered(m2, l[k]) = 0
    BY <1>1, <1>2, <1>3, Zenon DEF Registered
  <2> QED  BY <1>2, <2>1, <2>2
<1>5. \A i \in DOMAIN l \ {k} : Registered(m2, l[i]) = Registered(m, l[i])
  <2> TAKE i \in DOMAIN l \ {k}
  <2>1. l[i].id # 0 /\ l[i].callbacks \in Subscribers
    BY EntrySound, Zenon
  <2>2. l[i].id # m[s]
    BY <1>1 DEF Sound, Unique
  <2> QED  BY <1>3, <2>1, <2>2, Zenon DEF Registered
<1>6. \A x \in Subscribers : m2[x] # 0 => m2[x] = m[x]
  BY <1>3, Zenon
<1> HIDE DEF m2, new, n
<1>7. Sound(new, m2, a)
  BY <1>2, <1>3, <1>4, <1>5, <1>6, Recounted, SMTT(60)
<1> QED  BY <1>2, <1>7, Zenon DEF new, m2

-----------------------------------------------------------------------------
(* The member functions.                                                   *)

\* What thread c has yet to call lies ahead of where it is.
Owing(l, m, id, o) == IF id = 0 THEN o = {} ELSE Ahead(l, m, id, o)

SInv ==
    /\ Sound(m_list, m_map, at)
    /\ owed \in [Callers -> SUBSET Subscribers]
    /\ \A c \in Callers : Owing(m_list, m_map, at[c], owed[c])

\* A new entry gets a number that is not in use.
LEMMA FreshIdNew ==
    ASSUME m_list \in Seq(Entries)
    PROVE  FreshId \in Nat \ {0} /\ \A i \in DOMAIN m_list : m_list[i].id # FreshId
<1> DEFINE ids == {m_list[i].id : i \in DOMAIN m_list}
           free == (1 .. Len(m_list) + 1) \ ids
<1>1. Len(m_list) \in Nat /\ DOMAIN m_list = 1 .. Len(m_list)
  BY LenProperties, Zenon
<1>2. free # {}
  <2>1. /\ IsFiniteSet(1 .. Len(m_list)) /\ Cardinality(1 .. Len(m_list)) = Len(m_list)
        /\ IsFiniteSet(1 .. Len(m_list) + 1)
        /\ Cardinality(1 .. Len(m_list) + 1) = Len(m_list) + 1
    BY <1>1, FS_Interval
  <2>2. ids = {m_list[i].id : i \in 1 .. Len(m_list)}
    BY <1>1, Zenon
  <2>3. IsFiniteSet(ids) /\ Cardinality(ids) <= Len(m_list)
    <3> DEFINE f == [i \in 1 .. Len(m_list) |-> m_list[i].id]
    <3>1. f \in Surjection(1 .. Len(m_list), ids)
      BY <2>2, Zenon DEF Surjection
    <3> HIDE DEF f, ids
    <3> QED  BY <2>1, <3>1, FS_Surjection
  <2>4. SUFFICES ASSUME free = {}  PROVE FALSE
    BY Zenon
  <2>5. 1 .. Len(m_list) + 1 \subseteq ids
    BY <2>4, Zenon
  <2>6. Cardinality(1 .. Len(m_list) + 1) <= Cardinality(ids)
    <3> HIDE DEF ids
    <3> QED  BY <2>3, <2>5, FS_Subset, Zenon
  <2>7. Cardinality(ids) \in Nat
    BY <2>3, FS_CardinalityType, Zenon
  <2> HIDE DEF ids
  <2> QED  BY <1>1, <2>1, <2>3, <2>6, <2>7, SMTT(60)
<1>3. \E id \in 1 .. Len(m_list) + 1 : \A i \in DOMAIN m_list : m_list[i].id # id
  BY <1>2, Zenon
<1>4. /\ FreshId \in 1 .. Len(m_list) + 1
      /\ \A i \in DOMAIN m_list : m_list[i].id # FreshId
  BY <1>3, Zenon DEF FreshId
<1> QED  BY <1>1, <1>4

\* The member functions one by one.
LEMMA RegisterKeeps ==
    ASSUME SInv, NEW s \in Subscribers, Register(s)
    PROVE  SInv'
<1>1. CASE m_map[s] # 0
  <2>1. UNCHANGED <<m_list, m_map, at, owed>>
    BY <1>1, Zenon DEF Register
  <2> QED  BY <2>1, Zenon DEF SInv
<1>2. CASE m_map[s] = 0
  <2> DEFINE id == FreshId
             e == [id |-> id, callbacks |-> s, count |-> 1]
             new == Append(m_list, e)
             m2 == [m_map EXCEPT ![s] = id]
  <2>1. m_list' = new /\ m_map' = m2 /\ at' = at /\ owed' = owed
    BY <1>2, Zenon DEF Register
  <2>2. /\ m_list \in Seq(Entries) /\ m_map \in [Subscribers -> Nat] /\ at \in [Callers -> Nat]
        /\ owed \in [Callers -> SUBSET Subscribers]
    BY Zenon DEF SInv, Sound
  <2>3. id \in Nat \ {0} /\ \A i \in DOMAIN m_list : m_list[i].id # id
    BY <2>2, FreshIdNew, Zenon
  <2> HIDE DEF id
  <2>4. e \in Entries
    BY <2>3, Zenon DEF Entries
  <2>5. /\ Len(m_list) \in Nat /\ DOMAIN m_list = 1 .. Len(m_list)
        /\ \A i \in DOMAIN m_list : m_list[i] \in Entries
    BY <2>2, LenProperties, Zenon
  <2>6. /\ new \in Seq(Entries) /\ Len(new) = Len(m_list) + 1
        /\ DOMAIN new = 1 .. Len(m_list) + 1
        /\ \A i \in DOMAIN m_list : new[i] = m_list[i]
        /\ new[Len(m_list) + 1] = e
    <3> HIDE DEF e
    <3> QED  BY <2>2, <2>4, <2>5, AppendProperties, SMTT(60)
  <2>7. \A j \in DOMAIN new : (j \in DOMAIN m_list /\ new[j] = m_list[j])
                              \/ (j = Len(m_list) + 1 /\ new[j] = e)
    BY <2>5, <2>6
  <2>8. e.id = id /\ e.callbacks = s /\ e.count = 1
    BY Zenon
  <2>9. m2 \in [Subscribers -> Nat] /\ m2[s] = id /\ \A x \in Subscribers \ {s} : m2[x] = m_map[x]
    BY <2>2, <2>3, Zenon
  <2> HIDE DEF e, new, m2
  <2>10. Unique(new)
    BY <2>3, <2>7, <2>8, SMTT(60) DEF Unique, SInv, Sound
  <2>11. \A c \in Callers : at[c] # id
    BY <2>3 DEF SInv, Sound
  <2>12. ASSUME NEW j \in DOMAIN new
         PROVE  /\ new[j].count = Cardinality(Executions(at, new[j].id)) + Registered(m2, new[j])
                /\ new[j].count > 0
    <3>1. CASE j \in DOMAIN m_list /\ new[j] = m_list[j]
      <4>1. m_list[j].id # 0 /\ m_list[j].callbacks \in Subscribers
        BY <2>5, <3>1, Zenon DEF Entries
      <4>2. Registered(m2, m_list[j]) = Registered(m_map, m_list[j])
        BY <1>2, <2>3, <2>9, <3>1, <4>1, Zenon DEF Registered
      <4> QED  BY <3>1, <4>2, Zenon DEF SInv, Sound
    <3>2. CASE new[j] = e
      <4>1. Executions(at, id) = {}
        BY <2>11, Zenon DEF Executions
      <4>2. Cardinality(Executions(at, id)) = 0
        BY <4>1, FS_EmptySet, Zenon
      <4>3. Registered(m2, e) = 1
        BY <2>8, <2>9, Zenon DEF Registered
      <4> QED  BY <2>8, <3>2, <4>2, <4>3, SMTT(60)
    <3> QED  BY <2>7, <3>1, <3>2, Zenon
  <2>13. \A c \in Callers : at[c] # 0 => \E j \in DOMAIN new : new[j].id = at[c]
    <3>1. \A i \in DOMAIN m_list : i \in DOMAIN new /\ new[i] = m_list[i]
      BY <2>5, <2>6
    <3> QED  BY <3>1 DEF SInv, Sound
  <2>14. ASSUME NEW x \in Subscribers, m2[x] # 0
         PROVE  \E j \in DOMAIN new : new[j].id = m2[x] /\ new[j].callbacks = x
    <3>1. CASE x = s
      <4>1. Len(m_list) + 1 \in DOMAIN new
        BY <2>5, <2>6, SMTT(60)
      <4> QED  BY <2>6, <2>8, <2>9, <3>1, <4>1, Zenon
    <3>2. CASE x # s
      <4>1. \A i \in DOMAIN m_list : i \in DOMAIN new /\ new[i] = m_list[i]
        BY <2>5, <2>6
      <4> QED  BY <2>9, <2>14, <3>2, <4>1, ZenonT(60) DEF SInv, Sound
    <3> QED  BY <3>1, <3>2, Zenon
  <2>15. Sound(new, m2, at)
    BY <2>2, <2>6, <2>9, <2>10, <2>12, <2>13, <2>14, Zenon DEF Sound
  <2>16. ASSUME NEW c \in Callers  PROVE Owing(new, m2, at[c], owed[c])
    <3>1. CASE at[c] = 0
      BY <3>1, Zenon DEF SInv, Owing
    <3>2. CASE at[c] # 0
      <4>1. Ahead(m_list, m_map, at[c], owed[c])
        BY <3>2, Zenon DEF SInv, Owing
      <4>2. ASSUME NEW x \in owed[c]
            PROVE  /\ m2[x] # 0
                   /\ \A i, j \in DOMAIN new : new[i].id = at[c] /\ new[j].id = m2[x] => i < j
        <5>1. x \in Subscribers /\ m_map[x] # 0 /\ x # s /\ m2[x] = m_map[x]
          BY <1>2, <2>2, <2>9, <4>1, Zenon DEF Ahead
        <5>2. m2[x] # id
          BY <2>3, <5>1 DEF SInv, Sound
        <5>3. \A j \in DOMAIN new : new[j].id # id => j \in DOMAIN m_list /\ new[j] = m_list[j]
          BY <2>7, <2>8, Zenon
        <5> QED  BY <2>11, <4>1, <5>1, <5>2, <5>3, Zenon DEF Ahead
      <4> QED  BY <3>2, <4>2, Zenon DEF Owing, Ahead
    <3> QED  BY <3>1, <3>2, Zenon
  <2> QED  BY <2>1, <2>2, <2>15, <2>16, Zenon DEF SInv
<1> QED  BY <1>1, <1>2, Zenon

LEMMA UnregisterKeeps ==
    ASSUME SInv, NEW s \in Subscribers, Unregister(s)
    PROVE  SInv'
<1>0. owed' = [c \in Callers |-> owed[c] \ {s}] /\ at' = at
  BY Zenon DEF Unregister
<1>1. owed \in [Callers -> SUBSET Subscribers] /\ m_map \in [Subscribers -> Nat]
  BY Zenon DEF SInv, Sound
<1>2. owed' \in [Callers -> SUBSET Subscribers]
  BY <1>0, <1>1, Zenon
<1>3. CASE m_map[s] = 0
  <2>1. m_list' = m_list /\ m_map' = m_map
    BY <1>3, Zenon DEF Unregister
  <2>2. \A c \in Callers : Owing(m_list, m_map, at[c], owed'[c])
    BY <1>0, Zenon DEF SInv, Owing, Ahead
  <2> QED  BY <1>0, <1>2, <2>1, <2>2, Zenon DEF SInv
<1>4. CASE m_map[s] # 0
  <2> DEFINE new == Counted(m_list, m_map[s], -1)
             m2 == [m_map EXCEPT ![s] = 0]
  <2>1. m_list' = new /\ m_map' = m2
    BY <1>4, Zenon DEF Unregister
  <2>2. Sound(new, m2, at) /\ \E id, n : Changed(m_list, new, id, n)
    BY <1>4, Drops, Zenon DEF SInv
  <2>3. \A x \in Subscribers \ {s} : m2[x] = m_map[x]
    BY <1>1, Zenon
  <2> HIDE DEF new, m2
  <2>4. ASSUME NEW c \in Callers  PROVE Owing(new, m2, at[c], owed'[c])
    <3>1. CASE at[c] = 0
      BY <1>0, <3>1, Zenon DEF SInv, Owing
    <3>2. CASE at[c] # 0
      <4>1. Ahead(m_list, m_map, at[c], owed[c])
        BY <3>2, Zenon DEF SInv, Owing
      <4>2. owed'[c] \subseteq owed[c] /\ \A x \in owed'[c] : m2[x] = m_map[x]
        BY <1>0, <1>1, <2>3, Zenon
      <4>3. Ahead(m_list, m2, at[c], owed'[c])
        BY <4>1, <4>2, Zenon DEF Ahead
      <4>4. Ahead(new, m2, at[c], owed'[c])
        BY <2>2, <4>3, AheadKept, Zenon
      <4> QED  BY <3>2, <4>4, Zenon DEF Owing
    <3> QED  BY <3>1, <3>2, Zenon
  <2> QED  BY <1>0, <1>2, <2>1, <2>2, <2>4, Zenon DEF SInv
<1> QED  BY <1>3, <1>4, Zenon

\* The loop of Iterate goes on at place i of list l: what is due lies at i or behind it.
LEMMA GoOnKeeps ==
    ASSUME NEW c \in Callers, NEW l, NEW a, NEW i \in Nat \ {0}, NEW due \in SUBSET Subscribers,
           a = [at EXCEPT ![c] = 0], at \in [Callers -> Nat], Sound(l, m_map, a),
           owed \in [Callers -> SUBSET Subscribers],
           \A x \in Callers \ {c} : Owing(l, m_map, at[x], owed[x]),
           \A s \in due : m_map[s] # 0 /\ \A j \in DOMAIN l : l[j].id = m_map[s] => j >= i,
           GoOn(c, l, i, due), m_map' = m_map
    PROVE  SInv'
<1>1. /\ l \in Seq(Entries) /\ Len(l) \in Nat /\ DOMAIN l = 1 .. Len(l)
      /\ \A j \in DOMAIN l : l[j] \in Entries
  BY LenProperties, SMTT(60) DEF Sound
<1>2. CASE i > Len(l)
  <2>1. m_list' = l /\ at' = a /\ owed' = [owed EXCEPT ![c] = due]
    BY <1>2, Zenon DEF GoOn
  <2>2. due = {}
    <3> SUFFICES ASSUME NEW s \in due  PROVE FALSE
      BY Zenon
    <3>1. PICK j \in DOMAIN l : l[j].id = m_map[s]
      BY Zenon DEF Sound
    <3>2. j >= i
      BY <3>1, Zenon
    <3> QED  BY <1>1, <1>2, <3>2, SMTT(60)
  <2>3. owed' \in [Callers -> SUBSET Subscribers]
    BY <2>1, Zenon
  <2>4. ASSUME NEW x \in Callers  PROVE Owing(l, m_map, a[x], owed'[x])
    <3>1. CASE x = c
      BY <2>1, <2>2, <3>1, Zenon DEF Owing
    <3>2. CASE x # c
      <4>1. a[x] = at[x] /\ owed'[x] = owed[x]
        BY <2>1, <3>2, Zenon
      <4> QED  BY <3>2, <4>1, Zenon
    <3> QED  BY <3>1, <3>2, Zenon
  <2> QED  BY <2>1, <2>3, <2>4, Zenon DEF SInv
<1>3. CASE ~ (i > Len(l))
  <2> DEFINE id == l[i].id
             new == Counted(l, id, 1)
             b == [a EXCEPT ![c] = id]
             o == due \ {l[i].callbacks}
  <2>0. i \in DOMAIN l
    BY <1>1, <1>3, SMTT(60)
  <2>1. m_list' = new /\ at' = b /\ owed' = [owed EXCEPT ![c] = o]
    BY <1>3, Zenon DEF GoOn
  <2>2. Sound(new, m_map, b)
    <3>1. a[c] = 0
      BY Zenon
    <3> QED  BY <2>0, <3>1, Enters, Zenon
  <2>3. id # 0 /\ Changed(l, new, id, l[i].count + 1)
    BY <2>0, EntrySound, Zenon
  <2>4. owed' \in [Callers -> SUBSET Subscribers]
    BY <2>1, Zenon
  <2>5. Ahead(l, m_map, id, o)
    <3> SUFFICES ASSUME NEW s \in o, NEW i1 \in DOMAIN l, NEW j \in DOMAIN l,
                        l[i1].id = id, l[j].id = m_map[s]
                 PROVE  i1 < j
      BY Zenon DEF Ahead
    <3>1. i1 = i
      BY <2>0, Zenon DEF Sound, Unique
    <3>2. j >= i
      BY Zenon
    <3>3. j # i
      <4>1. PICK k \in DOMAIN l : l[k].id = m_map[s] /\ l[k].callbacks = s
        BY Zenon DEF Sound
      <4>2. k = j
        BY <4>1, SMTT(60) DEF Sound, Unique
      <4> QED  BY <4>1, <4>2, Zenon
    <3> QED  BY <1>1, <3>1, <3>2, <3>3, SMTT(60)
  <2>6. b[c] = id /\ \A x \in Callers \ {c} : b[x] = at[x]
    BY Zenon
  <2>7. owed'[c] = o /\ \A x \in Callers \ {c} : owed'[x] = owed[x]
    BY <2>1, Zenon
  <2> HIDE DEF id, new, b, o
  <2>8. ASSUME NEW x \in Callers  PROVE Owing(new, m_map, b[x], owed'[x])
    <3>1. CASE x = c
      <4>1. Ahead(new, m_map, id, o)
        BY <2>3, <2>5, AheadKept, Zenon
      <4> QED  BY <2>3, <2>6, <2>7, <3>1, <4>1, Zenon DEF Owing
    <3>2. CASE x # c
      <4>1. Owing(l, m_map, at[x], owed[x])
        BY <3>2, Zenon
      <4>2. CASE at[x] = 0
        BY <2>6, <2>7, <3>2, <4>1, <4>2, Zenon DEF Owing
      <4>3. CASE at[x] # 0
        <5>1. Ahead(new, m_map, at[x], owed[x])
          BY <2>3, <4>1, <4>3, AheadKept, Zenon DEF Owing
        <5> QED  BY <2>6, <2>7, <3>2, <4>3, <5>1, Zenon DEF Owing
      <4> QED  BY <4>2, <4>3, Zenon
    <3> QED  BY <3>1, <3>2, Zenon
  <2> QED  BY <2>1, <2>2, <2>4, <2>8, Zenon DEF SInv
<1> QED  BY <1>2, <1>3, Zenon

LEMMA BeginsKeeps ==
    ASSUME SInv, NEW c \in Callers, IterateBegins(c)
    PROVE  SInv'
<1> DEFINE due == {s \in Subscribers : m_map[s] # 0}
           a == [at EXCEPT ![c] = 0]
<1>1. at \in [Callers -> Nat] /\ owed \in [Callers -> SUBSET Subscribers] /\ at[c] = 0
  BY Zenon DEF SInv, Sound, IterateBegins
<1>2. a = at
  BY <1>1, Zenon
<1>3. Sound(m_list, m_map, a)
  BY <1>2, Zenon DEF SInv
<1>4. GoOn(c, m_list, 1, due) /\ m_map' = m_map
  BY Zenon DEF IterateBegins
<1>5. DOMAIN m_list \subseteq Nat \ {0}
  BY LenProperties DEF SInv, Sound
<1>6. \A s \in due : m_map[s] # 0 /\ \A j \in DOMAIN m_list : m_list[j].id = m_map[s] => j >= 1
  BY <1>5
<1>7. \A x \in Callers \ {c} : Owing(m_list, m_map, at[x], owed[x])
  BY Zenon DEF SInv
<1>8. due \in SUBSET Subscribers /\ 1 \in Nat \ {0} /\ a = [at EXCEPT ![c] = 0]
  BY SMTT(60)
<1> HIDE DEF due, a
<1> QED  BY <1>1, <1>3, <1>4, <1>6, <1>7, <1>8, GoOnKeeps, Zenon

LEMMA ReturnsKeeps ==
    ASSUME SInv, NEW c \in Callers, IterateReturns(c)
    PROVE  SInv'
<1> DEFINE l == Counted(m_list, at[c], -1)
           a == [at EXCEPT ![c] = 0]
           i == IF Len(l) < Len(m_list) THEN Place(at[c]) ELSE Place(at[c]) + 1
<1>1. /\ at \in [Callers -> Nat] /\ owed \in [Callers -> SUBSET Subscribers] /\ at[c] # 0
      /\ m_list \in Seq(Entries) /\ Unique(m_list) /\ Sound(m_list, m_map, at)
  BY Zenon DEF SInv, Sound, IterateReturns
<1>2. PICK k \in DOMAIN m_list : m_list[k].id = at[c]
  BY <1>1, Zenon DEF Sound
<1>3. Place(at[c]) = k
  BY <1>1, <1>2, PlaceFound, Zenon DEF Place
<1> DEFINE n == m_list[k].count + (-1)
<1>4. m_list[k].count > 0 /\ Changed(m_list, l, at[c], n)
  BY <1>1, <1>2, EntrySound, Zenon
<1>5. Edited(m_list, l, k, n)
  BY <1>1, <1>2, <1>4, CountedList, Zenon
<1>6. Sound(l, m_map, a)
  BY <1>1, Leaves, ZenonT(60)
<1>7. GoOn(c, l, i, owed[c]) /\ m_map' = m_map
  BY Zenon DEF IterateReturns
<1>8. /\ Len(m_list) \in Nat /\ DOMAIN m_list = 1 .. Len(m_list) /\ k \in 1 .. Len(m_list)
  BY <1>1, <1>2, LenProperties, Zenon
<1> HIDE DEF l
<1>9. Len(l) \in Nat /\ DOMAIN l = 1 .. Len(l)
  BY <1>5, LenProperties, Zenon DEF Edited
<1>10. Ahead(m_list, m_map, at[c], owed[c])
  BY <1>1, Zenon DEF SInv, Owing
<1> HIDE DEF n
<1>11. ASSUME NEW s \in owed[c]
       PROVE  m_map[s] # 0 /\ \A j \in DOMAIN l : l[j].id = m_map[s] => j >= i
  <2>1. m_map[s] # 0 /\ \A j \in DOMAIN m_list : m_list[j].id = m_map[s] => k < j
    BY <1>2, <1>10, Zenon DEF Ahead
  <2>2. ASSUME NEW j \in DOMAIN l, l[j].id = m_map[s]  PROVE j >= i
    <3>1. CASE n = 0
      <4>1. Len(l) = Len(m_list) - 1 /\ l[j] = IF j < k THEN m_list[j] ELSE m_list[j + 1]
        BY <1>5, <1>9, <3>1, Zenon DEF Edited
      <4>2. i = k
        BY <1>3, <1>8, <4>1, SMTT(60)
      <4>3. ~ (j < k)
        BY <1>8, <1>9, <2>1, <2>2, <4>1, SMTT(60)
      <4> QED  BY <1>8, <1>9, <4>2, <4>3, SMTT(60)
    <3>2. CASE n # 0
      <4>1. Len(l) = Len(m_list) /\ l[j].id = m_list[j].id
        <5>1. /\ Len(l) = Len(m_list)
              /\ \A h \in 1 .. Len(m_list) :
                    l[h] = IF h = k THEN [id        |-> m_list[k].id,
                                          callbacks |-> m_list[k].callbacks,
                                          count     |-> n]
                           ELSE m_list[h]
          BY <1>5, <3>2, ZenonT(60) DEF Edited
        <5>2. j \in 1 .. Len(m_list)
          BY <1>9, <5>1, Zenon
        <5> QED  BY <5>1, <5>2
      <4>2. i = k + 1
        BY <1>3, <1>8, <4>1, SMTT(60)
      <4>3. j \in DOMAIN m_list /\ k < j
        BY <1>8, <1>9, <2>1, <2>2, <4>1, Zenon
      <4> QED  BY <1>8, <4>2, <4>3, SMTT(60)
    <3> QED  BY <3>1, <3>2, Zenon
  <2> QED  BY <2>1, <2>2, Zenon
<1>12. ASSUME NEW x \in Callers \ {c}  PROVE Owing(l, m_map, at[x], owed[x])
  <2>1. Owing(m_list, m_map, at[x], owed[x])
    BY Zenon DEF SInv
  <2>2. CASE at[x] = 0
    BY <2>1, <2>2, Zenon DEF Owing
  <2>3. CASE at[x] # 0
    <3>1. Ahead(l, m_map, at[x], owed[x])
      BY <1>4, <2>1, <2>3, AheadKept, Zenon DEF Owing
    <3> QED  BY <2>3, <3>1, Zenon DEF Owing
  <2> QED  BY <2>2, <2>3, Zenon
<1>13. i \in Nat \ {0} /\ owed[c] \in SUBSET Subscribers /\ a = [at EXCEPT ![c] = 0]
  BY <1>1, <1>3, <1>8, SMTT(60)
<1> HIDE DEF a, i
<1> QED  BY <1>1, <1>6, <1>7, <1>11, <1>12, <1>13, GoOnKeeps, ZenonT(60)

\* With no callback running, Clear leaves nothing behind.
LEMMA ClearKeeps ==
    ASSUME SInv, Clear, \A c \in Callers : at[c] = 0
    PROVE  /\ SInv'
           /\ m_list' = <<>> /\ m_map' = NoneRegistered
           /\ at' = [c \in Callers |-> 0] /\ owed' = [c \in Callers |-> {}]
<1> DEFINE down == [i \in DOMAIN m_list |->
                       IF m_map[m_list[i].callbacks] = m_list[i].id
                       THEN [m_list[i] EXCEPT !.count = @ - 1] ELSE m_list[i]]
           left == {i \in DOMAIN m_list : down[i].count # 0}
<1>1. ASSUME NEW i \in DOMAIN m_list  PROVE down[i].count = 0
  <2>1. /\ m_list[i] \in Entries /\ m_list[i].id # 0 /\ m_list[i].count > 0
        /\ m_list[i].count = Cardinality(Executions(at, m_list[i].id))
                             + Registered(m_map, m_list[i])
    <3>1. m_list[i] \in Entries
      BY LenProperties, SMTT(60) DEF SInv, Sound
    <3> QED  BY <3>1, Zenon DEF SInv, Sound, Entries
  <2>2. Executions(at, m_list[i].id) = {}
    BY <2>1, Zenon DEF Executions
  <2>3. Cardinality(Executions(at, m_list[i].id)) = 0
    BY <2>2, FS_EmptySet, Zenon
  <2>4. m_map[m_list[i].callbacks] = m_list[i].id /\ m_list[i].count = 1
    BY <2>1, <2>3 DEF Registered
  <2> QED  BY <2>1, <2>4, SMTT(60) DEF Entries
<1>2. left = {}
  BY <1>1, Zenon
<1>3. m_list' = Kept(down, left)
  BY Zenon DEF Clear
<1> HIDE DEF down, left
<1>4. m_list' = <<>>
  <2>1. Cardinality(left) = 0
    BY <1>2, FS_EmptySet, Zenon
  <2> QED  BY <1>3, <2>1, SMTT(60) DEF Kept
<1>5. /\ m_map' = NoneRegistered /\ at' = at
      /\ owed' = [c \in Callers |-> {}] /\ at = [c \in Callers |-> 0]
  BY Zenon DEF Clear, SInv, Sound
<1>6. Sound(<<>>, NoneRegistered, [c \in Callers |-> 0])
  BY EmptySeq DEF Sound, NoneRegistered, Unique
<1>7. SInv'
  BY <1>4, <1>5, <1>6, Zenon DEF SInv, Owing
<1> QED  BY <1>4, <1>5, <1>7, Zenon

-----------------------------------------------------------------------------
(* The node.                                                               *)

\* While the node is down the list is empty.
Quiet ==
    up = "down" => /\ m_list = <<>> /\ m_map = NoneRegistered
                   /\ at = [c \in Callers |-> 0] /\ owed = [c \in Callers |-> {}]

IInv == SInv /\ Quiet

\* Without subscribers nothing is to be shown.
LEMMA NothingSound ==
    ASSUME m_list = <<>>, m_map = NoneRegistered, at = [c \in Callers |-> 0],
           owed = [c \in Callers |-> {}]
    PROVE  SInv
<1>1. Sound(<<>>, NoneRegistered, [c \in Callers |-> 0])
  BY EmptySeq DEF Sound, NoneRegistered, Unique
<1> QED  BY <1>1, Zenon DEF SInv, Owing

\* Init establishes the invariant; then one lemma for each kind of step.
LEMMA InitKeeps == Init => IInv
<1> SUFFICES ASSUME Init  PROVE IInv
  BY Zenon
<1>1. /\ m_list = <<>> /\ m_map = NoneRegistered
      /\ at = [c \in Callers |-> 0] /\ owed = [c \in Callers |-> {}]
  BY Zenon DEF Init, SignalsInit
<1> QED  BY <1>1, NothingSound, Zenon DEF IInv, Quiet

LEMMA StartKeeps ==
    ASSUME IInv, Start
    PROVE  IInv'
<1> DEFINE e == [id |-> 1, callbacks |-> Idx, count |-> 1]
           m2 == [NoneRegistered EXCEPT ![Idx] = 1]
           none == [c \in Callers |-> 0]
<1>1. /\ up' = "up" /\ m_list' = <<e>> /\ m_map' = m2
      /\ at' = none /\ owed' = [c \in Callers |-> {}]
  BY Zenon DEF Start, IInv, Quiet
<1>2. e \in Entries /\ e.id = 1 /\ e.callbacks = Idx /\ e.count = 1
  BY SubscriberAssumption DEF Entries
<1>3. m2 \in [Subscribers -> Nat] /\ m2[Idx] = 1 /\ \A s \in Subscribers \ {Idx} : m2[s] = 0
  BY SubscriberAssumption, Zenon DEF NoneRegistered
<1>4. Executions(none, 1) = {}
  BY DEF Executions
<1>5. Cardinality(Executions(none, 1)) = 0
  BY <1>4, FS_EmptySet, Zenon
<1>6. none \in [Callers -> Nat] /\ \A c \in Callers : none[c] = 0
  BY Zenon
<1> HIDE DEF e, m2, none
<1>7. <<e>> \in Seq(Entries) /\ DOMAIN <<e>> = {1} /\ <<e>>[1] = e
  BY <1>2
<1>8. Registered(m2, e) = 1
  BY <1>2, <1>3, Zenon DEF Registered
<1>9. Sound(<<e>>, m2, none)
  BY <1>2, <1>3, <1>5, <1>6, <1>7, <1>8, SubscriberAssumption, SMTT(60) DEF Sound, Unique
<1>10. SInv'
  BY <1>1, <1>6, <1>9, Zenon DEF SInv, Owing
<1> QED  BY <1>1, <1>10, Zenon DEF IInv, Quiet

LEMMA DownKeeps ==
    ASSUME GoesDown
    PROVE  IInv'
<1>1. /\ m_list' = <<>> /\ m_map' = NoneRegistered
      /\ at' = [c \in Callers |-> 0] /\ owed' = [c \in Callers |-> {}]
  BY Zenon DEF GoesDown
<1>2. Sound(<<>>, NoneRegistered, [c \in Callers |-> 0])
  BY EmptySeq DEF Sound, NoneRegistered, Unique
<1> QED  BY <1>1, <1>2, Zenon DEF IInv, SInv, Quiet, Owing

LEMMA UpKeeps ==
    ASSUME IInv, SInv', up' # "down"
    PROVE  IInv'
BY Zenon DEF IInv, Quiet

\* A step that leaves the list, the map and the iterators alone.
LEMMA SameSignals ==
    ASSUME IInv, UNCHANGED signalVars, up' = up \/ up' # "down"
    PROVE  IInv'
BY Zenon DEF IInv, SInv, Quiet, signalVars

LEMMA ThreadKeeps ==
    ASSUME IInv, ThreadSync
    PROVE  IInv'
<1>1. ASSUME SyncRewinds \/ SyncRewound \/ SyncWrites
      PROVE  UNCHANGED signalVars /\ (up' = up \/ up' # "down")
  BY <1>1, Zenon DEF SyncRewinds, SyncRewound, SyncWrites, threadFrame, FatalError, Fails
<1>2. ASSUME SyncContinues \/ SyncInterrupted \/ SyncCaughtUp \/ SyncReadsPosition
             \/ SyncCommits \/ SyncAdvances \/ SyncWrote
      PROVE  UNCHANGED signalVars /\ up' = up
  BY <1>2, Zenon DEF SyncContinues, SyncInterrupted, SyncCaughtUp, SyncReadsPosition, SyncCommits,
                SyncAdvances, SyncWrote, threadFrame
<1> QED  BY <1>1, <1>2, SameSignals, Zenon DEF ThreadSync

LEMMA CallbackKeeps ==
    ASSUME IInv, Callback
    PROVE  IInv'
<1>1. ASSUME NEW b, BlockConnected(b) \/ Rewinds(b) \/ ConnectedWrites(b)
      PROVE  UNCHANGED signalVars /\ (up' = up \/ up' # "down")
  BY <1>1, Zenon DEF BlockConnected, Rewinds, ConnectedWrites, HandlerAt, callbackFrame,
                FatalError, Fails
<1>2. ASSUME NEW b, RewindCommits(b) \/ ConnectedWrote(b) \/ ChainStateFlushed(b)
      PROVE  UNCHANGED signalVars /\ up' = up
  BY <1>2, Zenon DEF RewindCommits, ConnectedWrote, ChainStateFlushed, callbackFrame
<1> QED  BY <1>1, <1>2, SameSignals, Zenon DEF Callback

\* The bounds of a behaviour do not change.
LEMMA ScopeFixed == [Next]_vars => scope' = scope
<1>1. ASSUME \/ Start \/ Crash \/ Abort \/ Interrupt \/ ForceFlush \/ Stop
             \/ (\E b \in Blocks : Activate(b))
             \/ Invalidate \/ FlushStateToDisk \/ Deliver \/ Returns \/ UNCHANGED vars
      PROVE  scope' = scope
  BY <1>1, Zenon DEF Start, Crash, Abort, Interrupt, ForceFlush, Stop, Activate, Invalidate,
                       FlushStateToDisk, Deliver, Returns, boundVars, vars
<1>2. ASSUME NEW c, Checked(c) \/ CheckedReturns(c)  PROVE scope' = scope
  BY <1>2, Zenon DEF Checked, CheckedReturns, frame
<1>3. ASSUME NEW s, Subscribe(s) \/ Unsubscribe(s)  PROVE scope' = scope
  BY <1>3, Zenon DEF Subscribe, Unsubscribe, frame
<1>4. ASSUME ThreadSync  PROVE scope' = scope
  <2>1. CASE SyncRewinds \/ SyncWrites \/ SyncRewound
    BY <2>1, Zenon DEF SyncRewinds, SyncWrites, SyncRewound, threadFrame, FatalError, Fails,
                boundVars
  <2>2. CASE SyncContinues \/ SyncInterrupted \/ SyncCaughtUp \/ SyncReadsPosition
             \/ SyncCommits \/ SyncAdvances \/ SyncWrote
    BY <2>2, Zenon DEF SyncContinues, SyncInterrupted, SyncCaughtUp, SyncReadsPosition, SyncCommits,
                SyncAdvances, SyncWrote, threadFrame, boundVars
  <2> QED  BY <1>4, <2>1, <2>2, Zenon DEF ThreadSync
<1>5. ASSUME Callback  PROVE scope' = scope
  <2>1. ASSUME NEW b, BlockConnected(b) \/ Rewinds(b) \/ ConnectedWrites(b)
        PROVE  scope' = scope
    BY <2>1, Zenon DEF BlockConnected, Rewinds, ConnectedWrites, HandlerAt, callbackFrame,
                FatalError, Fails, boundVars
  <2>2. ASSUME NEW b, RewindCommits(b) \/ ConnectedWrote(b) \/ ChainStateFlushed(b)
        PROVE  scope' = scope
    BY <2>2, Zenon DEF RewindCommits, ConnectedWrote, ChainStateFlushed, callbackFrame,
                boundVars
  <2> QED  BY <1>5, <2>1, <2>2, Zenon DEF Callback
<1> QED  BY <1>1, <1>2, <1>3, <1>4, <1>5, Zenon DEF Next

LEMMA NextKeeps == IInv /\ scope \in Scopes /\ [Next]_vars => IInv' /\ (scope \in Scopes)'
<1> SUFFICES ASSUME IInv, scope \in Scopes, [Next]_vars  PROVE IInv'
  BY ScopeFixed, Zenon
<1>1. SInv
  BY Zenon DEF IInv
<1>2. ASSUME Crash \/ Abort  PROVE IInv'
  BY <1>2, DownKeeps, Zenon DEF Crash, Abort
<1>3. ASSUME Interrupt \/ ForceFlush \/ (\E b \in Blocks : Activate(b)) \/ Invalidate
             \/ FlushStateToDisk \/ UNCHANGED vars
      PROVE  IInv'
  <2>1. UNCHANGED signalVars /\ (up' = up \/ up' # "down")
    BY <1>3, Zenon DEF Interrupt, ForceFlush, Activate, Invalidate, FlushStateToDisk, vars
  <2> QED  BY <2>1, SameSignals, Zenon
<1>4. ASSUME Stop  PROVE IInv'
  <2>1. Clear /\ \A c \in Callers : at[c] = 0
    BY <1>4, Zenon DEF Stop
  <2> QED  BY <1>1, <2>1, ClearKeeps, Zenon DEF IInv, Quiet
<1>5. ASSUME Deliver  PROVE IInv'
  <2>1. IterateBegins(Queue) /\ up' = up /\ up # "down"
    BY <1>5, Zenon DEF Deliver, Running
  <2> QED  BY <1>1, <2>1, SubscriberAssumption, BeginsKeeps, UpKeeps, Zenon
<1>6. ASSUME Returns  PROVE IInv'
  <2>1. IterateReturns(Queue) /\ up' = up /\ up # "down"
    BY <1>6, Zenon DEF Returns, Running
  <2> QED  BY <1>1, <2>1, SubscriberAssumption, ReturnsKeeps, UpKeeps, Zenon
<1>7. ASSUME NEW c \in scope.callers, Checked(c) \/ CheckedReturns(c)  PROVE IInv'
  <2>0. c \in Callers
    BY ScopeAssumption, Zenon
  <2>1. (IterateBegins(c) \/ IterateReturns(c)) /\ up' = up /\ up # "down"
    BY <1>7, Zenon DEF Checked, CheckedReturns, Running, frame
  <2> QED  BY <1>1, <2>0, <2>1, BeginsKeeps, ReturnsKeeps, UpKeeps, Zenon
<1>8. ASSUME NEW s \in Subscribers, Subscribe(s) \/ Unsubscribe(s)  PROVE IInv'
  <2>1. (Register(s) \/ Unregister(s)) /\ up' = up /\ up # "down"
    BY <1>8, Zenon DEF Subscribe, Unsubscribe, Running, frame
  <2> QED  BY <1>1, <2>1, RegisterKeeps, UnregisterKeeps, UpKeeps, Zenon
<1> QED  BY <1>2, <1>3, <1>4, <1>5, <1>6, <1>7, <1>8, StartKeeps, ThreadKeeps, CallbackKeeps, Zenon
         DEF Next

(***************************************************************************)
(* However subscribers come and go while threads go through the list, the  *)
(* count of an entry is the number of its executions, plus one if it is    *)
(* registered, an entry leaves the list when that is 0 and not before, and *)
(* no iterator stands on an erased entry (Register, Unregister, Clear and  *)
(* Iterate of MainSignalsInstance).                                        *)
(***************************************************************************)
THEOREM CountsExact == Spec => []CountExact
<1>1. IInv => CountExact
  <2> SUFFICES ASSUME IInv  PROVE CountExact
    BY Zenon
  <2>1. Sound(m_list, m_map, at)
    BY Zenon DEF IInv, SInv
  <2> QED  BY <2>1, Zenon DEF Sound, CountExact, Executions, Registered
<1>2. Init => scope \in Scopes
  BY Zenon DEF Init
<1> QED  BY <1>1, <1>2, InitKeeps, NextKeeps, PTL DEF Spec

(***************************************************************************)
(* Every event reaches every subscriber that stays registered while it is  *)
(* given out, whatever is registered, unregistered and erased between two  *)
(* callbacks (MainSignalsInstance::Iterate).                               *)
(***************************************************************************)
THEOREM SubscribersCalled == Spec => []EveryoneCalled
<1>1. IInv => EveryoneCalled
  BY Zenon DEF IInv, SInv, Owing, EveryoneCalled
<1>2. Init => scope \in Scopes
  BY Zenon DEF Init
<1> QED  BY <1>1, <1>2, InitKeeps, NextKeeps, PTL DEF Spec
=============================================================================

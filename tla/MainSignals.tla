---------------------------- MODULE MainSignals ----------------------------
(***************************************************************************)
(* MainSignalsInstance (validationinterface.cpp): the list of subscribers  *)
(* that validation events are given to.  Iterate lets go of m_mutex while  *)
(* a subscriber runs, so that the list changes under it; a count keeps an  *)
(* entry in the list while someone runs it.                                *)
(*                                                                         *)
(* A step that holds m_mutex is one action.  An entry is known by a number *)
(* that no other entry of the list has.                                    *)
(***************************************************************************)
EXTENDS Integers, Sequences, FiniteSets

CONSTANTS
    Subscribers,  \* CValidationInterface objects
    Callers       \* threads that call Iterate

ASSUME FiniteCallers == IsFiniteSet(Callers)

VARIABLES
    m_list,       \* entries with their id, callbacks and count
    m_map,        \* the id of the entry of a registered subscriber, or 0
    at,           \* the entry whose callback a caller is running, or 0
    owed          \* history: subscribers a running Iterate has yet to call

signalVars == <<m_list, m_map, at, owed>>

NoneRegistered == [s \in Subscribers |-> 0]

SignalsInit ==
    /\ m_list = <<>>
    /\ m_map = NoneRegistered
    /\ at = [c \in Callers |-> 0]
    /\ owed = [c \in Callers |-> {}]

FreshId == CHOOSE id \in 1 .. Len(m_list) + 1 : \A i \in DOMAIN m_list : m_list[i].id # id

\* An iterator: the place of entry id in list l.
PlaceIn(l, id) == CHOOSE i \in DOMAIN l : l[i].id = id

\* std::list::erase
Erased(l, i) == SubSeq(l, 1, i - 1) \o SubSeq(l, i + 1, Len(l))

\* Mutant: an entry leaves the list although it is being run.
CountedErased(l, id, d) ==
    LET i == PlaceIn(l, id)
    IN IF d < 0 THEN Erased(l, i) ELSE [l EXCEPT ![i].count = @ + d]

\* The list with the count of entry id changed by d, without it if that makes 0.
Counted(l, id, d) ==
    LET i == PlaceIn(l, id)
    IN IF l[i].count + d = 0 THEN Erased(l, i) ELSE [l EXCEPT ![i].count = @ + d]

\* Registering a subscriber again only replaces its shared pointer.
Register(s) ==
    /\ IF m_map[s] # 0 THEN UNCHANGED <<m_list, m_map>>
       ELSE /\ m_list' = Append(m_list, [id |-> FreshId, callbacks |-> s, count |-> 1])
            /\ m_map' = [m_map EXCEPT ![s] = FreshId]
    /\ UNCHANGED <<at, owed>>

Unregister(s) ==
    /\ IF m_map[s] = 0 THEN UNCHANGED <<m_list, m_map>>
       ELSE /\ m_list' = Counted(m_list, m_map[s], -1)
            /\ m_map' = [m_map EXCEPT ![s] = 0]
    /\ owed' = [c \in Callers |-> owed[c] \ {s}]
    /\ UNCHANGED at

\* The elements of l at the places of a set, in their order.
Kept(l, places) ==
    [n \in 1 .. Cardinality(places) |->
        l[CHOOSE i \in places : Cardinality({j \in places : j < i}) = n - 1]]

\* Clear: what is being run stays in the list until it returns.
Clear ==
    /\ LET down == [i \in DOMAIN m_list |->
                       IF m_map[m_list[i].callbacks] = m_list[i].id
                       THEN [m_list[i] EXCEPT !.count = @ - 1] ELSE m_list[i]]
       IN m_list' = Kept(down, {i \in DOMAIN m_list : down[i].count # 0})
    /\ m_map' = NoneRegistered
    /\ owed' = [c \in Callers |-> {}]
    /\ UNCHANGED at

\* The loop of Iterate goes on at entry i of list l, or ends.
GoOn(c, l, i, due) ==
    IF i > Len(l)
    THEN /\ m_list' = l
         /\ at' = [at EXCEPT ![c] = 0]
         /\ owed' = [owed EXCEPT ![c] = due]
    ELSE /\ m_list' = Counted(l, l[i].id, 1)
         /\ at' = [at EXCEPT ![c] = l[i].id]
         /\ owed' = [owed EXCEPT ![c] = due \ {l[i].callbacks}]

IterateBegins(c) ==
    /\ at[c] = 0
    /\ GoOn(c, m_list, 1, {s \in Subscribers : m_map[s] # 0})
    /\ UNCHANGED m_map

Place(id) == PlaceIn(m_list, id)

Called(c) == m_list[Place(at[c])].callbacks

\* Mutant: the loop steps over the entry that follows an erased one.
IterateSkips(c) ==
    /\ at[c] # 0
    /\ GoOn(c, Counted(m_list, at[c], -1), Place(at[c]) + 1, owed[c])
    /\ UNCHANGED m_map

\* The callback returned: the entry is counted down, and the next one is what
\* follows it in the list as it is now.
IterateReturns(c) ==
    /\ at[c] # 0
    /\ LET l == Counted(m_list, at[c], -1)
           i == Place(at[c])
       IN GoOn(c, l, IF Len(l) < Len(m_list) THEN i ELSE i + 1, owed[c])
    /\ UNCHANGED m_map

(***************************************************************************)
(* Properties                                                              *)
(***************************************************************************)
\* The comment on ListEntry: the count of an entry is the number of its current
\* executions, plus one if it is registered, and never 0; whatever was
\* unregistered meanwhile, a caller's iterator stands on an entry of the list
\* (validationinterface.cpp:30-34, 83).
CountExact ==
    /\ \A i \in DOMAIN m_list :
          LET e == m_list[i]
              executions == Cardinality({c \in Callers : at[c] = e.id})
              registered == IF m_map[e.callbacks] = e.id THEN 1 ELSE 0
          IN e.count = executions + registered /\ e.count > 0
    /\ \A c \in Callers : at[c] # 0 => \E i \in DOMAIN m_list : m_list[i].id = at[c]
    /\ \A s \in Subscribers : m_map[s] # 0 =>
          \E i \in DOMAIN m_list : m_list[i].id = m_map[s] /\ m_list[i].callbacks = s

\* An event reaches every subscriber that stays registered while it is given
\* out, although the list changes between two callbacks.
EveryoneCalled == \A c \in Callers : at[c] = 0 => owed[c] = {}
=============================================================================

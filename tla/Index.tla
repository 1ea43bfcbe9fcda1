------------------------------- MODULE Index -------------------------------
(***************************************************************************)
(* An index of the block chain (index/base.cpp) with the data of the block *)
(* filter index (index/blockfilterindex.cpp), and the events that keep it  *)
(* up to date: blocks are connected by validation, the events wait in the  *)
(* queue of CMainSignals, and one thread gives them to the subscribers.    *)
(* Until m_synced is set, a thread of the index follows the chain itself.  *)
(*                                                                         *)
(* A filter is the block it belongs to; the filter files are one sequence  *)
(* of places.  What is written to the database or a file survives a crash  *)
(* of the process, which is the only fault here.                           *)
(***************************************************************************)
EXTENDS MainSignals

CONSTANTS
    Blocks, Genesis, Parent, Height,  \* the block tree
    None,                             \* nullptr, and a missing record
    Idx,                              \* the subscriber that is the index
    Queue,                            \* the caller that serves the queue
    Rare,                             \* which of RareCases may happen
    MaxQueue,
    Scopes                            \* sets of bounds: moves, starts, and the
                                      \* subscribers and callers beside the index

ASSUME TreeAssumption ==
    /\ Genesis \in Blocks /\ Parent[Genesis] = None /\ Height[Genesis] = 0
    /\ \A b \in Blocks \ {Genesis} :
          Parent[b] \in Blocks /\ Height[b] = Height[Parent[b]] + 1

\* The sequences of events after which the code does not keep IndexExact.
RareCases == {"stop before the first block", "invalidate while syncing",
              "crash behind the locator"}

ASSUME RareAssumption == Rare \subseteq RareCases
ASSUME ScopeAssumption == \A x \in Scopes : x.callers \subseteq Callers
ASSUME SubscriberAssumption == Idx \in Subscribers /\ Queue \in Callers

VARIABLES
    up,          \* "up", "stopping" (after Interrupt), "draining" (after the
                 \* flush of Shutdown), "down", "fatal" (after FatalError)
                 \* or "aborted" (an assertion failed)
    tip,         \* ::ChainActive().Tip()
    flushed,     \* the tip that the coins database has
    queue,       \* events that wait in the queue of CMainSignals
    event,       \* the event that is being given out, or None
    best,        \* m_best_block_index
    synced,      \* m_synced
    thread,      \* ThreadSync: where it is, its pindex, and whether
                 \* last_locator_write_time is not 0 any more
    handler,     \* where BlockConnected of the index is, and its current_tip
    db, file,    \* the index database, the filter files
    next,        \* m_next_filter_pos
    scope,       \* the bounds of this behaviour
    moves, starts, joins \* counters for the bounds

chainVars == <<tip, flushed, moves>>
boundVars == <<scope, starts, joins>>
indexVars == <<best, synced, thread, handler, db, file, next>>
vars == <<signalVars, chainVars, indexVars, boundVars, up, queue, event>>

Heights == {Height[b] : b \in Blocks}

(***************************************************************************)
(* The tree                                                                *)
(***************************************************************************)
Ancestors[b \in Blocks] == IF b = Genesis THEN {b} ELSE {b} \cup Ancestors[Parent[b]]

AtHeight(b, h) ==
    IF \E a \in Ancestors[b] : Height[a] = h THEN CHOOSE a \in Ancestors[b] : Height[a] = h
    ELSE None

Fork(a, b) == CHOOSE c \in Ancestors[a] \cap Ancestors[b] :
                 \A d \in Ancestors[a] \cap Ancestors[b] : Height[d] <= Height[c]

\* The blocks above a on the way to b.
Path(a, b) ==
    LET low == Height[Fork(a, b)]
    IN [n \in 1 .. Height[b] - low |-> AtHeight(b, low + n)]

\* ChainActive().Next
NextInChain(b) == AtHeight(tip, Height[b] + 1)

NextSyncBlock(b) ==
    IF b = None THEN Genesis
    ELSE IF b \in Ancestors[tip] THEN NextInChain(b) ELSE NextInChain(Fork(b, tip))

(***************************************************************************)
(* The database of the filter index                                        *)
(***************************************************************************)
NoEntry == [block |-> None, pos |-> 0]

\* behind is history: the node was started at a block before the locator, since
\* its coins are older, and the index has not committed since.
EmptyDb == [locator |-> None, pos |-> 1, behind |-> FALSE,
            height |-> [h \in Heights |-> NoEntry],
            hash |-> [b \in Blocks |-> 0]]

\* Mutant: the position is not part of the commit.
CommittedLocator(d, b) ==
    [d EXCEPT !.locator = IF b = None THEN tip ELSE b, !.behind = FALSE]

\* CommitInternal.  GetLocator takes nullptr for the tip of the active chain.
Committed(d, b) ==
    [d EXCEPT !.locator = IF b = None THEN tip ELSE b, !.pos = next, !.behind = FALSE]

\* CopyHeightIndexToHashIndex, with the position, in one batch.
Copied(d, from, to) ==
    LET copied == {d.height[h] : h \in Height[to] .. Height[from]}
    IN [d EXCEPT
          !.hash = [b \in Blocks |->
                      IF \E e \in copied : e.block = b
                      THEN (CHOOSE e \in copied : e.block = b).pos ELSE @[b]],
          !.pos = next]

\* Mutant: the header is that of the filter written last.
PrevHeaderWritten(b) == b # Genesis => next > 1 /\ file[next - 1] = Parent[b]

\* The header that the filter header of b is computed from.
PrevHeader(b) == b # Genesis => db.height[Height[b] - 1].block = Parent[b]

\* WriteBlock of a block whose predecessor is in the height index.
WriteBlock(b) ==
    /\ PrevHeader(b)
    /\ file' = IF next > Len(file) THEN Append(file, b) ELSE [file EXCEPT ![next] = b]
    /\ db' = [db EXCEPT !.height[Height[b]] = [block |-> b, pos |-> next]]
    /\ next' = next + 1

\* LookupFilter
LookupFilter(b) ==
    LET entry == db.height[Height[b]]
        pos == IF entry.block = b THEN entry.pos ELSE db.hash[b]
    IN IF entry = NoEntry \/ pos = 0 THEN None ELSE file[pos]

CanCopy(from, to) == \A h \in Height[to] .. Height[from] : db.height[h] # NoEntry

Ended == [pc |-> "done", pindex |-> None, pos |-> 0, timed |-> FALSE]

At(place) == [pc |-> place, current |-> None]

Running == up \in {"up", "stopping", "draining"}

\* The sync thread holds cs_main from NextSyncBlock to the end of a rewind, and
\* from m_synced to the end of the commit.
MainLockFree == thread.pc \notin {"rewind", "commit", "locator"}

Events(kind, blocks) == [i \in DOMAIN blocks |-> [kind |-> kind, block |-> blocks[i]]]

Fails(how) ==
    /\ up' = how
    /\ UNCHANGED <<signalVars, chainVars, indexVars, queue, event, boundVars>>

FatalError == Fails("fatal")

\* What BaseIndex::Rewind asserts.
RewindAsserts(current_tip, new_tip) ==
    current_tip = best /\ AtHeight(current_tip, Height[new_tip]) = new_tip

(***************************************************************************)
(* Start and stop                                                          *)
(***************************************************************************)
Init ==
    /\ SignalsInit
    /\ up = "down"
    /\ tip = Genesis /\ flushed = Genesis
    /\ queue = <<>> /\ event = None
    /\ best = None /\ synced = FALSE
    /\ thread = Ended
    /\ handler = At("idle")
    /\ db = EmptyDb /\ file = <<>> /\ next = 1
    /\ scope \in Scopes /\ moves = 0 /\ starts = 0 /\ joins = 0

\* BaseIndex::Start, with the chain loaded and nothing else running.  Bound: the
\* node is started scope.starts times, and goes down before the last time.
Start ==
    /\ up = "down" /\ starts < scope.starts
    /\ up' = "up"
    /\ starts' = starts + 1
    /\ tip' = flushed
    /\ m_list' = <<[id |-> 1, callbacks |-> Idx, count |-> 1]>>
    /\ m_map' = [NoneRegistered EXCEPT ![Idx] = 1]
    /\ next' = db.pos
    /\ best' = IF db.locator = None THEN None ELSE Fork(db.locator, flushed)
    /\ db' = [db EXCEPT !.behind = best' # db.locator]
    /\ synced' = (best' = flushed)
    /\ thread' = [Ended EXCEPT !.pc = IF synced' THEN "done" ELSE "run", !.pindex = best']
    /\ UNCHANGED <<at, owed, flushed, moves, handler, file, queue, event, scope, joins>>

\* What the process forgets.  Bound: it is not started again if this comes before
\* the first commit after a start behind the locator, unless Rare says so.
GoesDown ==
    /\ up' = "down"
    /\ starts' = IF db.behind /\ "crash behind the locator" \notin Rare
                 THEN scope.starts ELSE starts
    /\ m_list' = <<>> /\ m_map' = NoneRegistered
    /\ at' = [c \in Callers |-> 0] /\ owed' = [c \in Callers |-> {}]
    /\ queue' = <<>> /\ event' = None
    /\ best' = None /\ synced' = FALSE /\ next' = 1
    /\ thread' = Ended
    /\ handler' = At("idle")
    /\ tip' = flushed

Crash ==
    /\ Running /\ starts < scope.starts
    /\ GoesDown
    /\ UNCHANGED <<flushed, moves, db, file, scope, joins>>

\* A failed assertion ends the process.
Abort ==
    /\ up = "aborted"
    /\ GoesDown
    /\ UNCHANGED <<flushed, moves, db, file, scope, joins>>

Interrupt ==
    /\ up = "up" /\ starts < scope.starts
    /\ "stop before the first block" \in Rare \/ thread.pc # "run" \/ thread.pindex # None
    /\ up' = "stopping"
    /\ UNCHANGED <<signalVars, chainVars, indexVars, queue, event, boundVars>>

\* Shutdown: the other threads are joined, in no callback any more, and the chain
\* state is written, with an event.
ForceFlush ==
    /\ up = "stopping" /\ MainLockFree
    /\ \A c \in Callers : at[c] = 0
    /\ up' = "draining"
    /\ flushed' = tip
    /\ queue' = queue \o Events("flushed", <<tip>>)
    /\ UNCHANGED <<signalVars, indexVars, tip, event, moves, boundVars>>

\* The end of Shutdown: callbacks are flushed, none is running, the index is
\* stopped, its thread joined, and the chain state, which has not changed, is
\* written once more.
Stop ==
    /\ up = "draining"
    /\ queue = <<>> /\ event = None /\ thread.pc = "done"
    /\ \A c \in Callers : at[c] = 0
    /\ Clear
    /\ up' = "down"
    /\ best' = None /\ synced' = FALSE /\ next' = 1
    /\ thread' = Ended
    /\ UNCHANGED <<chainVars, handler, db, file, queue, event, boundVars>>

(***************************************************************************)
(* Validation, with cs_main                                                *)
(***************************************************************************)
\* The calls of DisconnectTip and ConnectTip on the way from a to b, each from a
\* tip to the next one.
TipSteps(a, b) ==
    LET common == Ancestors[a] \cap Ancestors[b]
    IN  {<<c, Parent[c]>> : c \in Ancestors[a] \ common}
        \cup {<<Parent[c], c>> : c \in Ancestors[b] \ common}

\* FlushStateToDisk(IF_NEEDED) at one of the steps or at none, before the events
\* of the whole way.  It comes between the change of the coins and that of m_chain:
\* its locator is that of the tip before the step.
FlushIfNeeded(step, events) ==
    IF step = None THEN flushed' = flushed /\ queue' = queue \o events
    ELSE flushed' = step[2] /\ queue' = queue \o Events("flushed", <<step[1]>>) \o events

\* ActivateBestChain: a chain with more work.  The blocks are notified after the
\* last of them is connected.  Bounds: scope.moves, MaxQueue in place of
\* LimitValidationInterfaceQueue, and one of the steps flushes at most.
Activate(b) ==
    /\ up \in {"up", "stopping"} /\ MainLockFree
    /\ moves < scope.moves /\ Len(queue) < MaxQueue
    /\ Height[b] > Height[tip]
    /\ tip' = b
    /\ \E step \in TipSteps(tip, b) \cup {None} :
          FlushIfNeeded(step, Events("connected", Path(tip, b)))
    /\ moves' = moves + 1
    /\ UNCHANGED <<signalVars, indexVars, up, event, boundVars>>

\* InvalidateBlock: the index ignores BlockDisconnected.
Invalidate ==
    /\ up = "up" /\ MainLockFree
    /\ synced \/ "invalidate while syncing" \in Rare
    /\ moves < scope.moves
    /\ tip # Genesis
    /\ tip' = Parent[tip]
    /\ \E step \in TipSteps(tip, Parent[tip]) \cup {None} : FlushIfNeeded(step, <<>>)
    /\ moves' = moves + 1
    /\ UNCHANGED <<signalVars, indexVars, up, event, boundVars>>

FlushStateToDisk ==
    /\ up \in {"up", "stopping"} /\ MainLockFree
    /\ flushed # tip /\ Len(queue) < MaxQueue
    /\ flushed' = tip
    /\ queue' = queue \o Events("flushed", <<tip>>)
    /\ UNCHANGED <<signalVars, indexVars, up, tip, event, moves, boundVars>>

(***************************************************************************)
(* ThreadSync                                                              *)
(***************************************************************************)
SyncNext == NextSyncBlock(thread.pindex)

threadFrame == <<signalVars, chainVars, handler, queue, event, boundVars>>

\* m_interrupt: the thread has not seen it when it goes on.
SyncContinues ==
    /\ up = "up" /\ thread.pc = "run"
    /\ thread' = [thread EXCEPT !.pc = "lock"]
    /\ UNCHANGED <<threadFrame, up, best, synced, db, file, next>>

SyncInterrupted ==
    /\ up \in {"stopping", "draining"} /\ thread.pc = "run"
    /\ best' = thread.pindex
    /\ db' = Committed(db, thread.pindex)
    /\ thread' = [thread EXCEPT !.pc = "done"]
    /\ UNCHANGED <<threadFrame, up, synced, file, next>>

\* Mutant: m_synced is not set.
SyncCaughtUpUnsaid ==
    /\ Running /\ thread.pc = "lock"
    /\ SyncNext = None
    /\ best' = thread.pindex
    /\ thread' = [thread EXCEPT !.pc = "commit"]
    /\ UNCHANGED <<threadFrame, up, synced, db, file, next>>

\* No block is left: m_synced is set before the state is committed.
SyncCaughtUp ==
    /\ Running /\ thread.pc = "lock"
    /\ SyncNext = None
    /\ best' = thread.pindex
    /\ synced' = TRUE
    /\ thread' = [thread EXCEPT !.pc = "commit"]
    /\ UNCHANGED <<threadFrame, up, db, file, next>>

\* This commit reads the position, and then the best block: from here on the
\* callbacks write both.
SyncReadsPosition ==
    /\ Running /\ thread.pc = "commit"
    /\ thread' = [thread EXCEPT !.pc = "locator", !.pos = next]
    /\ UNCHANGED <<threadFrame, up, best, synced, db, file, next>>

SyncCommits ==
    /\ Running /\ thread.pc = "locator"
    /\ db' = [Committed(db, best) EXCEPT !.pos = thread.pos]
    /\ thread' = [thread EXCEPT !.pc = "done"]
    /\ UNCHANGED <<threadFrame, up, best, synced, file, next>>

SyncAdvances ==
    /\ Running /\ thread.pc = "lock"
    /\ SyncNext # None /\ Parent[SyncNext] = thread.pindex
    /\ thread' = [thread EXCEPT !.pc = "write", !.pindex = SyncNext]
    /\ UNCHANGED <<threadFrame, up, best, synced, db, file, next>>

\* BlockFilterIndex::Rewind, as far as its own batch.
SyncRewinds ==
    /\ Running /\ thread.pc = "lock"
    /\ SyncNext # None /\ Parent[SyncNext] # thread.pindex
    /\ IF CanCopy(thread.pindex, Parent[SyncNext])
       THEN /\ db' = Copied(db, thread.pindex, Parent[SyncNext])
            /\ thread' = [thread EXCEPT !.pc = "rewind"]
            /\ UNCHANGED <<threadFrame, up, best, synced, file, next>>
       ELSE FatalError

\* BaseIndex::Rewind of the sync thread.
SyncRewound ==
    /\ Running /\ thread.pc = "rewind"
    /\ IF RewindAsserts(thread.pindex, Parent[SyncNext])
       THEN /\ best' = Parent[SyncNext]
            /\ db' = Committed(db, Parent[SyncNext])
            /\ thread' = [thread EXCEPT !.pc = "write", !.pindex = SyncNext]
            /\ UNCHANGED <<threadFrame, up, synced, file, next>>
       ELSE Fails("aborted")

\* WriteBlock, and the commit that is due after the first block and then every
\* SYNC_LOCATOR_WRITE_INTERVAL.
SyncWrites ==
    /\ Running /\ thread.pc = "write"
    /\ IF PrevHeader(thread.pindex)
       THEN /\ WriteBlock(thread.pindex)
            /\ thread' = [thread EXCEPT !.pc = "wrote"]
            /\ UNCHANGED <<threadFrame, up, best, synced>>
       ELSE FatalError

SyncWrote ==
    /\ Running /\ thread.pc = "wrote"
    /\ \/ /\ thread.timed
          /\ thread' = [thread EXCEPT !.pc = "run"]
          /\ UNCHANGED <<best, db>>
       \/ /\ best' = thread.pindex
          /\ db' = Committed(db, thread.pindex)
          /\ thread' = [thread EXCEPT !.pc = "run", !.timed = TRUE]
    /\ UNCHANGED <<threadFrame, up, synced, file, next>>

ThreadSync ==
    /\ Running /\ thread.pc # "done"
    /\ \/ SyncContinues \/ SyncInterrupted \/ SyncCaughtUp \/ SyncReadsPosition \/ SyncCommits
       \/ SyncAdvances \/ SyncRewinds \/ SyncRewound \/ SyncWrites \/ SyncWrote

(***************************************************************************)
(* The callbacks of the index, in the thread that serves the queue         *)
(***************************************************************************)
InCallback == Running /\ event # None /\ at[Queue] # 0 /\ Called(Queue) = Idx

callbackFrame == <<signalVars, chainVars, synced, thread, queue, event, boundVars>>

\* The callback returns early, or goes on.
HandlerAt(place) == handler' = At(place) /\ UNCHANGED <<callbackFrame, up, best, db, file, next>>

\* Mutant: only a block on top of the best one is taken.
BlockConnectedNext(b) ==
    /\ InCallback /\ handler.pc = "idle"
    /\ event = [kind |-> "connected", block |-> b]
    /\ HandlerAt(IF synced /\ best = Parent[b] THEN "write" ELSE "returned")

BlockConnected(b) ==
    /\ InCallback /\ handler.pc = "idle"
    /\ event = [kind |-> "connected", block |-> b]
    /\ CASE ~synced -> HandlerAt("returned")
         [] synced /\ best = None -> FatalError
         [] synced /\ best # None /\ AtHeight(best, Height[b] - 1) # Parent[b] ->
              HandlerAt("returned")
         [] synced /\ best = Parent[b] -> HandlerAt("write")
         [] OTHER -> IF CanCopy(best, Parent[b])
                     THEN /\ db' = Copied(db, best, Parent[b])
                          /\ handler' = [pc |-> "rewind", current |-> best]
                          /\ UNCHANGED <<callbackFrame, up, best, file, next>>
                     ELSE FatalError

\* BaseIndex::Rewind: the best block moves back, and the commit waits for cs_main.
Rewinds(b) ==
    /\ InCallback /\ handler.pc = "rewind" /\ event.block = b
    /\ IF RewindAsserts(handler.current, Parent[b])
       THEN /\ best' = Parent[b]
            /\ handler' = At("commit")
            /\ UNCHANGED <<callbackFrame, up, db, file, next>>
       ELSE Fails("aborted")

RewindCommits(b) ==
    /\ InCallback /\ handler.pc = "commit" /\ event.block = b
    /\ MainLockFree
    /\ db' = Committed(db, best)
    /\ handler' = At("write")
    /\ UNCHANGED <<callbackFrame, up, best, file, next>>

ConnectedWrites(b) ==
    /\ InCallback /\ handler.pc = "write" /\ event.block = b
    /\ IF PrevHeader(b)
       THEN /\ WriteBlock(b)
            /\ handler' = At("wrote")
            /\ UNCHANGED <<callbackFrame, up, best>>
       ELSE FatalError

ConnectedWrote(b) ==
    /\ InCallback /\ handler.pc = "wrote" /\ event.block = b
    /\ best' = b
    /\ handler' = At("returned")
    /\ UNCHANGED <<callbackFrame, up, db, file, next>>

ChainStateFlushed(b) ==
    /\ InCallback /\ handler.pc = "idle"
    /\ event = [kind |-> "flushed", block |-> b]
    /\ synced => MainLockFree
    /\ db' = IF synced /\ AtHeight(best, Height[b]) = b THEN Committed(db, best) ELSE db
    /\ handler' = At("returned")
    /\ UNCHANGED <<callbackFrame, up, best, file, next>>

Callback ==
    /\ InCallback
    /\ \/ BlockConnected(event.block) \/ Rewinds(event.block) \/ RewindCommits(event.block)
       \/ ConnectedWrites(event.block) \/ ConnectedWrote(event.block)
       \/ ChainStateFlushed(event.block)

(***************************************************************************)
(* The events and their subscribers                                        *)
(***************************************************************************)
\* The queue gives out its next event; with no subscriber it is done at once.
Deliver ==
    /\ Running /\ queue # <<>> /\ event = None
    /\ IterateBegins(Queue)
    /\ event' = IF at'[Queue] = 0 THEN None ELSE Head(queue)
    /\ queue' = Tail(queue)
    /\ UNCHANGED <<chainVars, indexVars, up, boundVars>>

\* A callback returns: that of the index when it is through.
Returns ==
    /\ Running /\ event # None
    /\ Called(Queue) = Idx => handler.pc = "returned"
    /\ IterateReturns(Queue)
    /\ handler' = At("idle")
    /\ event' = IF at'[Queue] = 0 THEN None ELSE event
    /\ UNCHANGED <<chainVars, best, synced, thread, db, file, next, up, queue, boundVars>>

\* BlockChecked and NewPoWValidBlock are given out by validation itself; the
\* index does nothing with them.
frame == <<chainVars, indexVars, up, queue, event, scope, starts>>

Checked(c) ==
    /\ up \in {"up", "stopping"} /\ c # Queue
    /\ IterateBegins(c)
    /\ UNCHANGED <<frame, joins>>

CheckedReturns(c) == Running /\ c # Queue /\ IterateReturns(c) /\ UNCHANGED <<frame, joins>>

\* Wallets, net processing and RPC calls come and go.  Bound: scope.joins.
Subscribe(s) ==
    /\ up = "up" /\ s # Idx /\ joins < scope.joins
    /\ Register(s)
    /\ joins' = joins + 1
    /\ UNCHANGED frame

Unsubscribe(s) == Running /\ s # Idx /\ m_map[s] # 0 /\ Unregister(s) /\ UNCHANGED <<frame, joins>>

Next ==
    \/ Start \/ Crash \/ Abort \/ Interrupt \/ ForceFlush \/ Stop
    \/ \E b \in Blocks : Activate(b)
    \/ Invalidate \/ FlushStateToDisk
    \/ ThreadSync \/ Callback \/ Deliver \/ Returns
    \/ \E c \in scope.callers : Checked(c) \/ CheckedReturns(c)
    \/ \E s \in Subscribers : Subscribe(s) \/ Unsubscribe(s)

Spec == Init /\ [][Next]_vars

\* Threads run and callbacks return; threads that Shutdown joins do end, so that
\* ForceFlush comes after finitely many callbacks; the operator starts the node again.
Fairness ==
    /\ WF_vars(Start) /\ WF_vars(Abort) /\ SF_vars(ForceFlush) /\ WF_vars(Stop)
    /\ WF_vars(ThreadSync) /\ WF_vars(Callback)
    /\ WF_vars(Deliver) /\ WF_vars(Returns)
    /\ WF_vars(\E c \in Callers : CheckedReturns(c))

FairSpec == Spec /\ Fairness

(***************************************************************************)
(* Properties                                                              *)
(***************************************************************************)
\* What BlockUntilSyncedToCurrentChain tells its caller: once m_synced is set
\* and the queue is drained, the index has the tip of the active chain, although
\* the thread and the callbacks each followed the chain for a while and events of
\* a stale branch were still waiting (index/base.cpp:111, 192-232, 273-295).
CaughtUp ==
    Running /\ synced /\ queue = <<>> /\ event = None
        => best # None /\ tip \in Ancestors[best]

\* Where the index can fail.  The header before a block is always the one that
\* WriteBlock expects, and what Rewind copies is always there, so that FatalError
\* is never called (index/base.cpp:116-142, 218-231).  The assertions of Rewind
\* (index/base.cpp:178-179) hold in every notification, but not in the sync
\* thread: a reorganisation before m_synced finds m_best_block_index at the last
\* commit, behind the pindex of the thread, and the node aborts.  That is the only
\* way to fail: the best block is then a proper ancestor of pindex.
FailsOnlyInSync ==
    /\ up # "fatal"
    /\ up = "aborted" =>
         /\ thread.pc = "rewind" /\ ~synced
         /\ best \in Ancestors[thread.pindex] \ {thread.pindex}

\* The filters of the best chain are found, each under its own block, and so is
\* every filter that a reorganisation moved to the hash index: after a crash the
\* files are not written again at a place that is referred to
\* (blockfilterindex.cpp:129-144, 281-302).  RareCases names what it does not
\* cover.
IndexExact ==
    /\ \A b \in Blocks : db.hash[b] # 0 => file[db.hash[b]] = b
    /\ Running /\ best # None => \A b \in Ancestors[best] : LookupFilter(b) = b

\* Unless the node is not started again, the index is again and again at the
\* tip, whatever restarts, reorganisations and failed assertions came before
\* (index/base.cpp:88-158).
CatchesUp ==
    []<>(\/ up = "up" /\ synced /\ best # None /\ tip \in Ancestors[best]
         \/ up = "down" /\ starts = scope.starts)
=============================================================================

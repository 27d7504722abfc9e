------------------------------ MODULE Observers ------------------------------
(***************************************************************************)
(* StateObserver: local watches and their notification.                    *)
(*                                                                         *)
(* notify() is a loop over watches_ that calls back into the application,  *)
(* which may from there do anything: watch, unwatch (its own watch too),   *)
(* clear, and cause another notify(), also one that its own watch is       *)
(* called for.  A loop is a frame of calls; the order of the table is      *)
(* arbitrary.  A loop keeps a place in the table while it calls back: if   *)
(* the watch it is at is erased, or watch() rehashes the table, going on   *)
(* with it is undefined, and the behaviour ends before it does.            *)
(***************************************************************************)
EXTENDS StatePaths, FiniteSets

CONSTANTS
    WatchChoice,  \* what may be watched: pattern (as a sequence of segments), CRDT
                  \* type (or NoFilter) and max_notifications
    EventPath,    \* paths that change, as sequences of segments
    EventType,    \* CRDT types
    NoFilter,     \* no CRDT type is asked for
    MaxWatches,   \* bound on watches made
    MaxNotices    \* bound on notifications

\* A watch; remaining of -1 stands for no limit.
Watch == [pattern : Seq(Seq(STRING)), filter : EventType \cup {NoFilter}, remaining : Nat \cup {-1}]

ASSUME ObserverAssumption ==
    /\ NoFilter \notin EventType
    /\ MaxWatches \in Nat /\ MaxNotices \in Nat
    /\ WatchChoice \subseteq Watch

VARIABLES
    watches,  \* watches_: a function from handles
    limit,    \* limit[h]: the max_notifications of h; its length is next_handle_ - 1
    pending,  \* pending_removal_
    calls,    \* the loops of notify that are running, the innermost last
    fired,    \* history: how often each watch was called back
    notices,  \* used up of MaxNotices
    rehashed, \* how many of the loops lost their place to a rehash
    nested,   \* history: whether a notify() was called from a callback
    again,    \* history: watches called back while a call of theirs was running
    dropped   \* history: watches unwatched or cleared while a call of theirs was running

observerVars == <<watches, limit, pending, calls, fired, notices, rehashed, nested, again, dropped>>

Handle == 1 .. MaxWatches
None0 == 0
Loop == [path : EventPath, type : EventType, todo : SUBSET Handle, at : Handle \cup {None0}]

ObserverTypeOK ==
    /\ DOMAIN watches \subseteq DOMAIN limit
    /\ \A h \in DOMAIN watches : watches[h] \in Watch /\ watches[h].remaining <= limit[h]
    /\ limit \in Seq(Int) /\ Len(limit) <= MaxWatches
    /\ pending \subseteq Handle
    /\ calls \in Seq(Loop)
    /\ fired \in [Handle -> Nat]
    /\ notices \in 0 .. MaxNotices
    /\ rehashed \in Nat
    /\ nested \in BOOLEAN /\ again \subseteq Handle /\ dropped \subseteq Handle

ObserverInit ==
    /\ watches = [h \in {} |-> {}]
    /\ limit = <<>>
    /\ pending = {}
    /\ calls = <<>>
    /\ fired = [h \in Handle |-> 0]
    /\ notices = 0 /\ rehashed = 0
    /\ nested = FALSE /\ again = {} /\ dropped = {}

-----------------------------------------------------------------------------

Idle == calls = <<>>
Top == calls[Len(calls)]
Calling == ~Idle /\ Top.at # None0
Busy == {calls[i].at : i \in DOMAIN calls}

\* The application's turn: outside notify() or in a callback.
Free == Idle \/ Calling

\* The table without some watches.
Without(gone) == [h \in DOMAIN watches \ gone |-> watches[h]]

\* The loops, with what the innermost has to do and whose callback it is in.
Round(todo, at) ==
    [calls EXCEPT ![Len(calls)] = [path |-> Top.path, type |-> Top.type, todo |-> todo, at |-> at]]

wanted(w, path, type) == w.filter \in {NoFilter, type} /\ matches(path, w.pattern)

\* From a callback the table may rehash; if it does not, the loops that run
\* (late) may come by the new watch.
watch(w) ==
    LET h == Len(limit) + 1
    IN  /\ Free
        /\ Len(limit) < MaxWatches
        /\ watches' = [g \in DOMAIN watches \cup {h} |-> IF g = h THEN w ELSE watches[g]]
        /\ limit' = Append(limit, w.remaining)
        /\ \E late \in SUBSET DOMAIN calls :
               calls' = [i \in DOMAIN calls |-> IF i \in late THEN [calls[i] EXCEPT !.todo = @ \cup {h}]
                                                ELSE calls[i]]
        /\ rehashed' \in {rehashed, Len(calls)}
        /\ UNCHANGED <<pending, fired, notices, nested, again, dropped>>

unwatch(h) ==
    /\ Free
    /\ h \in DOMAIN watches
    /\ watches' = Without({h})
    /\ dropped' = dropped \cup (Busy \cap {h})
    /\ UNCHANGED <<limit, pending, calls, fired, notices, rehashed, nested, again>>

\* clear
clear_watches ==
    /\ Free
    /\ watches' = [h \in {} |-> {}]
    /\ pending' = {}
    /\ dropped' = dropped \cup (Busy \cap DOMAIN watches)
    /\ UNCHANGED <<limit, calls, fired, notices, rehashed, nested, again>>

\* pending_removal_ is shared by all loops, and cleared by each.
notify(path, type) ==
    /\ Free
    /\ notices < MaxNotices
    /\ pending' = {}
    /\ calls' = Append(calls, [path |-> path, type |-> type, todo |-> DOMAIN watches, at |-> None0])
    /\ notices' = notices + 1
    /\ nested' = (nested \/ Calling)
    /\ UNCHANGED <<watches, limit, fired, rehashed, again, dropped>>

\* Mutation of Visit: the watch of a last notification goes before its call.
Visit_erases(h) ==
    /\ ~Idle /\ Top.at = None0
    /\ h \in Top.todo \cap DOMAIN watches
    /\ LET calling == wanted(watches[h], Top.path, Top.type) /\ watches[h].remaining # 0
       IN  /\ fired' = IF calling THEN [fired EXCEPT ![h] = @ + 1] ELSE fired
           /\ again' = IF calling THEN again \cup (Busy \cap {h}) ELSE again
           /\ watches' = IF calling /\ watches[h].remaining = 1 THEN Without({h}) ELSE watches
           /\ calls' = Round(Top.todo \ {h}, IF calling THEN h ELSE None0)
    /\ UNCHANGED <<limit, pending, notices, rehashed, nested, dropped>>

\* One round of the loop, up to the callback if there is one.
Visit(h) ==
    /\ ~Idle /\ Top.at = None0
    /\ h \in Top.todo \cap DOMAIN watches
    /\ LET hit == wanted(watches[h], Top.path, Top.type)
           calling == hit /\ watches[h].remaining # 0
       IN  /\ pending' = IF hit /\ ~calling THEN pending \cup {h} ELSE pending
           /\ fired' = IF calling THEN [fired EXCEPT ![h] = @ + 1] ELSE fired
           /\ again' = IF calling THEN again \cup (Busy \cap {h}) ELSE again
           /\ calls' = Round(Top.todo \ {h}, IF calling THEN h ELSE None0)
    /\ UNCHANGED <<watches, limit, notices, rehashed, nested, dropped>>

\* The callback returns, and the rest of the round, if the loop still has its
\* place; remaining is only now counted down.
Return ==
    /\ Calling /\ Top.at \in DOMAIN watches /\ Len(calls) > rehashed
    /\ watches' = [watches EXCEPT ![Top.at].remaining = IF @ > 0 THEN @ - 1 ELSE @]
    /\ pending' = IF watches[Top.at].remaining = 1 THEN pending \cup {Top.at} ELSE pending
    /\ calls' = Round(Top.todo, None0)
    /\ UNCHANGED <<limit, fired, notices, rehashed, nested, again, dropped>>

\* The end of the loop.
cleanup_expired ==
    /\ ~Idle /\ Top.at = None0 /\ Top.todo \cap DOMAIN watches = {}
    /\ watches' = Without(pending)
    /\ pending' = {}
    /\ calls' = SubSeq(calls, 1, Len(calls) - 1)
    /\ UNCHANGED <<limit, fired, notices, rehashed, nested, again, dropped>>

ObserverNext ==
    \/ Return \/ cleanup_expired \/ clear_watches
    \/ \E w \in WatchChoice : watch(w)
    \/ \E h \in Handle : unwatch(h) \/ Visit(h)
    \/ \E path \in EventPath, type \in EventType : notify(path, type)

ObserverSpec == ObserverInit /\ [][ObserverNext]_observerVars

-----------------------------------------------------------------------------
(* Properties.                                                             *)

\* "Auto-remove after N notifications (one-shot, N-shot)" (observer.h): a watch
\* is called at most N times, also when callbacks cause other notifications,
\* which throw away what the outer loop had scheduled for removal.  The code
\* keeps this for watches that are not called back while a call of theirs is
\* running; a one-shot watch whose callback changes its own path fires again.
AtMostNShots == \A h \in DOMAIN limit \ again : limit[h] >= 0 => fired[h] <= limit[h]

\* The watch whose callback is running stays in the table until it returns, so
\* that the loop has something to go on with, whatever notifications the
\* callback causes and whatever others it unwatches: unless the callback takes
\* its own watch away, or gets itself called again.
RunningWatchAlive == \A h \in Busy \ {None0} : h \in DOMAIN watches \cup again \cup dropped

\* A watch that has had all its notifications is out of the table once the
\* loops are over, unless a notification was caused from a callback: that
\* leaves it there, silent, until the next change of its path.
SpentWatchesLeave ==
    Idle /\ ~nested => \A h \in DOMAIN watches : fired[h] > 0 => watches[h].remaining # 0

\* The invariant of the watches, over nested notifications and callbacks that
\* change the table.
ObserverInv == ObserverTypeOK /\ AtMostNShots /\ RunningWatchAlive /\ SpentWatchesLeave
=============================================================================

---------------------------- MODULE NodeCaches ----------------------------
(***************************************************************************)
(* What the hub remembers of its nodes while the instances change: the     *)
(* fan-out results of aggregate.cached_stats and filtersizes.cached, and   *)
(* the per-node names of filter lists in filtersource.sources, which the   *)
(* query log poller fills, against api/instances.py's create, update and   *)
(* delete.  A row id of a deleted instance is given out again.             *)
(*                                                                         *)
(* A fan-out's result is the table of instances it was collected from; the *)
(* names remembered for a row are the node they were read from.            *)
(***************************************************************************)
EXTENDS Integers, FiniteSets, FiniteSetsExt, Functions, TLC

CONSTANTS
    Pages,        \* requests that want the fan-out's result
    Nodes,        \* the machines an instance can be pointed at
    Nothing,
    MaxChanges,   \* bound: how many edits of the instances are made
    MaxReads      \* bound: how many fan-outs are started

VARIABLES
    table,      \* table[i]: the node row i is pointed at
    held,       \* the cached result in a tuple, <<>> for none
    page,       \* page[p]: where page p's request is, and the table it collects from
    fanouts,    \* how many were started
    drops,      \* how often the cache was emptied or ran out
    listNames,  \* listNames[i]: the node whose list names are kept for row i, and whether
                \* they are too old
    poll,       \* the poller's pass: the instances it loaded and has left to visit
    change,     \* the edit under way
    changes     \* how many were made

cacheVars == <<table, held, page, fanouts, drops, listNames, poll, change, changes>>

\* Ids are counted up, and a freed last one is given out again.
Rows == 1 .. MaxChanges

NoPage == [pc |-> "rest", seen |-> Nothing]
NoPoll == [pc |-> "rest", rows |-> <<>>]
NoChange == [pc |-> "rest", id |-> 0, node |-> Nothing]

SomeoneCollects == \E p \in Pages : page[p].pc = "collect"

-----------------------------------------------------------------------------
(* cached: a result behind a TTL, one fan-out for all who wait.             *)

AskCached(p) ==
    /\ page[p].pc = "rest" /\ held = <<>>
    /\ page' = [page EXCEPT ![p] = [NoPage EXCEPT !.pc = "wait"]]
    /\ UNCHANGED <<table, held, fanouts, drops, listNames, poll, change, changes>>

\* Mutant: who waited for the lock collects once more.
StillMissing == TRUE

Missing == held = <<>>

\* The lock is free; another caller may have stored a result while this one waited.
StartFanout(p) ==
    /\ page[p].pc = "wait" /\ ~SomeoneCollects
    /\ IF Missing
       THEN /\ fanouts < MaxReads
            /\ page' = [page EXCEPT ![p] = [pc |-> "collect", seen |-> table]]
            /\ fanouts' = fanouts + 1
       ELSE page' = [page EXCEPT ![p] = NoPage] /\ UNCHANGED fanouts
    /\ UNCHANGED <<table, held, drops, listNames, poll, change, changes>>

StoreFanout(p) ==
    /\ page[p].pc = "collect"
    /\ held' = <<page[p].seen>>
    /\ page' = [page EXCEPT ![p] = NoPage]
    /\ UNCHANGED <<table, fanouts, drops, listNames, poll, change, changes>>

Drop == held' = <<>> /\ drops' = drops + (IF held = <<>> THEN 0 ELSE 1)

\* The TTL has passed.
HeldExpires ==
    /\ held # <<>> /\ Drop
    /\ UNCHANGED <<table, page, fanouts, listNames, poll, change, changes>>

-----------------------------------------------------------------------------
(* The instances.                                                           *)

\* forget comes before the commit, and an address that stays keeps its names.
Forgotten(i) == listNames' = [listNames EXCEPT ![i] = [node |-> Nothing, old |-> FALSE]]

StartChange ==
    /\ change.pc = "rest" /\ changes < MaxChanges
    /\ changes' = changes + 1
    /\ \/ \E n \in Nodes :
             /\ change' = [pc |-> "commit", id |-> 1 + Cardinality(DOMAIN table), node |-> n]
             /\ \A i \in DOMAIN table : table[i] # n
             /\ UNCHANGED listNames
       \/ \E i \in DOMAIN table, n \in Nodes :
             /\ change' = [pc |-> "commit", id |-> i, node |-> n]
             /\ IF n = table[i] THEN UNCHANGED listNames ELSE Forgotten(i)
       \/ \E i \in DOMAIN table :
             /\ i = Cardinality(DOMAIN table)
             /\ change' = [pc |-> "commit", id |-> i, node |-> Nothing]
             /\ Forgotten(i)
    /\ UNCHANGED <<table, held, page, fanouts, drops, poll>>

CommitChange ==
    /\ change.pc = "commit"
    /\ table' = IF change.node = Nothing THEN Restrict(table, DOMAIN table \ {change.id})
                ELSE (change.id :> change.node) @@ table
    /\ change' = [change EXCEPT !.pc = "invalidate"]
    /\ UNCHANGED <<held, page, fanouts, drops, listNames, poll, changes>>

InvalidateCaches ==
    /\ change.pc = "invalidate"
    /\ Drop
    /\ change' = NoChange
    /\ UNCHANGED <<table, page, fanouts, listNames, poll, changes>>

-----------------------------------------------------------------------------
(* The query log poller: the enabled instances as loaded, one after another. *)

Visited == IF poll.rows = <<>> THEN 0 ELSE Min(DOMAIN poll.rows)

NextVisit ==
    LET left == Restrict(poll.rows, DOMAIN poll.rows \ {Visited})
    IN  IF left = <<>> THEN NoPoll ELSE [pc |-> "rows", rows |-> left]

StartPoll ==
    /\ poll.pc = "rest" /\ table # <<>>
    /\ poll' = [pc |-> "rows", rows |-> table]
    /\ UNCHANGED <<table, held, page, fanouts, drops, listNames, change, changes>>

\* Mutant: names do not grow too old.
NeverTooOld(i) == FALSE

TooOld(i) == listNames[i].old

\* needs_refresh: no names, names too old, or a row that cites a list they lack; without
\* it the rows are labelled with what there is.
NameRows ==
    /\ poll.pc = "rows"
    /\ \/ poll' = [poll EXCEPT !.pc = "pull"]
       \/ ~TooOld(Visited) /\ poll' = NextVisit
    /\ UNCHANGED <<table, held, page, fanouts, drops, listNames, change, changes>>

Remember ==
    /\ poll.pc = "pull"
    /\ listNames' = [listNames EXCEPT ![Visited] = [node |-> poll.rows[Visited], old |-> FALSE]]
    /\ poll' = NextVisit
    /\ UNCHANGED <<table, held, page, fanouts, drops, change, changes>>

\* The node does not answer: the next try is a minute away.
PullFails ==
    /\ poll.pc = "pull"
    /\ poll' = NextVisit
    /\ UNCHANGED <<table, held, page, fanouts, drops, listNames, change, changes>>

\* CACHE_TTL has passed since they were fetched.
NamesAge(i) ==
    /\ listNames[i].node # Nothing /\ ~listNames[i].old
    /\ listNames' = [listNames EXCEPT ![i].old = TRUE]
    /\ UNCHANGED <<table, held, page, fanouts, drops, poll, change, changes>>

CacheInit ==
    /\ table = <<>>
    /\ held = <<>>
    /\ page = [p \in Pages |-> NoPage]
    /\ fanouts = 0 /\ drops = 0
    /\ listNames = [i \in Rows |-> [node |-> Nothing, old |-> FALSE]]
    /\ poll = NoPoll
    /\ change = NoChange /\ changes = 0

CacheNext ==
    \/ \E p \in Pages : AskCached(p) \/ StartFanout(p) \/ StoreFanout(p)
    \/ HeldExpires
    \/ StartChange \/ CommitChange \/ InvalidateCaches
    \/ StartPoll \/ NameRows \/ Remember \/ PullFails
    \/ \E i \in Rows : NamesAge(i)

\* Timers run, awaits return, and a node asked again and again answers some time.
CacheFairness ==
    /\ WF_cacheVars(HeldExpires)
    /\ WF_cacheVars(CommitChange) /\ WF_cacheVars(InvalidateCaches)
    /\ \A p \in Pages : WF_cacheVars(StoreFanout(p))
    /\ WF_cacheVars(StartPoll) /\ WF_cacheVars(NameRows \/ Remember \/ PullFails)
    /\ \A i \in Rows : WF_cacheVars(NamesAge(i)) /\ SF_cacheVars(Visited = i /\ Remember)

CacheSpec == CacheInit /\ [][CacheNext]_cacheVars

-----------------------------------------------------------------------------
(* Properties.                                                              *)

\* Callers are collapsed onto one fan-out: one to begin with, and one more only when the
\* result was dropped since.
Collapsed ==
    /\ \A p, q \in Pages : page[p].pc = "collect" /\ page[q].pc = "collect" => p = q
    /\ fanouts <= 1 + drops

\* A result or a map of names that an edit overtook does not outlive the TTL.
CachesSettle ==
    <>[](/\ held \in {<<>>, <<table>>}
         /\ \A i \in DOMAIN table : listNames[i].node \in {Nothing, table[i]})
=============================================================================

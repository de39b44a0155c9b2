------------------------------ MODULE QueryLog ------------------------------
(***************************************************************************)
(* The merged query log - services/querylog.py's buffer, filled by the     *)
(* poller and by the refresh button - and the hub settings that size it:   *)
(* services/hubsettings.py's row, its copy in memory, and the buffer's own *)
(* copy of the size.                                                       *)
(*                                                                         *)
(* A query is <<node, i>>, the i-th that node logged; AdGuard serves the   *)
(* newest first.  Two settings stand for all: the buffer's size, which has *)
(* limits and a side effect, and one switch.                               *)
(***************************************************************************)
EXTENDS Integers, Sequences, SequencesExt, Functions

CONSTANTS
    LogNodes,       \* the enabled instances, in the order they are polled
    Silent,         \* those of them that never answer
    Pollers,        \* the worker and the refresh button
    Editors,        \* requests that read or change the settings
    FetchLimit,     \* querylog_fetch_limit, 100 in the code
    SmallestSize, LargestSize,   \* LIMITS of querylog_buffer_size
    EnvSize,        \* the size the environment gives
    AskedSizes,     \* the sizes an operator types
    MaxQueries,     \* bound: queries per node
    MaxEdits,       \* bound: requests about the settings
    MaxStarts       \* bound: how often the hub is started again

ASSUME QueryLogAssumption ==
    /\ FetchLimit \in Nat \ {0}
    /\ LogNodes \in Seq(Range(LogNodes))
    /\ SmallestSize \in Nat \ {0} /\ LargestSize \in Nat /\ SmallestSize <= LargestSize
    /\ EnvSize \in SmallestSize .. LargestSize
    /\ AskedSizes \subseteq Nat
    /\ MaxQueries \in Nat /\ MaxEdits \in Nat /\ MaxStarts \in Nat

VARIABLES
    logged,      \* logged[n]: how many queries node n has logged
    buffer,      \* QueryLogBuffer._entries, newest last
    keys,        \* QueryLogBuffer._keys
    maxlen,      \* the deque's maxlen
    polling,     \* polling[p]: the instances left to poll, and the rows of the first
    announced,   \* the queries published as new
    stored,      \* the HubSettings row
    cache,       \* hubsettings._cache
    editor,      \* editor[e]: where a request about the settings is
    overlapped,  \* the requests under way that are not, or were not, the only one
    muddled,     \* whether the request that set the cache was one of them
    edits, starts

mergedVars == <<logged, buffer, keys, maxlen, polling, announced>>
settingsVars == <<stored, cache, editor, overlapped, muddled, edits>>
queryLogVars == <<mergedVars, settingsVars, starts>>

AtRest == [pc |-> "rest", left |-> <<>>, rows |-> <<>>]
NoEditor == [pc |-> "rest", field |-> "none", seen |-> <<>>, view |-> <<>>]

-----------------------------------------------------------------------------
(* The buffer.                                                              *)

\* Mutant: what is pushed out stays known.
KnownForEver(log) == log.keys

\* A full deque drops its first, and the key of it goes.
KnownAfter(log) ==
    IF Len(log.entries) = maxlen THEN log.keys \ {Head(log.entries)} ELSE log.keys

\* add, one row: known rows are passed over.  A row that this very batch pushed out is new
\* again when its turn comes.
Inserted(log, row) ==
    IF row \in log.keys THEN log
    ELSE [entries |-> Append(IF Len(log.entries) = maxlen THEN Tail(log.entries)
                             ELSE log.entries, row),
          keys |-> KnownAfter(log) \union {row},
          added |-> log.added \union {row}]

\* add, row by row.
LogWith(rows) ==
    LET log[i \in 0 .. Len(rows)] ==
          IF i = 0 THEN [entries |-> buffer, keys |-> keys, added |-> {}]
          ELSE Inserted(log[i - 1], rows[i])
    IN  log[Len(rows)]

Newest(entries, size) ==
    SubSeq(entries, IF Len(entries) > size THEN Len(entries) - size + 1 ELSE 1, Len(entries))

-----------------------------------------------------------------------------
(* poll_once.                                                               *)

\* A query reaches a node; the hub never sees those of a node that does not answer.
Asked(n) ==
    /\ logged[n] < MaxQueries
    /\ logged' = [logged EXCEPT ![n] = @ + 1]
    /\ UNCHANGED <<buffer, keys, maxlen, polling, announced, settingsVars, starts>>

StartLogPoll(p) ==
    /\ polling[p].pc = "rest" /\ LogNodes # <<>>
    /\ polling' = [polling EXCEPT ![p] = [pc |-> "fetch", left |-> LogNodes, rows |-> <<>>]]
    /\ UNCHANGED <<logged, buffer, keys, maxlen, announced, settingsVars, starts>>

Onward(left) ==
    IF Len(left) <= 1 THEN AtRest ELSE [pc |-> "fetch", left |-> Tail(left), rows |-> <<>>]

\* query_log: the newest rows, newest first.
Latest(n) ==
    [i \in 1 .. (IF logged[n] < FetchLimit THEN logged[n] ELSE FetchLimit) |->
        <<n, logged[n] - i + 1>>]

FetchRows(p) ==
    /\ polling[p].pc = "fetch"
    /\ Head(polling[p].left) \notin Range(Silent)
    /\ polling' = [polling EXCEPT ![p].pc = "add", ![p].rows = Latest(Head(polling[p].left))]
    /\ UNCHANGED <<logged, buffer, keys, maxlen, announced, settingsVars, starts>>

\* Mutant: the pass ends with the first node that does not answer.
AfterFailure(left) == AtRest

PassOver(left) == Onward(left)

FetchFails(p) ==
    /\ polling[p].pc = "fetch"
    /\ Head(polling[p].left) \in Range(Silent)
    /\ polling' = [polling EXCEPT ![p] = PassOver(@.left)]
    /\ UNCHANGED <<logged, buffer, keys, maxlen, announced, settingsVars, starts>>

AddRows(p) ==
    /\ polling[p].pc = "add"
    /\ LET log == LogWith(polling[p].rows)
       IN /\ buffer' = log.entries
          /\ keys' = log.keys
          /\ announced' = announced \union log.added
    /\ polling' = [polling EXCEPT ![p] = Onward(@.left)]
    /\ UNCHANGED <<logged, maxlen, settingsVars, starts>>

-----------------------------------------------------------------------------
(* The settings.  A request loads the row, commits the columns it changed   *)
(* and puts the row as it has it into the cache; a plain read does the      *)
(* first and the last.                                                      *)

Clamped(size) ==
    IF size < SmallestSize THEN SmallestSize ELSE IF size > LargestSize THEN LargestSize ELSE size

AtWork == {e \in Editors : editor[e].pc # "rest"}

LoadSettings(e) ==
    /\ editor[e].pc = "rest" /\ edits < MaxEdits
    /\ edits' = edits + 1
    /\ \/ editor' = [editor EXCEPT ![e] =
             [pc |-> "assign", field |-> "none", seen |-> stored, view |-> stored]]
       \/ \E field \in {"size", "on"} :
          \E value \in IF field = "size" THEN {Clamped(s) : s \in AskedSizes} ELSE BOOLEAN :
             editor' = [editor EXCEPT ![e] =
                [pc |-> "commit", field |-> field, seen |-> stored,
                 view |-> [stored EXCEPT ![field] = value]]]
    /\ overlapped' = IF AtWork = {} THEN {} ELSE AtWork \union {e}
    /\ UNCHANGED <<mergedVars, stored, cache, muddled, starts>>

\* Only a column that differs from what was loaded is in the UPDATE.
ChangedColumns(e) ==
    LET field == editor[e].field
    IN  IF editor[e].view[field] = editor[e].seen[field] THEN stored
        ELSE [stored EXCEPT ![field] = editor[e].view[field]]

CommitSettings(e) ==
    /\ editor[e].pc = "commit"
    /\ stored' = ChangedColumns(e)
    /\ editor' = [editor EXCEPT ![e].pc = "assign"]
    /\ UNCHANGED <<mergedVars, cache, overlapped, muddled, edits, starts>>

\* Mutant: a change of the settings leaves the copy in memory as it is.
CacheKept(e) == cache

CacheFrom(e) == editor[e].view

\* _cache, and for a change _apply_side_effects: resize keeps the last of the deque.
AssignSettings(e) ==
    /\ editor[e].pc = "assign"
    /\ cache' = CacheFrom(e)
    /\ IF editor[e].field # "none" /\ editor[e].view.size # maxlen
       THEN /\ maxlen' = editor[e].view.size
            /\ buffer' = Newest(buffer, editor[e].view.size)
            /\ keys' = Range(buffer')
       ELSE UNCHANGED <<maxlen, buffer, keys>>
    /\ editor' = [editor EXCEPT ![e] = NoEditor]
    /\ muddled' = (e \in overlapped) /\ overlapped' = overlapped \ {e}
    /\ UNCHANGED <<logged, polling, announced, stored, edits, starts>>

\* The hub starts again: the buffer is made with the environment's size, lifespan loads the
\* settings.
StartAgain ==
    /\ starts < MaxStarts
    /\ starts' = starts + 1
    /\ buffer' = <<>> /\ keys' = {} /\ maxlen' = EnvSize
    /\ polling' = [p \in Pollers |-> AtRest]
    /\ editor' = [e \in Editors |-> NoEditor]
    /\ cache' = stored /\ overlapped' = {} /\ muddled' = FALSE
    /\ UNCHANGED <<logged, announced, stored, edits>>

QueryLogInit ==
    /\ logged = [n \in Range(LogNodes) |-> 0]
    /\ buffer = <<>> /\ keys = {} /\ maxlen = EnvSize
    /\ polling = [p \in Pollers |-> AtRest]
    /\ announced = {}
    /\ stored = [size |-> EnvSize, on |-> TRUE] /\ cache = stored
    /\ editor = [e \in Editors |-> NoEditor]
    /\ overlapped = {} /\ muddled = FALSE /\ edits = 0 /\ starts = 0

QueryLogNext ==
    \/ \E n \in Range(LogNodes) \ Range(Silent) : Asked(n)
    \/ \E p \in Pollers : StartLogPoll(p) \/ FetchRows(p) \/ FetchFails(p) \/ AddRows(p)
    \/ \E e \in Editors : LoadSettings(e) \/ CommitSettings(e) \/ AssignSettings(e)
    \/ StartAgain

\* Once a node has logged anything, passes are made again and again and get through.
QueryLogFairness ==
    \A p \in Pollers :
       WF_queryLogVars(
          \/ logged # [n \in DOMAIN logged |-> 0] /\ StartLogPoll(p)
          \/ FetchRows(p) \/ FetchFails(p) \/ AddRows(p))

QueryLogSpec == QueryLogInit /\ [][QueryLogNext]_queryLogVars

-----------------------------------------------------------------------------
(* Properties.                                                              *)

\* The set that says what is known and the deque it speaks for stay one: whatever is
\* pushed out, cut off by a smaller size or lost with a restart is new when it comes again,
\* and nothing is in the log twice.
KeysMatch ==
    /\ keys = Range(buffer) /\ IsInjective(buffer)
    /\ Len(buffer) <= maxlen

\* A node that does not answer does not keep the others' queries out of the log: each of
\* these is announced, unless so many came in meanwhile that the node no longer serves it.
QueriesArrive ==
    \A n \in Range(LogNodes) \ Range(Silent) : \A i \in 1 .. MaxQueries :
        logged[n] >= i ~> <<n, i>> \in announced \/ logged[n] >= i + FetchLimit

\* The settings in force are the stored ones, when no two requests about them overlapped.
InForceIsStored ==
    ~muddled /\ (\A e \in Editors : editor[e].pc # "assign") => cache = stored
=============================================================================

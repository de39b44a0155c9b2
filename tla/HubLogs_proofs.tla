--------------------------- MODULE HubLogs_proofs ---------------------------
(***************************************************************************)
(* Proofs about what the hub remembers: the merged query log with its      *)
(* settings, the drift log with its streaks, and the drift archive.        *)
(***************************************************************************)
EXTENDS QueryLog, DriftLog, DriftArchive, FiniteSetTheorems, SequenceTheorems,
        WellFoundedInduction, NaturalsInduction, TLAPS

\* The numbers up to n are n.
LEMMA CountedUpTo ==
    ASSUME NEW n \in Nat
    PROVE  IsFiniteSet(1 .. n) /\ Cardinality(1 .. n) = n
BY FS_Interval

(***************************************************************************)
(* What a recursive function computes step by step: the induction over the *)
(* steps, and that such a function is there when every step stays within a *)
(* set.                                                                    *)
(***************************************************************************)

\* A set of numbers has a smallest.
LEMMA SmallestThere ==
    ASSUME NEW S \in SUBSET Nat, S # {}
    PROVE  \E m \in S : \A w \in S : m <= w
<1>1. PICK m \in S : \A w \in S : ~(<<w, m>> \in OpToRel(<, Nat))
  BY WFMin, NatLessThanWellFounded
<1>2. \A w \in S : w \in Nat /\ m \in Nat
  OBVIOUS
<1>3. \A w \in S : ~(w < m)
  BY <1>1, <1>2 DEF OpToRel
<1> QED BY <1>2, <1>3

\* What holds at first, and from one number to the next, holds up to the last.
LEMMA UpTo ==
    ASSUME NEW n \in Nat, NEW There, 0 \in There,
           \A m \in 0 .. n : m \in There /\ m < n => m + 1 \in There
    PROVE  \A m \in 0 .. n : m \in There
<1> SUFFICES ASSUME NEW w \in 0 .. n, w \notin There PROVE FALSE
  OBVIOUS
<1> DEFINE Missing == {m \in 0 .. n : m \notin There}
<1>1. PICK m \in Missing : \A v \in Missing : m <= v
  <2>1. Missing \in SUBSET Nat /\ Missing # {}
    OBVIOUS
  <2> HIDE DEF Missing
  <2> QED BY <2>1, SmallestThere
<1>2. m # 0 /\ m - 1 \in 0 .. n /\ m - 1 < n
  OBVIOUS
<1>3. m - 1 \in There
  BY <1>1, <1>2
<1>4. m - 1 + 1 = m
  OBVIOUS
<1> QED BY <1>2, <1>3, <1>4

\* What a recursion makes of a start in so many steps.
Runs(S, n, start, g) ==
    {f \in [0 .. n -> S] : f[0] = start /\ \A i \in 1 .. n : f[i] = g[i][f[i - 1]]}

\* There is such a function when every step stays within the set.
LEMMA Unfolds ==
    ASSUME NEW S, NEW n \in Nat, NEW start \in S, NEW g \in [1 .. n -> [S -> S]]
    PROVE  Runs(S, n, start, g) # {}
<1> DEFINE There == {m \in 0 .. n : \E f \in [0 .. m -> S] :
                        f[0] = start /\ \A i \in 1 .. m : f[i] = g[i][f[i - 1]]}
<1>1. 0 \in There
  <2> DEFINE h == [i \in 0 .. 0 |-> start]
  <2>1. h \in [0 .. 0 -> S] /\ h[0] = start /\ \A i \in 1 .. 0 : FALSE
    OBVIOUS
  <2> HIDE DEF h
  <2>2. 0 \in 0 .. n
    OBVIOUS
  <2>3. \E f \in [0 .. 0 -> S] : f[0] = start /\ \A i \in 1 .. 0 : f[i] = g[i][f[i - 1]]
    BY <2>1
  <2> QED BY <2>2, <2>3
<1>2. ASSUME NEW m \in 0 .. n, m \in There, m < n PROVE m + 1 \in There
  <2>1. PICK f \in [0 .. m -> S] : f[0] = start /\ \A i \in 1 .. m : f[i] = g[i][f[i - 1]]
    BY <1>2
  <2> DEFINE h == [i \in 0 .. m + 1 |-> IF i = m + 1 THEN g[m + 1][f[m]] ELSE f[i]]
  <2>2. f[m] \in S /\ m + 1 \in 1 .. n /\ g[m + 1] \in [S -> S]
    BY <1>2
  <2>3. g[m + 1][f[m]] \in S
    BY <2>2
  <2>4. h \in [0 .. m + 1 -> S]
    BY <2>1, <2>3, <1>2
  <2>5. h[0] = start /\ \A i \in 1 .. m + 1 : h[i] = g[i][h[i - 1]]
    <3>1. h[0] = start
      BY <1>2, <2>1
    <3>2. \A i \in 0 .. m : h[i] = f[i]
      BY <1>2
    <3>3. h[m + 1] = g[m + 1][f[m]]
      BY <1>2
    <3>4. \A i \in 1 .. m + 1 : i - 1 \in 0 .. m /\ (i = m + 1 \/ i \in 1 .. m)
      BY <1>2
    <3>5. m + 1 - 1 = m /\ \A i \in 1 .. m : i \in 0 .. m
      BY <1>2
    <3> HIDE DEF h
    <3> QED BY <2>1, <3>1, <3>2, <3>3, <3>4, <3>5
  <2> HIDE DEF h
  <2>6. m + 1 \in 0 .. n
    BY <1>2
  <2> QED BY <2>4, <2>5, <2>6
<1>3. \A m \in 0 .. n : m \in There
  <2> HIDE DEF There
  <2> QED BY <1>1, <1>2, UpTo
<1> QED BY <1>3 DEF Runs

(***************************************************************************)
(* QueryLog's settings, for any number of requests and any sizes: the copy *)
(* in memory is the stored row once no request is between its commit and   *)
(* its assignment, unless requests overlapped.  A request that overlaps    *)
(* with none has, from its load to its commit, the stored row with its own *)
(* change, and from there the stored row itself.                           *)
(***************************************************************************)

SettingsTyped ==
    /\ editor = [e \in Editors |-> editor[e]]
    /\ stored = [x \in DOMAIN stored |-> stored[x]]

\* A request that overlaps with none is the only one.
OnlyOne ==
    \A e \in Editors \ overlapped : editor[e].pc # "rest" =>
        \A f \in Editors \ {e} : editor[f].pc = "rest"

\* Before its commit it holds the row and one change to it.
HoldsOneChange ==
    \A e \in Editors \ overlapped : editor[e].pc = "commit" =>
        /\ editor[e].seen = stored
        /\ \E value : editor[e].view = [stored EXCEPT ![editor[e].field] = value]

\* After its commit it holds the row.
HoldsTheRow ==
    \A e \in Editors \ overlapped : editor[e].pc = "assign" => editor[e].view = stored

SettingsInv == SettingsTyped /\ OnlyOne /\ HoldsOneChange /\ HoldsTheRow /\ InForceIsStored

LEMMA SettingsInitHolds == QueryLogInit => SettingsInv
<1> SUFFICES ASSUME QueryLogInit PROVE SettingsInv
  OBVIOUS
<1>1. /\ editor = [e \in Editors |-> NoEditor] /\ cache = stored
      /\ stored = [size |-> EnvSize, on |-> TRUE]
  BY DEF QueryLogInit
<1>2. \A e \in Editors : editor[e].pc = "rest"
  BY <1>1 DEF NoEditor
<1>3. editor = [e \in Editors |-> editor[e]]
  BY <1>1
<1>4. stored = [x \in DOMAIN stored |-> stored[x]]
  BY <1>1
<1> QED BY <1>1, <1>2, <1>3, <1>4
    DEF SettingsInv, SettingsTyped, OnlyOne, HoldsOneChange, HoldsTheRow, InForceIsStored

\* The new request alone has left its rest, and the others overlap with it from now on.
LEMMA LoadKeeps ==
    ASSUME SettingsInv, NEW e \in Editors, LoadSettings(e)
    PROVE  SettingsInv'
<1>1. /\ editor[e].pc = "rest" /\ UNCHANGED <<stored, cache, muddled>>
      /\ overlapped' = IF AtWork = {} THEN {} ELSE AtWork \union {e}
  BY DEF LoadSettings
<1>2. PICK new : /\ editor' = [editor EXCEPT ![e] = new]
                 /\ \/ new.pc = "assign" /\ new.view = stored
                    \/ /\ new.pc = "commit" /\ new.seen = stored
                       /\ \E value : new.view = [stored EXCEPT ![new.field] = value]
  <2>1. CASE editor' = [editor EXCEPT ![e] =
               [pc |-> "assign", field |-> "none", seen |-> stored, view |-> stored]]
    <3> DEFINE new == [pc |-> "assign", field |-> "none", seen |-> stored, view |-> stored]
    <3>1. new.pc = "assign" /\ new.view = stored
      OBVIOUS
    <3>2. editor' = [editor EXCEPT ![e] = new]
      BY <2>1
    <3> HIDE DEF new
    <3> QED BY <3>1, <3>2
  <2>2. ASSUME NEW field, NEW value,
               editor' = [editor EXCEPT ![e] =
                  [pc |-> "commit", field |-> field, seen |-> stored,
                   view |-> [stored EXCEPT ![field] = value]]]
        PROVE  \E new : /\ editor' = [editor EXCEPT ![e] = new]
                        /\ new.pc = "commit" /\ new.seen = stored
                        /\ \E given : new.view = [stored EXCEPT ![new.field] = given]
    <3> DEFINE changed == [stored EXCEPT ![field] = value]
               new == [pc |-> "commit", field |-> field, seen |-> stored, view |-> changed]
    <3> HIDE DEF changed
    <3>1. new.pc = "commit" /\ new.seen = stored /\ new.view = changed /\ new.field = field
      OBVIOUS
    <3>2. editor' = [editor EXCEPT ![e] = new]
      BY <2>2 DEF changed
    <3> HIDE DEF new
    <3>3. \E given : new.view = [stored EXCEPT ![new.field] = given]
      BY <3>1 DEF changed
    <3> QED BY <3>1, <3>2, <3>3
  <2> QED BY <2>1, <2>2 DEF LoadSettings
<1>3. /\ editor' = [f \in Editors |-> editor'[f]]
      /\ editor'[e] = new /\ \A f \in Editors \ {e} : editor'[f] = editor[f]
  BY <1>2 DEF SettingsInv, SettingsTyped
<1>4. \A f \in Editors \ overlapped' :
         \/ f = e /\ \A g \in Editors \ {e} : editor[g].pc = "rest"
         \/ f # e /\ editor[f].pc = "rest"
  <2>1. CASE AtWork = {}
    <3>1. \A f \in Editors : editor[f].pc = "rest"
      BY <2>1 DEF AtWork
    <3> QED BY <3>1, Zenon
  <2>2. CASE AtWork # {}
    BY <1>1, <2>2 DEF AtWork
  <2> QED BY <2>1, <2>2
<1>5. SettingsTyped'
  BY <1>1, <1>3 DEF SettingsInv, SettingsTyped
<1>7. OnlyOne'
  BY <1>3, <1>4 DEF OnlyOne
<1>8. HoldsOneChange'
  BY <1>1, <1>2, <1>3, <1>4 DEF HoldsOneChange
<1>9. HoldsTheRow'
  BY <1>1, <1>2, <1>3, <1>4 DEF HoldsTheRow
<1>6. InForceIsStored'
  BY <1>1, <1>3 DEF SettingsInv, InForceIsStored
<1> QED BY <1>5, <1>6, <1>7, <1>8, <1>9 DEF SettingsInv

LEMMA CommitKeeps ==
    ASSUME SettingsInv, NEW e \in Editors, CommitSettings(e)
    PROVE  SettingsInv'
<1>1. /\ editor[e].pc = "commit" /\ stored' = ChangedColumns(e)
      /\ editor' = [editor EXCEPT ![e] = [editor[e] EXCEPT !.pc = "assign"]]
      /\ UNCHANGED <<cache, overlapped, muddled>>
  BY DEF CommitSettings
<1>2. /\ editor' = [f \in Editors |-> editor'[f]]
      /\ \A f \in Editors \ {e} : editor'[f] = editor[f]
  BY <1>1 DEF SettingsInv, SettingsTyped
<1>3. SettingsTyped'
  BY <1>1, <1>2 DEF SettingsInv, SettingsTyped, ChangedColumns
<1>4. editor'[e].pc = "assign" /\ editor'[e].view = editor[e].view
  <2>1. editor'[e] = [editor[e] EXCEPT !.pc = "assign"]
    BY <1>1 DEF SettingsInv, SettingsTyped
  <2>2. editor'[e].view = editor[e].view
    BY <2>1
  <2>3. editor'[e].pc = "assign"
    BY <2>1 DEF SettingsInv, SettingsTyped
  <2> QED BY <2>2, <2>3
<1>5. ASSUME e \notin overlapped
      PROVE  stored' = editor[e].view
  <2>1. PICK value : editor[e].view = [stored EXCEPT ![editor[e].field] = value]
    BY <1>1, <1>5 DEF SettingsInv, HoldsOneChange
  <2>2. editor[e].seen = stored
    BY <1>1, <1>5 DEF SettingsInv, HoldsOneChange
  <2>3. ChangedColumns(e) = editor[e].view
    <3> DEFINE field == editor[e].field
               view == editor[e].view
    <3>1. ChangedColumns(e) =
             IF view[field] = stored[field] THEN stored ELSE [stored EXCEPT ![field] = view[field]]
      BY <2>2 DEF ChangedColumns
    <3>2. view = [stored EXCEPT ![field] = value] /\ stored = [x \in DOMAIN stored |-> stored[x]]
      BY <2>1 DEF SettingsInv, SettingsTyped
    <3> HIDE DEF field, view
    <3>3. \* The UPDATE of the one column that was changed makes the row what it holds.
          (IF view[field] = stored[field] THEN stored
           ELSE [stored EXCEPT ![field] = view[field]]) = view
      BY <3>2
    <3> QED BY <3>1, <3>3 DEF view
  <2> QED BY <1>1, <2>3
<1>6. \A f \in Editors \ overlapped : f # e => editor[f].pc = "rest"
  BY <1>1 DEF SettingsInv, OnlyOne
<1>7. OnlyOne' /\ HoldsOneChange' /\ HoldsTheRow' /\ InForceIsStored'
  BY <1>1, <1>2, <1>4, <1>5, <1>6
      DEF SettingsInv, OnlyOne, HoldsOneChange, HoldsTheRow, InForceIsStored
<1> QED BY <1>3, <1>7 DEF SettingsInv

LEMMA AssignKeeps ==
    ASSUME SettingsInv, NEW e \in Editors, AssignSettings(e)
    PROVE  SettingsInv'
<1>1. /\ editor[e].pc = "assign" /\ cache' = editor[e].view /\ stored' = stored
      /\ editor' = [editor EXCEPT ![e] = NoEditor]
      /\ muddled' = (e \in overlapped) /\ overlapped' = overlapped \ {e}
  BY DEF AssignSettings, CacheFrom
<1>2. /\ editor' = [f \in Editors |-> editor'[f]]
      /\ editor'[e].pc = "rest" /\ \A f \in Editors \ {e} : editor'[f] = editor[f]
  BY <1>1 DEF SettingsInv, SettingsTyped, NoEditor
<1>3. SettingsTyped' /\ OnlyOne' /\ HoldsOneChange' /\ HoldsTheRow'
  BY <1>1, <1>2 DEF SettingsInv, SettingsTyped, OnlyOne, HoldsOneChange, HoldsTheRow
<1>4. InForceIsStored'
  BY <1>1 DEF SettingsInv, HoldsTheRow, InForceIsStored
<1> QED BY <1>3, <1>4 DEF SettingsInv

LEMMA RestartKeeps ==
    ASSUME SettingsInv, StartAgain
    PROVE  SettingsInv'
<1>1. /\ editor' = [e \in Editors |-> NoEditor] /\ cache' = stored /\ stored' = stored
  BY DEF StartAgain
<1>2. editor' = [e \in Editors |-> editor'[e]] /\ \A e \in Editors : editor'[e].pc = "rest"
  BY <1>1 DEF NoEditor
<1> QED BY <1>1, <1>2
    DEF SettingsInv, SettingsTyped, OnlyOne, HoldsOneChange, HoldsTheRow, InForceIsStored

LEMMA SettingsStepKeeps == SettingsInv /\ [QueryLogNext]_queryLogVars => SettingsInv'
<1> SUFFICES ASSUME SettingsInv, [QueryLogNext]_queryLogVars
             PROVE  SettingsInv'
  OBVIOUS
<1>1. CASE UNCHANGED settingsVars
  BY <1>1 DEF settingsVars, SettingsInv, SettingsTyped, OnlyOne, HoldsOneChange, HoldsTheRow,
              InForceIsStored
<1>2. CASE \E e \in Editors : LoadSettings(e) \/ CommitSettings(e) \/ AssignSettings(e)
  BY <1>2, LoadKeeps, CommitKeeps, AssignKeeps
<1>3. CASE StartAgain
  BY <1>3, RestartKeeps
<1>4. CASE UNCHANGED queryLogVars \/ \E n \in Range(LogNodes) \ Range(Silent) : Asked(n)
  BY <1>1, <1>4 DEF Asked, queryLogVars
<1>5. CASE \E p \in Pollers : StartLogPoll(p) \/ FetchRows(p) \/ FetchFails(p) \/ AddRows(p)
  BY <1>1, <1>5 DEF StartLogPoll, FetchRows, FetchFails, AddRows
<1> QED BY <1>2, <1>3, <1>4, <1>5 DEF QueryLogNext

\* The settings in force are the stored ones, when no two requests about them overlapped.
THEOREM SettingsInForce == QueryLogSpec => []InForceIsStored
<1>1. SettingsInv => InForceIsStored
  BY DEF SettingsInv
<1> QED BY <1>1, SettingsInitHolds, SettingsStepKeeps, PTL DEF QueryLogSpec

(***************************************************************************)
(* QueryLog's buffer, for any number of nodes, pollers and sizes: while a  *)
(* batch is added, row by row, the deque holds no query twice, no more than *)
(* its size, and just those that count as known.                           *)
(***************************************************************************)

Queries == Range(LogNodes) \X Nat

Sizes == Nat \ {0}

Settings == [size : Sizes, on : BOOLEAN]

Polls == [pc : {"rest", "fetch", "add"}, left : Seq(Range(LogNodes)), rows : Seq(Queries)]

Requests ==
    [pc : {"rest", "commit", "assign"}, field : {"none", "size", "on"},
     seen : Settings \union {<<>>}, view : Settings \union {<<>>}]

LogTyped ==
    /\ logged \in [Range(LogNodes) -> Nat]
    /\ buffer \in Seq(Queries) /\ maxlen \in Sizes
    /\ polling \in [Pollers -> Polls]
    /\ \A p \in Pollers : polling[p].pc # "rest" => polling[p].left # <<>>

RequestsTyped ==
    /\ stored \in Settings
    /\ editor \in [Editors -> Requests]
    /\ \A e \in Editors : editor[e].pc # "rest" => editor[e].view \in Settings

LogInv == LogTyped /\ RequestsTyped /\ KeysMatch

\* What the buffer holds while a batch is added to it.
Logs ==
    {log \in [entries : Seq(Queries), keys : SUBSET Queries, added : SUBSET Queries] :
        /\ log.keys = Range(log.entries) /\ IsInjective(log.entries)
        /\ Len(log.entries) <= maxlen}

\* What is left without the first.
LEMMA OldestDropped ==
    ASSUME NEW entries \in Seq(Queries), entries # <<>>, IsInjective(entries)
    PROVE  /\ Tail(entries) \in Seq(Queries) /\ IsInjective(Tail(entries))
           /\ Range(Tail(entries)) = Range(entries) \ {Head(entries)}
           /\ Len(Tail(entries)) = Len(entries) - 1
<1>1. /\ Tail(entries) \in Seq(Queries) /\ Len(Tail(entries)) = Len(entries) - 1
      /\ \A i \in 1 .. Len(entries) - 1 : Tail(entries)[i] = entries[i + 1]
      /\ DOMAIN Tail(entries) = 1 .. Len(entries) - 1 /\ DOMAIN entries = 1 .. Len(entries)
      /\ Head(entries) = entries[1] /\ Len(entries) \in Nat /\ Len(entries) > 0
  OBVIOUS
<1>2. IsInjective(Tail(entries))
  <2> SUFFICES ASSUME NEW i \in 1 .. Len(entries) - 1, NEW j \in 1 .. Len(entries) - 1,
                      Tail(entries)[i] = Tail(entries)[j]
               PROVE  i = j
    BY <1>1 DEF IsInjective
  <2>1. i + 1 \in DOMAIN entries /\ j + 1 \in DOMAIN entries /\ entries[i + 1] = entries[j + 1]
    BY <1>1
  <2>2. i + 1 = j + 1
    BY <2>1 DEF IsInjective
  <2> QED BY <2>2
<1>3. Range(Tail(entries)) = Range(entries) \ {Head(entries)}
  <2>1. ASSUME NEW i \in 1 .. Len(entries) - 1
        PROVE  Tail(entries)[i] \in Range(entries) /\ Tail(entries)[i] # Head(entries)
    <3>1. i + 1 \in DOMAIN entries /\ 1 \in DOMAIN entries /\ i + 1 # 1
      BY <1>1
    <3>2. entries[i + 1] # entries[1]
      BY <3>1 DEF IsInjective
    <3> QED BY <1>1, <3>1, <3>2 DEF Range
  <2>2. ASSUME NEW i \in 1 .. Len(entries), entries[i] # Head(entries)
        PROVE  entries[i] \in Range(Tail(entries))
    <3>1. i - 1 \in 1 .. Len(entries) - 1 /\ i - 1 + 1 = i
      BY <1>1, <2>2
    <3>2. Tail(entries)[i - 1] = entries[i]
      BY <1>1, <3>1
    <3> QED BY <1>1, <3>1, <3>2 DEF Range
  <2> QED BY <1>1, <2>1, <2>2 DEF Range
<1> QED BY <1>1, <1>2, <1>3

\* And with one more at the end.
LEMMA NewestAdded ==
    ASSUME NEW entries \in Seq(Queries), IsInjective(entries), NEW row \in Queries,
           row \notin Range(entries)
    PROVE  /\ Append(entries, row) \in Seq(Queries) /\ IsInjective(Append(entries, row))
           /\ Range(Append(entries, row)) = Range(entries) \union {row}
           /\ Len(Append(entries, row)) = Len(entries) + 1
<1> DEFINE more == Append(entries, row)
<1>1. /\ more \in Seq(Queries) /\ Len(more) = Len(entries) + 1 /\ Len(entries) \in Nat
      /\ DOMAIN more = 1 .. Len(entries) + 1 /\ DOMAIN entries = 1 .. Len(entries)
      /\ \A i \in 1 .. Len(entries) : more[i] = entries[i]
      /\ more[Len(entries) + 1] = row
  OBVIOUS
<1> HIDE DEF more
<1>2. \A i \in 1 .. Len(entries) : more[i] # row
  BY <1>1 DEF Range
<1>3. IsInjective(more)
  BY <1>1, <1>2 DEF IsInjective
<1>4. Range(more) = Range(entries) \union {row}
  <2>1. \A i \in DOMAIN more : more[i] \in Range(entries) \union {row}
    BY <1>1 DEF Range
  <2>2. \A i \in DOMAIN entries : entries[i] \in Range(more)
    BY <1>1 DEF Range
  <2>3. row \in Range(more)
    <3>1. Len(entries) + 1 \in DOMAIN more
      BY <1>1
    <3> QED BY <1>1, <3>1 DEF Range
  <2> QED BY <2>1, <2>2, <2>3 DEF Range
<1> QED BY <1>1, <1>3, <1>4 DEF more

\* One row of a batch keeps the three together.
LEMMA InsertedTyped ==
    ASSUME maxlen \in Sizes, NEW log \in Logs, NEW row \in Queries
    PROVE  Inserted(log, row) \in Logs
<1> DEFINE entries == log.entries
           kept == IF Len(entries) = maxlen THEN Tail(entries) ELSE entries
           next == [entries |-> Append(kept, row), keys |-> KnownAfter(log) \union {row},
                    added |-> log.added \union {row}]
<1>1. /\ entries \in Seq(Queries) /\ log.keys = Range(entries) /\ IsInjective(entries)
      /\ Len(entries) <= maxlen /\ log.added \subseteq Queries
  BY DEF Logs
<1>2. CASE row \in log.keys
  BY <1>2 DEF Inserted
<1>3. CASE row \notin log.keys
  <2>1. Inserted(log, row) = next
    BY <1>3 DEF Inserted
  <2>2. /\ kept \in Seq(Queries) /\ IsInjective(kept) /\ Len(kept) < maxlen
        /\ KnownAfter(log) = Range(kept) /\ Range(kept) \subseteq Range(entries)
    <3>1. CASE Len(entries) = maxlen
      <4>1. entries # <<>>
        BY <1>1, <3>1 DEF Sizes
      <4>2. /\ Tail(entries) \in Seq(Queries) /\ IsInjective(Tail(entries))
            /\ Range(Tail(entries)) = Range(entries) \ {Head(entries)}
            /\ Len(Tail(entries)) = Len(entries) - 1
        <5> HIDE DEF entries
        <5> QED BY <1>1, <4>1, OldestDropped
      <4>3. KnownAfter(log) = Range(entries) \ {Head(entries)}
        BY <1>1, <3>1 DEF KnownAfter
      <4> QED BY <1>1, <3>1, <4>2, <4>3 DEF Sizes
    <3>2. CASE Len(entries) # maxlen
      BY <1>1, <3>2 DEF KnownAfter, Sizes
    <3> QED BY <3>1, <3>2
  <2>3. row \notin Range(kept)
    BY <1>1, <1>3, <2>2
  <2>4. /\ Append(kept, row) \in Seq(Queries) /\ IsInjective(Append(kept, row))
        /\ Range(Append(kept, row)) = Range(kept) \union {row}
        /\ Len(Append(kept, row)) = Len(kept) + 1
    <3> HIDE DEF kept
    <3> QED BY <2>2, <2>3, NewestAdded
  <2>5. Len(Append(kept, row)) <= maxlen
    <3> HIDE DEF kept
    <3>1. Len(kept) \in Nat /\ maxlen \in Nat
      BY <2>2 DEF Sizes
    <3> QED BY <2>2, <2>4, <3>1
  <2>6. Range(Append(kept, row)) \subseteq Queries
    <3> HIDE DEF kept
    <3> QED BY <2>4 DEF Range
  <2> HIDE DEF kept, entries
  <2>7. next \in Logs
    BY <1>1, <2>2, <2>4, <2>5, <2>6 DEF Logs
  <2> HIDE DEF next
  <2> QED BY <2>1, <2>7
<1> QED BY <1>2, <1>3

\* So does the batch, row by row.
LEMMA LogWithTyped ==
    ASSUME maxlen \in Sizes, buffer \in Seq(Queries), KeysMatch, NEW rows \in Seq(Queries)
    PROVE  LogWith(rows) \in Logs
<1> DEFINE n == Len(rows)
           start == [entries |-> buffer, keys |-> keys, added |-> {}]
           upTo == CHOOSE f : f = [i \in 0 .. n |->
                                     IF i = 0 THEN start ELSE Inserted(f[i - 1], rows[i])]
           Add == [i \in 1 .. n |-> [log \in Logs |-> Inserted(log, rows[i])]]
<1>0. n \in Nat /\ \A i \in 1 .. n : rows[i] \in Queries
  OBVIOUS
<1>1. start \in Logs
  <2>1. keys \subseteq Queries
    BY DEF KeysMatch, Range
  <2> QED BY <2>1 DEF Logs, KeysMatch
<1>2. LogWith(rows) = upTo[n]
  BY DEF LogWith
<1>3. Add \in [1 .. n -> [Logs -> Logs]]
  BY <1>0, InsertedTyped
<1> HIDE DEF start
<1>4. PICK f \in [0 .. n -> Logs] : f[0] = start /\ \A i \in 1 .. n : f[i] = Add[i][f[i - 1]]
  <2> HIDE DEF Add, n
  <2>1. Runs(Logs, n, start, Add) # {}
    BY <1>0, <1>1, <1>3, Unfolds
  <2> QED BY <2>1 DEF Runs
<1>5. ASSUME NEW i \in 1 .. n PROVE f[i] = Inserted(f[i - 1], rows[i])
  <2>1. i - 1 \in 0 .. n
    BY <1>0
  <2>2. f[i - 1] \in Logs
    BY <2>1
  <2>3. Add[i] = [log \in Logs |-> Inserted(log, rows[i])]
    OBVIOUS
  <2> HIDE DEF Add
  <2> QED BY <1>4, <2>2, <2>3
<1>6. f = [i \in 0 .. n |-> IF i = 0 THEN start ELSE Inserted(f[i - 1], rows[i])]
  BY <1>0, <1>4, <1>5
<1>7. upTo = [i \in 0 .. n |-> IF i = 0 THEN start ELSE Inserted(upTo[i - 1], rows[i])]
  BY <1>6
<1> HIDE DEF upTo
<1>8. upTo[0] = start /\ \A i \in 1 .. n : upTo[i] = Inserted(upTo[i - 1], rows[i])
  BY <1>0, <1>7
<1>9. \A i \in 0 .. n : upTo[i] \in Logs
  <2> DEFINE There == {i \in 0 .. n : upTo[i] \in Logs}
  <2>1. 0 \in There
    BY <1>0, <1>1, <1>8
  <2>2. ASSUME NEW m \in 0 .. n, m \in There, m < n PROVE m + 1 \in There
    <3>1. upTo[m + 1] = Inserted(upTo[m], rows[m + 1]) /\ rows[m + 1] \in Queries
      BY <1>0, <1>8, <2>2
    <3>2. upTo[m + 1] \in Logs
      BY <2>2, <3>1, InsertedTyped
    <3> QED BY <1>0, <2>2, <3>2
  <2> HIDE DEF There
  <2>3. \A m \in 0 .. n : m \in There
    BY <1>0, <2>1, <2>2, UpTo
  <2> QED BY <2>3 DEF There
<1> QED BY <1>0, <1>2, <1>9

\* What is left when the deque gets shorter.
LEMMA NewestKept ==
    ASSUME NEW entries \in Seq(Queries), IsInjective(entries), NEW size \in Sizes
    PROVE  /\ Newest(entries, size) \in Seq(Queries) /\ IsInjective(Newest(entries, size))
           /\ Len(Newest(entries, size)) <= size
<1> DEFINE first == IF Len(entries) > size THEN Len(entries) - size + 1 ELSE 1
           kept == Newest(entries, size)
<1>1. /\ Len(entries) \in Nat /\ size \in Nat /\ size > 0 /\ first \in 1 .. Len(entries) + 1
      /\ Len(entries) - first + 1 <= size /\ DOMAIN entries = 1 .. Len(entries)
  BY DEF Sizes
<1>2. kept = SubSeq(entries, first, Len(entries))
  BY DEF Newest
<1> HIDE DEF first, kept
<1>3. /\ kept \in Seq(Queries) /\ DOMAIN kept = 1 .. Len(entries) - first + 1
      /\ Len(kept) = Len(entries) - first + 1
      /\ \A i \in 1 .. Len(entries) - first + 1 : kept[i] = entries[first + i - 1]
  BY <1>1, <1>2, SubSeqProperties
<1>4. IsInjective(kept)
  <2> SUFFICES ASSUME NEW i \in DOMAIN kept, NEW j \in DOMAIN kept, kept[i] = kept[j]
               PROVE  i = j
    BY DEF IsInjective
  <2>1. first + i - 1 \in DOMAIN entries /\ first + j - 1 \in DOMAIN entries
    BY <1>1, <1>3
  <2>2. entries[first + i - 1] = entries[first + j - 1]
    BY <1>3
  <2>3. first + i - 1 = first + j - 1
    BY <2>1, <2>2 DEF IsInjective
  <2> QED BY <1>1, <1>3, <2>3
<1> QED BY <1>1, <1>3, <1>4 DEF kept

LEMMA LogInitHolds == QueryLogInit => LogInv
<1> SUFFICES ASSUME QueryLogInit PROVE LogInv
  OBVIOUS
<1> USE QueryLogAssumption DEF QueryLogInit
<1>1. EnvSize \in Sizes
  BY DEF Sizes
<1>2. AtRest \in Polls /\ AtRest.pc = "rest"
  BY DEF AtRest, Polls
<1>3. NoEditor \in Requests /\ NoEditor.pc = "rest"
  BY DEF NoEditor, Requests
<1>4. LogTyped
  BY <1>1, <1>2 DEF LogTyped
<1>5. RequestsTyped
  BY <1>1, <1>3 DEF RequestsTyped, Settings
<1>6. KeysMatch
  BY <1>1 DEF KeysMatch, IsInjective, Range, Sizes
<1> QED BY <1>4, <1>5, <1>6 DEF LogInv

LEMMA LoadKeepsTypes ==
    ASSUME RequestsTyped, NEW e \in Editors, LoadSettings(e)
    PROVE  RequestsTyped'
<1>1. PICK new \in Requests : new.view \in Settings /\ editor' = [editor EXCEPT ![e] = new]
  <2>1. CASE editor' = [editor EXCEPT ![e] =
               [pc |-> "assign", field |-> "none", seen |-> stored, view |-> stored]]
    <3> DEFINE new == [pc |-> "assign", field |-> "none", seen |-> stored, view |-> stored]
    <3>1. new \in Requests /\ new.view \in Settings
      BY DEF RequestsTyped, Requests
    <3> HIDE DEF new
    <3> QED BY <2>1, <3>1 DEF new
  <2>2. ASSUME NEW field \in {"size", "on"},
               NEW value \in IF field = "size" THEN {Clamped(s) : s \in AskedSizes} ELSE BOOLEAN,
               editor' = [editor EXCEPT ![e] =
                  [pc |-> "commit", field |-> field, seen |-> stored,
                   view |-> [stored EXCEPT ![field] = value]]]
        PROVE  \E new \in Requests : new.view \in Settings /\ editor' = [editor EXCEPT ![e] = new]
    <3> DEFINE changed == [stored EXCEPT ![field] = value]
               new == [pc |-> "commit", field |-> field, seen |-> stored, view |-> changed]
    <3>1. \A s \in AskedSizes : Clamped(s) \in Sizes
      <4>1. /\ SmallestSize \in Nat \ {0} /\ LargestSize \in Nat /\ SmallestSize <= LargestSize
            /\ \A s \in AskedSizes : s \in Nat
        BY QueryLogAssumption
      <4> QED BY <4>1 DEF Clamped, Sizes
    <3>2. changed \in Settings
      <4>1. field = "size" => value \in Sizes
        BY <3>1
      <4>2. field = "on" => value \in BOOLEAN
        OBVIOUS
      <4> QED BY <4>1, <4>2 DEF RequestsTyped, Settings
    <3> HIDE DEF changed
    <3>3. new \in Requests /\ new.view \in Settings
      BY <3>2 DEF RequestsTyped, Requests
    <3>4. editor' = [editor EXCEPT ![e] = new]
      BY <2>2 DEF changed
    <3> HIDE DEF new
    <3> QED BY <3>3, <3>4
  <2> QED BY <2>1, <2>2 DEF LoadSettings
<1>2. UNCHANGED stored
  BY DEF LoadSettings
<1> QED BY <1>1, <1>2 DEF RequestsTyped

LEMMA CommitKeepsTypes ==
    ASSUME RequestsTyped, NEW e \in Editors, CommitSettings(e)
    PROVE  RequestsTyped'
<1> DEFINE new == [editor[e] EXCEPT !.pc = "assign"]
           view == editor[e].view
<1>1. /\ editor[e].pc = "commit" /\ stored' = ChangedColumns(e)
      /\ editor' = [editor EXCEPT ![e] = new]
  BY DEF CommitSettings
<1>2. editor[e] \in Requests /\ view \in Settings /\ stored \in Settings
  BY <1>1 DEF RequestsTyped
<1>3. new \in Requests /\ new.view = view
  BY <1>2 DEF Requests
<1>4. ChangedColumns(e) \in Settings
  BY <1>2 DEF ChangedColumns, Settings, Requests
<1> HIDE DEF new, view
<1> QED BY <1>1, <1>2, <1>3, <1>4 DEF RequestsTyped

LEMMA AssignKeepsLog ==
    ASSUME LogInv, NEW e \in Editors, AssignSettings(e)
    PROVE  LogInv'
<1> DEFINE size == editor[e].view.size
<1>1. /\ editor[e].pc = "assign" /\ editor' = [editor EXCEPT ![e] = NoEditor]
      /\ UNCHANGED <<logged, polling, announced, stored>>
  BY DEF AssignSettings
<1>2. size \in Sizes
  BY <1>1 DEF LogInv, RequestsTyped, Settings
<1>3. RequestsTyped'
  <2>1. NoEditor \in Requests /\ NoEditor.pc = "rest"
    BY DEF NoEditor, Requests
  <2> QED BY <1>1, <2>1 DEF LogInv, RequestsTyped
<1>4. CASE UNCHANGED <<maxlen, buffer, keys>>
  BY <1>1, <1>3, <1>4 DEF LogInv, LogTyped, KeysMatch
<1>5. CASE maxlen' = size /\ buffer' = Newest(buffer, size) /\ keys' = Range(buffer')
  <2> HIDE DEF size
  <2>1. /\ Newest(buffer, size) \in Seq(Queries) /\ IsInjective(Newest(buffer, size))
        /\ Len(Newest(buffer, size)) <= size
    BY <1>2, NewestKept DEF LogInv, LogTyped, KeysMatch
  <2>2. KeysMatch'
    BY <1>5, <2>1 DEF KeysMatch
  <2>3. LogTyped'
    BY <1>1, <1>2, <1>5, <2>1 DEF LogInv, LogTyped
  <2> QED BY <1>3, <2>2, <2>3 DEF LogInv
<1> QED BY <1>4, <1>5 DEF AssignSettings

\* A step of a poll that leaves the buffer alone.
LEMMA PollMovedKeepsLog ==
    ASSUME LogInv, NEW p \in Pollers, NEW poll \in Polls, poll.pc # "rest" => poll.left # <<>>,
           polling' = [polling EXCEPT ![p] = poll],
           UNCHANGED <<logged, buffer, keys, maxlen, stored, editor>>
    PROVE  LogInv'
<1>1. LogTyped'
  BY DEF LogInv, LogTyped
<1>2. RequestsTyped' /\ KeysMatch'
  BY DEF LogInv, RequestsTyped, KeysMatch
<1> QED BY <1>1, <1>2 DEF LogInv

\* A poll goes on with the next node, if there is one.
LEMMA OnwardTyped ==
    ASSUME NEW left \in Seq(Range(LogNodes))
    PROVE  Onward(left) \in Polls /\ (Onward(left).pc # "rest" => Onward(left).left # <<>>)
<1>1. CASE Len(left) <= 1
  BY <1>1 DEF Onward, AtRest, Polls
<1>2. CASE ~(Len(left) <= 1)
  <2>1. Tail(left) \in Seq(Range(LogNodes)) /\ Tail(left) # <<>>
    BY <1>2
  <2>2. Onward(left) = [pc |-> "fetch", left |-> Tail(left), rows |-> <<>>]
    BY <1>2 DEF Onward
  <2> QED BY <2>1, <2>2 DEF Polls
<1> QED BY <1>1, <1>2

LEMMA FetchKeepsLog ==
    ASSUME LogInv, NEW p \in Pollers, FetchRows(p)
    PROVE  LogInv'
<1> DEFINE node == Head(polling[p].left)
           poll == [polling[p] EXCEPT !.pc = "add", !.rows = Latest(node)]
<1>1. polling[p] \in Polls /\ polling[p].left # <<>> /\ polling[p].pc = "fetch"
  BY DEF FetchRows, LogInv, LogTyped
<1>2. polling[p].left \in Seq(Range(LogNodes))
  BY <1>1 DEF Polls
<1>3. node \in Range(LogNodes)
  BY <1>1, <1>2
<1>4. Latest(node) \in Seq(Queries)
  <2>1. logged[node] \in Nat /\ FetchLimit \in Nat
    BY <1>3, QueryLogAssumption DEF LogInv, LogTyped
  <2> HIDE DEF node
  <2>2. \A i \in 1 .. logged[node] : <<node, logged[node] - i + 1>> \in Queries
    BY <1>3, <2>1 DEF Queries
  <2> QED BY <2>1, <2>2 DEF Latest
<1>5. polling' = [polling EXCEPT ![p] = poll]
  BY DEF FetchRows, LogInv, LogTyped
<1>6. poll \in Polls /\ poll.left = polling[p].left
  <2> HIDE DEF node
  <2> QED BY <1>1, <1>4 DEF Polls
<1> HIDE DEF poll
<1> QED BY <1>1, <1>5, <1>6, PollMovedKeepsLog DEF FetchRows, settingsVars

LEMMA AddKeepsLog ==
    ASSUME LogInv, NEW p \in Pollers, AddRows(p)
    PROVE  LogInv'
<1> DEFINE log == LogWith(polling[p].rows)
<1>1. /\ polling[p] \in Polls /\ polling' = [polling EXCEPT ![p] = Onward(polling[p].left)]
      /\ buffer' = log.entries /\ keys' = log.keys
      /\ UNCHANGED <<logged, maxlen, stored, editor>>
  BY DEF AddRows, LogInv, LogTyped, settingsVars
<1>2. polling[p].rows \in Seq(Queries) /\ polling[p].left \in Seq(Range(LogNodes))
  BY <1>1 DEF Polls
<1>3. log \in Logs
  BY <1>2, LogWithTyped DEF LogInv, LogTyped
<1>4. /\ Onward(polling[p].left) \in Polls
      /\ Onward(polling[p].left).pc # "rest" => Onward(polling[p].left).left # <<>>
  BY <1>2, OnwardTyped
<1> HIDE DEF log
<1>5. LogTyped'
  BY <1>1, <1>3, <1>4 DEF LogInv, LogTyped, Logs
<1>6. KeysMatch'
  BY <1>1, <1>3 DEF KeysMatch, Logs
<1>7. RequestsTyped'
  BY <1>1 DEF LogInv, RequestsTyped
<1> QED BY <1>5, <1>6, <1>7 DEF LogInv

LEMMA LogStepKeeps == LogInv /\ [QueryLogNext]_queryLogVars => LogInv'
<1> SUFFICES ASSUME LogInv, [QueryLogNext]_queryLogVars
             PROVE  LogInv'
  OBVIOUS
<1>1. ASSUME NEW n \in Range(LogNodes) \ Range(Silent), Asked(n) PROVE LogInv'
  BY <1>1 DEF Asked, LogInv, LogTyped, RequestsTyped, KeysMatch, settingsVars
<1>2. ASSUME NEW p \in Pollers, StartLogPoll(p) PROVE LogInv'
  <2> DEFINE poll == [pc |-> "fetch", left |-> LogNodes, rows |-> <<>>]
  <2>1. poll \in Polls /\ poll.left # <<>>
    BY <1>2, QueryLogAssumption DEF StartLogPoll, Polls
  <2>2. polling' = [polling EXCEPT ![p] = poll]
    BY <1>2 DEF StartLogPoll
  <2> HIDE DEF poll
  <2> QED BY <1>2, <2>1, <2>2, PollMovedKeepsLog DEF StartLogPoll, settingsVars
<1>3. ASSUME NEW p \in Pollers, FetchFails(p) PROVE LogInv'
  <2>1. polling[p] \in Polls /\ polling' = [polling EXCEPT ![p] = Onward(polling[p].left)]
    BY <1>3 DEF FetchFails, PassOver, LogInv, LogTyped
  <2>2. polling[p].left \in Seq(Range(LogNodes))
    BY <2>1 DEF Polls
  <2> QED BY <1>3, <2>1, <2>2, OnwardTyped, PollMovedKeepsLog DEF FetchFails, settingsVars
<1>4. ASSUME NEW e \in Editors, LoadSettings(e) \/ CommitSettings(e) PROVE LogInv'
  <2>1. RequestsTyped'
    BY <1>4, LoadKeepsTypes, CommitKeepsTypes DEF LogInv
  <2>2. UNCHANGED mergedVars
    BY <1>4 DEF LoadSettings, CommitSettings
  <2> QED BY <2>1, <2>2 DEF LogInv, LogTyped, KeysMatch, mergedVars
<1>5. CASE StartAgain
  <2>1. /\ EnvSize \in Sizes /\ AtRest \in Polls /\ AtRest.pc = "rest"
        /\ NoEditor \in Requests /\ NoEditor.pc = "rest"
    BY QueryLogAssumption DEF Sizes, AtRest, Polls, NoEditor, Requests
  <2>2. LogTyped'
    BY <1>5, <2>1 DEF StartAgain, LogInv, LogTyped
  <2>3. RequestsTyped'
    BY <1>5, <2>1 DEF StartAgain, LogInv, RequestsTyped
  <2>4. KeysMatch'
    BY <1>5, <2>1 DEF StartAgain, KeysMatch, IsInjective, Range, Sizes
  <2> QED BY <2>2, <2>3, <2>4 DEF LogInv
<1>6. CASE UNCHANGED queryLogVars
  BY <1>6 DEF queryLogVars, mergedVars, settingsVars, LogInv, LogTyped, RequestsTyped, KeysMatch
<1> QED BY <1>1, <1>2, <1>3, <1>4, <1>5, <1>6, FetchKeepsLog, AddKeepsLog, AssignKeepsLog
    DEF QueryLogNext

\* The set that says what is known is the deque's, nothing is in the log twice and it keeps
\* to its size, however batches, changes of the size and restarts interleave.
THEOREM LogHoldsTogether == QueryLogSpec => []KeysMatch
<1>1. LogInv => KeysMatch
  BY DEF LogInv
<1> QED BY <1>1, LogInitHolds, LogStepKeeps, PTL DEF QueryLogSpec

(***************************************************************************)
(* DriftArchive, for any sizes of files and pages.  What a page has not    *)
(* been given of the lines there were when it began lies, counted from the *)
(* newest, behind as many positions as it has lines: writing only pushes   *)
(* lines back, and a rotation only takes the oldest.                       *)
(***************************************************************************)

FilesInOrder ==
    /\ written \in Nat
    /\ files \in [1 .. Files -> 0 .. written]
    /\ \A i, j \in 1 .. Files : i <= j => files[j] <= files[i]

LeftBehind ==
    /\ browser.got \subseteq 1 .. written
    /\ browser.began \in 0 .. written
    /\ browser.pc \in {"more", "end"} =>
          \A k \in Held : k <= browser.began /\ k \notin browser.got =>
              written - k + 1 > Cardinality(browser.got)

ArchiveInv == FilesInOrder /\ LeftBehind /\ PagingMissesNothing

\* A page is no longer than PageSize.
LEMMA WindowCounted ==
    ASSUME NEW after \in Nat, written \in Nat, files[Files] \in Nat
    PROVE  /\ Window(after) \subseteq 1 .. written /\ IsFiniteSet(Window(after))
           /\ Cardinality(Window(after)) <= PageSize
<1> USE DriftArchiveAssumption
<1> DEFINE Reach == written - after - PageSize + 1 .. written - after
<1>1. Window(after) \subseteq Reach /\ Window(after) \subseteq 1 .. written
  BY DEF Window, Held
<1>2. IsFiniteSet(Reach) /\ Cardinality(Reach) = PageSize
  <2>1. written - after - PageSize + 1 \in Int /\ written - after \in Int
    OBVIOUS
  <2>2. Cardinality(Reach) = (written - after) - (written - after - PageSize + 1) + 1
    BY <2>1, FS_Interval
  <2> QED BY <2>1, <2>2, FS_Interval
<1>3. IsFiniteSet(Window(after)) /\ Cardinality(Window(after)) <= PageSize
  <2> HIDE DEF Reach
  <2> QED BY <1>1, <1>2, FS_Subset
<1> QED
  BY <1>1, <1>3

\* A read leaves nothing out that is nearer than what the page has afterwards.
LEMMA ReadLeavesBehind ==
    ASSUME FilesInOrder, NEW got \in SUBSET (1 .. written), NEW began \in 0 .. written,
           \A k \in Held : k <= began /\ k \notin got => written - k + 1 > Cardinality(got),
           browser' = Read(got, began, Cardinality(got)), UNCHANGED <<files, written>>
    PROVE  ArchiveInv'
<1> DEFINE after == Cardinality(got)  all == got \union Window(after)
<1>1. IsFiniteSet(got) /\ after \in Nat
  <2>1. IsFiniteSet(1 .. written)
    BY CountedUpTo DEF FilesInOrder
  <2> QED BY <2>1, FS_Subset, FS_CardinalityType
<1>2. /\ Window(after) \subseteq 1 .. written /\ IsFiniteSet(Window(after))
      /\ Cardinality(Window(after)) <= PageSize
  <2> HIDE DEF after
  <2> QED BY <1>1, WindowCounted, DriftArchiveAssumption DEF FilesInOrder
<1>3. Cardinality(all) <= after + PageSize /\ Cardinality(all) \in Nat
  <2>1. /\ IsFiniteSet(all)
        /\ Cardinality(all) = Cardinality(got) + Cardinality(Window(after))
                                 - Cardinality(got \intersect Window(after))
    BY <1>1, <1>2, FS_Union
  <2>2. IsFiniteSet(got \intersect Window(after))
    BY <1>1, FS_Subset, got \intersect Window(after) \subseteq got
  <2>3. /\ Cardinality(all) \in Nat /\ Cardinality(Window(after)) \in Nat
        /\ Cardinality(got \intersect Window(after)) \in Nat
    BY <1>2, <2>1, <2>2, FS_CardinalityType
  <2> QED BY <1>1, <1>2, <2>1, <2>3, DriftArchiveAssumption
<1>4. /\ browser'.got = all /\ browser'.began = began
      /\ browser'.pc = IF written - files[Files] > after + PageSize THEN "more" ELSE "end"
  BY DEF Read
<1>5. \A k \in Held : k <= began /\ k \notin all => written - k + 1 > after + PageSize
  BY <1>1, DriftArchiveAssumption DEF Window, Held, FilesInOrder
<1>6. Held' = Held
  BY DEF Held
<1>7. FilesInOrder'
  BY DEF FilesInOrder
<1>8. LeftBehind'
  <2>1. browser'.got \subseteq 1 .. written' /\ browser'.began \in 0 .. written'
    BY <1>2, <1>4
  <2>2. \A k \in Held' : k <= browser'.began /\ k \notin browser'.got =>
           written' - k + 1 > Cardinality(browser'.got)
    <3> SUFFICES ASSUME NEW k \in Held, k <= began, k \notin all
                 PROVE  written - k + 1 > Cardinality(all)
      BY <1>4, <1>6
    <3> HIDE DEF all, after
    <3> QED BY <1>1, <1>3, <1>5, DriftArchiveAssumption DEF Held, FilesInOrder
  <2> QED BY <2>1, <2>2 DEF LeftBehind
<1>9. PagingMissesNothing'
  <2> SUFFICES ASSUME browser'.pc = "end", NEW k \in Held, k <= began PROVE k \in all
    BY <1>4, <1>6 DEF PagingMissesNothing
  <2>1. written - files[Files] <= after + PageSize
    BY <1>1, <1>4, DriftArchiveAssumption DEF FilesInOrder
  <2> HIDE DEF all, after
  <2> QED BY <1>1, <1>5, <2>1, DriftArchiveAssumption DEF Held, FilesInOrder
<1> QED BY <1>7, <1>8, <1>9 DEF ArchiveInv

LEMMA WritingKeeps == ArchiveInv /\ WriteLine => ArchiveInv'
<1> SUFFICES ASSUME ArchiveInv, WriteLine PROVE ArchiveInv'
  OBVIOUS
<1> USE DriftArchiveAssumption
<1>1. FilesInOrder' /\ files'[Files] >= files[Files]
  <2>1. written' = written + 1 /\ files' = Rotated
    BY DEF WriteLine
  <2>2. FilesInOrder
    BY DEF ArchiveInv
  <2>3. CASE Rotated = files
    BY <2>1, <2>2, <2>3 DEF FilesInOrder
  <2>4. CASE Rotated = [i \in 1 .. Files |-> IF i = 1 THEN written ELSE files[i - 1]]
    <3>1. \A i \in 1 .. Files : /\ files'[i] \in 0 .. written + 1
                               /\ files[i] <= files'[i]
      BY <2>1, <2>2, <2>4 DEF FilesInOrder
    <3>2. \A i, j \in 1 .. Files : i <= j => files'[j] <= files'[i]
      BY <2>1, <2>2, <2>4 DEF FilesInOrder
    <3>3. files' \in [1 .. Files -> 0 .. written + 1]
      BY <2>1, <2>4, <3>1
    <3> QED BY <2>1, <2>2, <3>1, <3>2, <3>3 DEF FilesInOrder
  <2> QED BY <2>3, <2>4 DEF Rotated
<1>2. Held' \subseteq Held \union {written + 1}
  BY <1>1 DEF ArchiveInv, FilesInOrder, Held, WriteLine
<1>3. browser' = browser /\ written' = written + 1
  BY DEF WriteLine
<1>4. IsFiniteSet(browser.got) /\ Cardinality(browser.got) \in Nat
  <2>1. IsFiniteSet(1 .. written)
    BY CountedUpTo DEF ArchiveInv, FilesInOrder
  <2> QED BY <2>1, FS_Subset, FS_CardinalityType DEF ArchiveInv, LeftBehind
<1>5. LeftBehind'
  <2>1. ASSUME browser.pc \in {"more", "end"}, NEW k \in Held',
               k <= browser.began, k \notin browser.got
        PROVE  written' - k + 1 > Cardinality(browser.got)
    <3>1. k \in Held \/ k = written + 1
      BY <1>2
    <3>2. written \in Nat /\ browser.began \in 0 .. written /\ files[Files] \in Nat
      BY DEF ArchiveInv, FilesInOrder, LeftBehind
    <3>3. k \in Held
      BY <2>1, <3>1, <3>2
    <3>5. k \in Int
      BY <3>2, <3>3 DEF Held
    <3>4. written - k + 1 > Cardinality(browser.got)
      BY <2>1, <3>3 DEF ArchiveInv, LeftBehind
    <3> QED BY <1>3, <1>4, <3>2, <3>4, <3>5
  <2>2. browser.got \subseteq 1 .. written + 1 /\ browser.began \in 0 .. written + 1
    BY DEF ArchiveInv, FilesInOrder, LeftBehind
  <2> QED BY <1>3, <2>1, <2>2 DEF LeftBehind
<1>6. PagingMissesNothing'
  <2> SUFFICES ASSUME browser.pc = "end", NEW k \in Held', k <= browser.began
               PROVE  k \in browser.got
    BY <1>3 DEF PagingMissesNothing
  <2>1. k \in Held \/ k = written + 1
    BY <1>2
  <2>2. written \in Nat /\ browser.began \in 0 .. written
    BY DEF ArchiveInv, FilesInOrder, LeftBehind
  <2>3. k \in Held
    BY <2>1, <2>2
  <2> QED BY <2>3 DEF ArchiveInv, PagingMissesNothing
<1> QED BY <1>1, <1>5, <1>6 DEF ArchiveInv

\* Whoever pages to the end of the archive has had every line that was there at the start
\* and still is, however much is written and rotated between two pages.
THEOREM PagingComplete == ArchiveSpec => []PagingMissesNothing
<1>1. ArchiveInit => ArchiveInv
  BY DriftArchiveAssumption DEF ArchiveInit, ArchiveInv, FilesInOrder, LeftBehind, PagingMissesNothing,
     NoBrowser
<1>2. ArchiveInv /\ [ArchiveNext]_archiveVars => ArchiveInv'
  <2> SUFFICES ASSUME ArchiveInv, [ArchiveNext]_archiveVars PROVE ArchiveInv'
    OBVIOUS
  <2>1. CASE OpenArchive
    <3>1. Cardinality({}) = 0
      BY FS_EmptySet
    <3> QED
      BY <2>1, <3>1, ReadLeavesBehind DEF OpenArchive, ArchiveInv, FilesInOrder, Held
  <2>2. CASE NextPage
    BY <2>2, ReadLeavesBehind DEF NextPage, ArchiveInv, LeftBehind
  <2>3. CASE CloseArchive
    BY <2>3 DEF CloseArchive, NoBrowser, ArchiveInv, FilesInOrder, LeftBehind, PagingMissesNothing, Held
  <2>4. CASE UNCHANGED archiveVars
    BY <2>4 DEF archiveVars, ArchiveInv, FilesInOrder, LeftBehind, PagingMissesNothing, Held
  <2> QED BY <2>1, <2>2, <2>3, <2>4, WritingKeeps DEF ArchiveNext
<1>3. ArchiveInv => PagingMissesNothing
  BY DEF ArchiveInv
<1> QED BY <1>1, <1>2, <1>3, PTL DEF ArchiveSpec

(***************************************************************************)
(* DriftLog, for any number of passes that overlap and any caps. First what *)
(* everything is.                                                          *)
(***************************************************************************)

Entries == [id : Nat \ {0}, what : Findings, seen : Nat]

Streaks == [id : Nat \ {0}, shape : Shapes, passes : Nat]

Loadable == {<<>>} \union {<<r>> : r \in Entries \union Streaks}

FinderPcs == {"rest", "look", "enter", "prune", "cut", "streak", "record"}

Finders ==
    [pc : FinderPcs, what : Findings \union {NoFinding}, row : Loadable, cutoff : Nat]

DriftTyped ==
    /\ drift \in Seq(Entries) /\ recorded \in Seq(Streaks)
    /\ finder \in [Passes -> Finders]
    /\ \A p \in Passes :
          /\ finder[p].pc \in {"look", "enter"} => finder[p].what \in Findings
          /\ finder[p].pc = "enter" => finder[p].row \in {<<>>} \union {<<r>> : r \in Entries}
          /\ finder[p].pc = "record" => finder[p].row \in {<<>>} \union {<<r>> : r \in Streaks}

\* A pass that moves, with a row that goes with where it is then.
LEMMA MoveTyped ==
    ASSUME DriftTyped, NEW p \in Passes, NEW f \in Finders, finder' = [finder EXCEPT ![p] = f],
           f.pc \in {"look", "enter"} => f.what \in Findings,
           f.pc = "enter" => f.row \in {<<>>} \union {<<r>> : r \in Entries},
           f.pc = "record" => f.row \in {<<>>} \union {<<r>> : r \in Streaks},
           drift' \in Seq(Entries), recorded' \in Seq(Streaks)
    PROVE  DriftTyped' /\ finder'[p] = f
BY DEF DriftTyped

LEMMA LastOf ==
    ASSUME NEW S, NEW rows \in Seq(S), rows # <<>>
    PROVE  Last(rows) \in S /\ Last(rows) = rows[Len(rows)] /\ Len(rows) \in DOMAIN rows
           /\ Len(rows) \in Nat \ {0}
BY DEF Last

LEMMA LastIdTyped ==
    ASSUME NEW rows, rows \in Seq(Entries) \/ rows \in Seq(Streaks)
    PROVE  LastId(rows) \in Nat
<1>1. CASE rows = <<>>
  BY <1>1 DEF LastId
<1>2. CASE rows # <<>>
  <2>1. Last(rows) \in Entries \/ Last(rows) \in Streaks
    BY <1>2, LastOf
  <2>2. Last(rows).id \in Nat
    BY <2>1 DEF Entries, Streaks
  <2> QED BY <1>2, <2>2 DEF LastId
<1> QED BY <1>1, <1>2

LEMMA FindTyped ==
    ASSUME DriftTyped, NEW p \in Passes, NEW what \in Findings \union {NoFinding}, Find(p),
           finder' = [finder EXCEPT ![p] = [NoPassYet EXCEPT
               !.pc = IF what = NoFinding THEN "streak" ELSE "look", !.what = what]]
    PROVE  /\ DriftTyped'
           /\ finder'[p].pc = (IF what = NoFinding THEN "streak" ELSE "look")
           /\ finder'[p].what = what
<1> DEFINE pc == IF what = NoFinding THEN "streak" ELSE "look"
           f == [NoPassYet EXCEPT !.pc = pc, !.what = what]
<1>1. finder' = [finder EXCEPT ![p] = f]
  OBVIOUS
<1>2. pc \in {"streak", "look"} /\ (pc = "look" => what \in Findings)
  OBVIOUS
<1> HIDE DEF pc
<1>3. f \in Finders /\ f.pc = pc /\ f.what = what /\ f.row = <<>>
  <2> DEFINE W == Findings \union {NoFinding}
  <2>1. NoPassYet \in [pc : FinderPcs, what : W, row : Loadable, cutoff : Nat]
    BY DEF NoPassYet, Loadable, FinderPcs
  <2>2. what \in W /\ pc \in FinderPcs /\ NoPassYet.row = <<>>
    BY <1>2 DEF FinderPcs, NoPassYet
  <2> HIDE DEF W
  <2> QED BY <2>1, <2>2 DEF Finders, W
<1> HIDE DEF f
<1>4. DriftTyped' /\ finder'[p] = f
  BY <1>1, <1>2, <1>3, MoveTyped DEF Find, DriftTyped
<1> QED BY <1>3, <1>4 DEF pc

\* A pass where only its place and the row, or the cutoff, it holds are others.
WithRow(f, pc, row) == [f EXCEPT !.pc = pc, !.row = row]

WithCutoff(f, pc, cutoff) == [f EXCEPT !.pc = pc, !.cutoff = cutoff]

\* A pass that moves with another row, or with another cutoff.
LEMMA RowMoved ==
    ASSUME NEW f \in Finders, NEW pc \in FinderPcs, NEW row \in Loadable
    PROVE  /\ WithRow(f, pc, row) \in Finders
           /\ WithRow(f, pc, row).pc = pc
           /\ WithRow(f, pc, row).what = f.what
           /\ WithRow(f, pc, row).row = row
<1> DEFINE W == Findings \union {NoFinding}
<1> HIDE DEF W
<1>1. Finders = [pc : FinderPcs, what : W, row : Loadable, cutoff : Nat]
  BY DEF Finders, W
<1> QED BY <1>1 DEF WithRow

LEMMA CutoffMoved ==
    ASSUME NEW f \in Finders, NEW pc \in FinderPcs, NEW cutoff \in Nat
    PROVE  /\ WithCutoff(f, pc, cutoff) \in Finders
           /\ WithCutoff(f, pc, cutoff).pc = pc
           /\ WithCutoff(f, pc, cutoff).what = f.what
           /\ WithCutoff(f, pc, cutoff).cutoff = cutoff
<1> DEFINE W == Findings \union {NoFinding}
<1> HIDE DEF W
<1>1. Finders = [pc : FinderPcs, what : W, row : Loadable, cutoff : Nat]
  BY DEF Finders, W
<1> QED BY <1>1 DEF WithCutoff

LEMMA LookTyped ==
    ASSUME DriftTyped, NEW p \in Passes, LookForStanding(p)
    PROVE  /\ DriftTyped'
           /\ finder'[p].pc = "enter" /\ finder'[p].what = finder[p].what
           /\ finder'[p].row =
                 IF finder[p].what \in Refusals THEN Standing(finder[p].what) ELSE <<>>
<1> DEFINE row == IF finder[p].what \in Refusals THEN Standing(finder[p].what) ELSE <<>>
           f == WithRow(finder[p], "enter", row)
<1>1. finder[p] \in Finders /\ finder[p].what \in Findings
  BY DEF DriftTyped, LookForStanding
<1>2. row \in {<<>>} \union {<<r>> : r \in Entries}
  BY LastOf DEF Standing, DriftTyped
<1>3. row \in Loadable
  BY <1>2 DEF Loadable
<1>4. finder' = [finder EXCEPT ![p] = f]
  BY DEF LookForStanding, WithRow
<1> HIDE DEF row
<1>5. f \in Finders /\ f.pc = "enter" /\ f.what = finder[p].what /\ f.row = row
  <2>1. "enter" \in FinderPcs
    BY DEF FinderPcs
  <2> QED BY <1>1, <1>3, <2>1, RowMoved
<1> HIDE DEF f
<1>7. DriftTyped' /\ finder'[p] = f
  BY <1>1, <1>2, <1>4, <1>5, MoveTyped DEF LookForStanding, DriftTyped
<1> QED BY <1>5, <1>7 DEF row

\* The entries with another count for one id.
Recount(rows, id, n) ==
    [i \in DOMAIN rows |-> IF rows[i].id = id THEN [rows[i] EXCEPT !.seen = n] ELSE rows[i]]

LEMMA Recounted ==
    ASSUME NEW rows \in Seq(Entries), NEW id, NEW n \in Nat
    PROVE  /\ Recount(rows, id, n) \in Seq(Entries)
           /\ Len(Recount(rows, id, n)) = Len(rows)
           /\ \A i \in DOMAIN rows :
                 /\ Recount(rows, id, n)[i].id = rows[i].id
                 /\ Recount(rows, id, n)[i].what = rows[i].what
                 /\ Recount(rows, id, n)[i].seen = IF rows[i].id = id THEN n ELSE rows[i].seen
<1> DEFINE new == Recount(rows, id, n)
<1>1. Len(rows) \in Nat /\ DOMAIN rows = 1 .. Len(rows)
  OBVIOUS
<1>2. ASSUME NEW i \in DOMAIN rows
      PROVE  /\ new[i] \in Entries /\ new[i].id = rows[i].id /\ new[i].what = rows[i].what
             /\ new[i].seen = IF rows[i].id = id THEN n ELSE rows[i].seen
  <2>1. rows[i] \in Entries
    OBVIOUS
  <2>2. [rows[i] EXCEPT !.seen = n] \in Entries
    BY <2>1 DEF Entries
  <2> QED BY <1>2, <2>1, <2>2 DEF Recount, Entries
<1>3. new = [i \in 1 .. Len(rows) |-> new[i]]
  BY <1>1 DEF Recount
<1> HIDE DEF new
<1>4. new \in Seq(Entries) /\ Len(new) = Len(rows)
  BY <1>1, <1>2, <1>3, IsASeq
<1> QED BY <1>2, <1>4 DEF new

LEMMA EnterTyped ==
    ASSUME DriftTyped, NEW p \in Passes, EnterFinding(p)
    PROVE  DriftTyped' /\ finder'[p].pc \in {"prune", "rest"}
<1>1. finder[p] \in Finders /\ finder[p].pc = "enter" /\ finder[p].what \in Findings
      /\ finder[p].row \in {<<>>} \union {<<r>> : r \in Entries}
  BY DEF DriftTyped, EnterFinding
<1>2. CASE /\ finder' = [finder EXCEPT ![p].pc = "prune", ![p].row = <<>>]
           /\ drift' \in Seq(Entries)
  <2> DEFINE f == WithRow(finder[p], "prune", <<>>)
  <2>1. f \in Finders /\ f.pc = "prune" /\ finder' = [finder EXCEPT ![p] = f]
    <3>1. <<>> \in Loadable /\ "prune" \in FinderPcs
      BY DEF Loadable, FinderPcs
    <3>2. finder' = [finder EXCEPT ![p] = f]
      BY <1>2 DEF WithRow
    <3> QED BY <1>1, <3>1, <3>2, RowMoved
  <2> HIDE DEF f
  <2> QED BY <1>2, <2>1, MoveTyped DEF EnterFinding, DriftTyped
<1>3. CASE finder' = [finder EXCEPT ![p] = NoPassYet] /\ UNCHANGED drift
  <2>1. NoPassYet \in Finders /\ NoPassYet.pc = "rest"
    BY DEF NoPassYet, Finders, Loadable, FinderPcs
  <2> QED BY <1>3, <2>1, MoveTyped DEF EnterFinding, DriftTyped
<1>4. CASE /\ finder[p].row = <<>>
           /\ drift' = Append(drift, [id |-> LastId(drift) + 1, what |-> finder[p].what, seen |-> 1])
  <2>1. [id |-> LastId(drift) + 1, what |-> finder[p].what, seen |-> 1] \in Entries
    <3>1. LastId(drift) + 1 \in Nat \ {0}
      BY LastIdTyped DEF DriftTyped
    <3> QED BY <1>1, <3>1 DEF Entries
  <2>2. drift' \in Seq(Entries)
    BY <1>4, <2>1 DEF DriftTyped
  <2> QED BY <1>2, <1>4, <2>2 DEF EnterFinding
<1>5. CASE finder[p].row # <<>> /\ RowsWith(drift, finder[p].row[1].id) # {}
  <2>1. finder[p].row[1] \in Entries
    BY <1>1, <1>5
  <2>2. drift' \in Seq(Entries)
    <3>1. finder[p].row[1].seen + 1 \in Nat /\ drift \in Seq(Entries)
      BY <2>1 DEF Entries, DriftTyped
    <3>2. drift' = Recount(drift, finder[p].row[1].id, finder[p].row[1].seen + 1)
      BY <1>5 DEF EnterFinding, Recount
    <3> QED BY <3>1, <3>2, Recounted
  <2> QED BY <1>2, <1>5, <2>2 DEF EnterFinding
<1> QED BY <1>3, <1>4, <1>5 DEF EnterFinding

\* What is left when the oldest go.
LEMMA OldestGoneOf ==
    ASSUME NEW S, NEW rows \in Seq(S), NEW n \in 0 .. Len(rows)
    PROVE  /\ OldestGone(rows, n) \in Seq(S) /\ Len(OldestGone(rows, n)) = Len(rows) - n
           /\ \A i \in 1 .. Len(rows) - n : OldestGone(rows, n)[i] = rows[n + i]
BY SubSeqProperties DEF OldestGone

\* The rows up to an id are not all of them when the newest has a higher one.
LEMMA UpToCounted ==
    ASSUME NEW S, NEW rows \in Seq(S), NEW id
    PROVE  /\ Cardinality(RowsUpTo(rows, id)) \in 0 .. Len(rows)
           /\ (rows # <<>> /\ ~(Last(rows).id <= id) => Cardinality(RowsUpTo(rows, id)) < Len(rows))
<1> DEFINE all == 1 .. Len(rows)  old == RowsUpTo(rows, id)
<1>1. Len(rows) \in Nat /\ DOMAIN rows = all
  OBVIOUS
<1>2. IsFiniteSet(all) /\ Cardinality(all) = Len(rows)
  BY <1>1, CountedUpTo
<1>3. old \in SUBSET all
  BY <1>1 DEF RowsUpTo
<1>4. rows # <<>> /\ ~(Last(rows).id <= id) => Len(rows) \in all /\ Len(rows) \notin old
  BY <1>1 DEF RowsUpTo, Last
<1> HIDE DEF all, old
<1>5. /\ IsFiniteSet(old) /\ Cardinality(old) <= Cardinality(all)
      /\ (Cardinality(all) = Cardinality(old) => all = old)
  BY <1>2, <1>3, FS_Subset
<1>6. Cardinality(old) \in Nat
  BY <1>5, FS_CardinalityType
<1> QED BY <1>1, <1>2, <1>4, <1>5, <1>6 DEF old

LEMMA CutoffTyped ==
    ASSUME NEW rows \in Seq(Entries), NEW cap \in Nat, Len(rows) > cap
    PROVE  CutoffOf(rows, cap) \in Nat /\ Len(rows) - cap \in DOMAIN rows
<1>1. Len(rows) - cap \in DOMAIN rows
  OBVIOUS
<1>2. rows[Len(rows) - cap] \in Entries
  BY <1>1
<1> QED BY <1>1, <1>2 DEF CutoffOf, Entries

LEMMA ExcessTyped ==
    ASSUME DriftTyped, NEW p \in Passes, LookForExcess(p)
    PROVE  /\ DriftTyped'
           /\ finder'[p].pc = IF Len(drift) > MaxDriftEvents THEN "cut" ELSE "streak"
           /\ Len(drift) > MaxDriftEvents => finder'[p].cutoff = CutoffOf(drift, MaxDriftEvents)
<1> DEFINE pc == IF Len(drift) > MaxDriftEvents THEN "cut" ELSE "streak"
           cutoff == IF Len(drift) > MaxDriftEvents THEN CutoffOf(drift, MaxDriftEvents) ELSE 0
           f == WithCutoff(finder[p], pc, cutoff)
<1>1. finder[p] \in Finders /\ drift \in Seq(Entries)
  BY DEF DriftTyped
<1>2. cutoff \in Nat /\ pc \in FinderPcs /\ pc \notin {"look", "enter", "record"}
  BY <1>1, CutoffTyped, DriftLogAssumption DEF FinderPcs
<1>3. finder' = [finder EXCEPT ![p] = f]
  BY DEF LookForExcess, WithCutoff
<1>4. Len(drift) > MaxDriftEvents => cutoff = CutoffOf(drift, MaxDriftEvents)
  OBVIOUS
<1>5. pc = IF Len(drift) > MaxDriftEvents THEN "cut" ELSE "streak"
  OBVIOUS
<1> HIDE DEF pc, cutoff
<1>6. f \in Finders /\ f.pc = pc /\ f.cutoff = cutoff
  BY <1>1, <1>2, CutoffMoved
<1> HIDE DEF f
<1>7. DriftTyped' /\ finder'[p] = f
  BY <1>2, <1>3, <1>6, MoveTyped DEF LookForExcess, DriftTyped
<1> QED BY <1>4, <1>5, <1>6, <1>7

LEMMA CutTyped ==
    ASSUME DriftTyped, NEW p \in Passes, CutExcess(p)
    PROVE  DriftTyped' /\ finder'[p].pc = "streak"
<1> DEFINE f == WithCutoff(finder[p], "streak", 0)
<1>1. finder[p] \in Finders
  BY DEF DriftTyped
<1>2. finder' = [finder EXCEPT ![p] = f]
  BY DEF CutExcess, WithCutoff
<1>3. f \in Finders /\ f.pc = "streak"
  <2>1. "streak" \in FinderPcs
    BY DEF FinderPcs
  <2> QED BY <1>1, <2>1, CutoffMoved
<1>4. drift' \in Seq(Entries)
  BY UpToCounted, OldestGoneOf DEF CutExcess, DriftTyped
<1> HIDE DEF f
<1>5. DriftTyped' /\ finder'[p] = f
  BY <1>2, <1>3, <1>4, MoveTyped DEF CutExcess, DriftTyped
<1> QED BY <1>3, <1>5

LEMMA StreakTyped ==
    ASSUME DriftTyped, NEW p \in Passes, LookForStreak(p)
    PROVE  /\ DriftTyped'
           /\ finder'[p].pc = "record" /\ finder'[p].what = finder[p].what
           /\ finder'[p].row = IF recorded = <<>> THEN <<>> ELSE <<Last(recorded)>>
<1> DEFINE row == IF recorded = <<>> THEN <<>> ELSE <<Last(recorded)>>
           f == WithRow(finder[p], "record", row)
<1>1. finder[p] \in Finders
  BY DEF DriftTyped
<1>2. row \in {<<>>} \union {<<r>> : r \in Streaks}
  BY LastOf DEF DriftTyped
<1>3. row \in Loadable
  BY <1>2 DEF Loadable
<1>4. finder' = [finder EXCEPT ![p] = f]
  BY DEF LookForStreak, WithRow
<1> HIDE DEF row
<1>5. f \in Finders /\ f.pc = "record" /\ f.what = finder[p].what /\ f.row = row
  <2>1. "record" \in FinderPcs
    BY DEF FinderPcs
  <2> QED BY <1>1, <1>3, <2>1, RowMoved
<1> HIDE DEF f
<1>7. DriftTyped' /\ finder'[p] = f
  BY <1>1, <1>2, <1>4, <1>5, MoveTyped DEF LookForStreak, DriftTyped
<1> QED BY <1>5, <1>7 DEF row

\* The streaks with another count for one id.
StreakCounted(rows, id, n) ==
    [i \in DOMAIN rows |-> IF rows[i].id = id THEN [rows[i] EXCEPT !.passes = n] ELSE rows[i]]

\* It changes nothing but that count.
LEMMA StreaksRecounted ==
    ASSUME NEW rows \in Seq(Streaks), NEW id, NEW n \in Nat
    PROVE  /\ StreakCounted(rows, id, n) \in Seq(Streaks)
           /\ Len(StreakCounted(rows, id, n)) = Len(rows)
           /\ \A i \in DOMAIN rows :
                 /\ StreakCounted(rows, id, n)[i].id = rows[i].id
                 /\ StreakCounted(rows, id, n)[i].shape = rows[i].shape
                 /\ StreakCounted(rows, id, n)[i].passes = IF rows[i].id = id THEN n ELSE rows[i].passes
<1> DEFINE new == StreakCounted(rows, id, n)
<1>1. Len(rows) \in Nat /\ DOMAIN rows = 1 .. Len(rows)
  OBVIOUS
<1>2. ASSUME NEW i \in DOMAIN rows
      PROVE  /\ new[i] \in Streaks /\ new[i].id = rows[i].id /\ new[i].shape = rows[i].shape
             /\ new[i].passes = IF rows[i].id = id THEN n ELSE rows[i].passes
  <2>1. rows[i] \in Streaks
    OBVIOUS
  <2>2. [rows[i] EXCEPT !.passes = n] \in Streaks
    BY <2>1 DEF Streaks
  <2> QED BY <1>2, <2>1, <2>2 DEF StreakCounted, Streaks
<1>3. new = [i \in 1 .. Len(rows) |-> new[i]]
  BY <1>1 DEF StreakCounted
<1> HIDE DEF new
<1>4. new \in Seq(Streaks) /\ Len(new) = Len(rows)
  BY <1>1, <1>2, <1>3, IsASeq
<1> QED BY <1>2, <1>4 DEF new

LEMMA FoldedTyped ==
    ASSUME NEW row \in {<<>>} \union {<<r>> : r \in Streaks}, recorded \in Seq(Streaks), NEW what
    PROVE  Folded(row, what) \in Seq(Streaks)
<1>1. CASE SameStreak(row, what)
  <2>1. row[1].passes + 1 \in Nat
    BY <1>1 DEF SameStreak, Streaks
  <2>2. Folded(row, what) = StreakCounted(recorded, row[1].id, row[1].passes + 1)
    BY <1>1 DEF Folded, StreakCounted
  <2> QED BY <2>1, <2>2, StreaksRecounted
<1>2. CASE ~SameStreak(row, what)
  <2>1. Shape(what) \in Shapes
    BY DEF Shape, Shapes
  <2>2. LastId(recorded) + 1 \in Nat \ {0}
    BY LastIdTyped
  <2>3. [id |-> LastId(recorded) + 1, shape |-> Shape(what), passes |-> 1] \in Streaks
    BY <2>1, <2>2 DEF Streaks
  <2> QED BY <1>2, <2>3 DEF Folded
<1> QED BY <1>1, <1>2

LEMMA RecordTyped ==
    ASSUME DriftTyped, NEW p \in Passes, RecordStreak(p)
    PROVE  DriftTyped' /\ finder'[p].pc = "rest"
<1> DEFINE rows == Folded(finder[p].row, finder[p].what)
           excess == IF Len(rows) > MaxReconcileRuns THEN Len(rows) - MaxReconcileRuns ELSE 0
<1>1. NoPassYet \in Finders /\ NoPassYet.pc = "rest"
  BY DEF NoPassYet, Finders, Loadable, FinderPcs
<1>2. rows \in Seq(Streaks)
  BY FoldedTyped DEF DriftTyped, RecordStreak
<1>3. recorded' = OldestGone(rows, excess)
  BY DEF RecordStreak
<1> HIDE DEF rows
<1>4. excess \in 0 .. Len(rows)
  BY <1>2, DriftLogAssumption
<1> HIDE DEF excess
<1>5. recorded' \in Seq(Streaks)
  BY <1>2, <1>3, <1>4, OldestGoneOf
<1> QED BY <1>1, <1>5, MoveTyped DEF RecordStreak, DriftTyped

(***************************************************************************)
(* The entries. A sighting is archived before its pass looks for the entry *)
(* it repeats, so what an entry claims is at most what was archived without *)
(* the sightings of the passes on their way: each of these can add the one *)
(* it stands for. A pass that overlaps with others may count from a row it *)
(* loaded earlier, which then loses their sightings, never adds to them.   *)
(***************************************************************************)

Counting(w) == {p \in Passes : finder[p].pc \in {"look", "enter"} /\ finder[p].what = w}

Vouched(w) == sightings[w] - Cardinality(Counting(w))

Ascending(rows) == \A i, j \in DOMAIN rows : i < j => rows[i].id < rows[j].id

EachArchived ==
    /\ sightings \in [Findings -> Nat]
    /\ \A w \in Findings : Vouched(w) \in Nat

Supported == \A i \in DOMAIN drift : drift[i].seen <= Vouched(drift[i].what)

\* What a pass loaded is still the row under that id, or the row is gone for good.
LoadedTrue(f) ==
    f.pc = "enter" /\ f.row # <<>> =>
        /\ f.row[1].what = f.what
        /\ f.row[1].seen <= Vouched(f.what)
        /\ f.row[1].id <= LastId(drift)
        /\ \A i \in DOMAIN drift : drift[i].id = f.row[1].id => drift[i].what = f.what

CutSpares(f) == f.pc = "cut" => drift # <<>> /\ f.cutoff < LastId(drift)

PassesTrue == \A p \in Passes : LoadedTrue(finder[p]) /\ CutSpares(finder[p])

EntriesInv ==
    /\ DriftTyped /\ EachArchived
    /\ "cleared" \notin mishaps => Ascending(drift) /\ Supported /\ PassesTrue

LEMMA CountingTyped ==
    ASSUME NEW w PROVE IsFiniteSet(Counting(w)) /\ Cardinality(Counting(w)) \in Nat
BY FS_Subset, FS_CardinalityType, DriftLogAssumption DEF Counting

OnlyMoves(p) == \A q \in Passes \ {p} : finder'[q] = finder[q]

\* A pass that moves without beginning or ending its count.
LEMMA CountStands ==
    ASSUME EachArchived, NEW p \in Passes, OnlyMoves(p), UNCHANGED sightings,
           finder[p].pc \in {"look", "enter"} <=> finder'[p].pc \in {"look", "enter"},
           finder[p].pc \in {"look", "enter"} => finder'[p].what = finder[p].what
    PROVE  EachArchived' /\ \A w \in Findings : Vouched(w)' = Vouched(w)
<1>2. \A w \in Findings : Counting(w)' = Counting(w)
  BY DEF Counting, OnlyMoves
<1> QED BY <1>2 DEF EachArchived, Vouched

LEMMA VouchedStays ==
    ASSUME EachArchived, EachArchived', \A w \in Findings : Vouched(w)' >= Vouched(w),
           NEW w \in Findings, NEW n \in Nat, n <= Vouched(w)
    PROVE  n <= Vouched(w)'
BY DEF EachArchived

\* A pass that did not move still holds what is so, when the newest entry did not go and no
\* entry has come but with an id of its own.
LEMMA OthersTrue ==
    ASSUME DriftTyped, DriftTyped', EachArchived, EachArchived',
           \A w \in Findings : Vouched(w)' >= Vouched(w),
           NEW q \in Passes, finder'[q] = finder[q], LoadedTrue(finder[q]), CutSpares(finder[q]),
           drift # <<>> => drift' # <<>>, LastId(drift) <= LastId(drift'),
           \A i \in DOMAIN drift' :
              \/ drift'[i].id > LastId(drift)
              \/ \E j \in DOMAIN drift : drift[j].id = drift'[i].id /\ drift[j].what = drift'[i].what
    PROVE  LoadedTrue(finder[q])' /\ CutSpares(finder[q])'
<1>1. LastId(drift) \in Nat /\ LastId(drift') \in Nat
  BY LastIdTyped DEF DriftTyped
<1>2. finder[q] \in Finders
  BY DEF DriftTyped
<1>3. CutSpares(finder[q])'
  <2>1. finder[q].cutoff \in Nat
    BY <1>2 DEF Finders
  <2> QED BY <1>1, <2>1 DEF CutSpares
<1>4. LoadedTrue(finder[q])'
  <2> SUFFICES ASSUME NEW f \in Finders, f = finder[q], f = finder'[q], f.pc = "enter", f.row # <<>>
               PROVE  /\ f.row[1].what = f.what
                      /\ f.row[1].seen <= Vouched(f.what)'
                      /\ f.row[1].id <= LastId(drift')
                      /\ \A i \in DOMAIN drift' : drift'[i].id = f.row[1].id => drift'[i].what = f.what
    <3>1. finder[q] \in Finders /\ finder'[q] = finder[q]
      BY <1>2
    <3> QED BY <3>1 DEF LoadedTrue
  <2>1. f.row[1] \in Entries /\ f.what \in Findings
    BY DEF DriftTyped
  <2>2. /\ f.row[1].what = f.what /\ f.row[1].seen <= Vouched(f.what) /\ f.row[1].id <= LastId(drift)
        /\ \A i \in DOMAIN drift : drift[i].id = f.row[1].id => drift[i].what = f.what
    BY DEF LoadedTrue
  <2>3. f.row[1].seen \in Nat /\ f.row[1].id \in Nat
    BY <2>1 DEF Entries
  <2>4. f.row[1].seen <= Vouched(f.what)'
    BY <2>1, <2>2, <2>3, VouchedStays
  <2>5. f.row[1].id <= LastId(drift')
    BY <1>1, <2>2, <2>3
  <2>6. ASSUME NEW i \in DOMAIN drift', drift'[i].id = f.row[1].id PROVE drift'[i].what = f.what
    BY <1>1, <2>2, <2>3, <2>6
  <2> QED BY <2>2, <2>4, <2>5, <2>6
<1> QED BY <1>3, <1>4

\* The log as it was, but for what is vouched for.
LEMMA SupportStays ==
    ASSUME DriftTyped, EachArchived, EachArchived', Supported, UNCHANGED drift,
           \A w \in Findings : Vouched(w)' >= Vouched(w)
    PROVE  Supported'
<1>1. ASSUME NEW i \in DOMAIN drift, NEW w \in Findings, w = drift[i].what
      PROVE  drift[i].seen <= Vouched(w)'
  <2>1. drift[i] \in Entries
    BY DEF DriftTyped
  <2>2. drift[i].seen \in Nat /\ drift[i].seen <= Vouched(w)
    BY <1>1, <2>1 DEF Supported, Entries
  <2> QED BY <2>2, VouchedStays
<1>2. \A i \in DOMAIN drift : drift[i] \in Entries
  BY DEF DriftTyped
<1>3. \A i \in DOMAIN drift : drift[i].what \in Findings
  BY <1>2 DEF Entries
<1> QED BY <1>1, <1>3 DEF Supported

\* One pass moves and the log is as it was.
LEMMA OneMoves ==
    ASSUME EntriesInv, NEW p \in Passes, OnlyMoves(p), DriftTyped', EachArchived',
           \A w \in Findings : Vouched(w)' >= Vouched(w),
           UNCHANGED drift, mishaps \subseteq mishaps',
           "cleared" \notin mishaps => LoadedTrue(finder[p])' /\ CutSpares(finder[p])'
    PROVE  EntriesInv'
<1>1. ASSUME "cleared" \notin mishaps' PROVE Ascending(drift)' /\ Supported' /\ PassesTrue'
  <2>1. Ascending(drift) /\ Supported /\ PassesTrue /\ "cleared" \notin mishaps
    BY <1>1 DEF EntriesInv
  <2>2. Ascending(drift)' /\ Supported'
    BY <2>1, SupportStays DEF Ascending, EntriesInv
  <2>3. ASSUME NEW q \in Passes, q # p PROVE LoadedTrue(finder[q])' /\ CutSpares(finder[q])'
    <3>1. finder'[q] = finder[q] /\ LoadedTrue(finder[q]) /\ CutSpares(finder[q])
      BY <2>1, <2>3 DEF OnlyMoves, PassesTrue
    <3>2. LastId(drift) <= LastId(drift)
      BY LastIdTyped DEF EntriesInv, DriftTyped
    <3> QED BY <3>1, <3>2, OthersTrue DEF EntriesInv
  <2> QED BY <2>1, <2>2, <2>3 DEF PassesTrue
<1> QED BY <1>1 DEF EntriesInv

LEMMA FindKeepsEntries ==
    ASSUME EntriesInv, NEW p \in Passes, Find(p) PROVE EntriesInv'
<1> PICK what \in Findings \union {NoFinding} :
        /\ finder' = [finder EXCEPT ![p] = [NoPassYet EXCEPT
               !.pc = IF what = NoFinding THEN "streak" ELSE "look", !.what = what]]
        /\ sightings' = Archived(what)
  BY DEF Find
<1>1. finder[p].pc = "rest" /\ UNCHANGED drift /\ mishaps \subseteq mishaps'
  BY DEF Find, PassUnderway
<1>2. /\ DriftTyped'
      /\ finder'[p].pc = (IF what = NoFinding THEN "streak" ELSE "look")
      /\ finder'[p].what = what
  BY FindTyped DEF EntriesInv
<1>3. OnlyMoves(p)
  BY DEF EntriesInv, DriftTyped, OnlyMoves
<1>4. sightings' \in [Findings -> Nat]
  BY DEF EntriesInv, EachArchived, Archived
<1>5. \A v \in Findings : Vouched(v)' = Vouched(v)
  <2> TAKE v \in Findings
  <2>1. CASE v = what /\ what # NoFinding
    <3>1. Counting(v)' = Counting(v) \union {p} /\ p \notin Counting(v)
      BY <1>1, <1>3, <1>2, <2>1 DEF Counting, OnlyMoves
    <3>2. Cardinality(Counting(v)') = Cardinality(Counting(v)) + 1
      BY <3>1, CountingTyped, FS_AddElement
    <3>3. sightings'[v] = sightings[v] + 1 /\ sightings[v] \in Nat
      BY <2>1 DEF EntriesInv, EachArchived, Archived
    <3> QED BY <3>2, <3>3, CountingTyped DEF Vouched
  <2>2. CASE v # what \/ what = NoFinding
    <3>1. Counting(v)' = Counting(v)
      BY <1>1, <1>3, <1>2, <2>2 DEF Counting, OnlyMoves
    <3>2. sightings'[v] = sightings[v]
      BY <2>2 DEF EntriesInv, EachArchived, Archived
    <3> QED BY <3>1, <3>2 DEF Vouched
  <2> QED BY <2>1, <2>2
<1>6. EachArchived' /\ \A v \in Findings : Vouched(v)' >= Vouched(v)
  BY <1>4, <1>5 DEF EntriesInv, EachArchived
<1>7. LoadedTrue(finder[p])' /\ CutSpares(finder[p])'
  BY <1>2 DEF LoadedTrue, CutSpares
<1> QED BY <1>1, <1>2, <1>3, <1>6, <1>7, OneMoves

LEMMA LookKeepsEntries ==
    ASSUME EntriesInv, NEW p \in Passes, LookForStanding(p) PROVE EntriesInv'
<1>1. /\ DriftTyped'
      /\ finder'[p].pc = "enter" /\ finder'[p].what = finder[p].what
      /\ finder'[p].row =
            IF finder[p].what \in Refusals THEN Standing(finder[p].what) ELSE <<>>
  BY LookTyped DEF EntriesInv
<1>2. finder[p].pc = "look" /\ UNCHANGED <<drift, sightings, mishaps>> /\ OnlyMoves(p)
  BY DEF LookForStanding, OnlyMoves, EntriesInv, DriftTyped
<1>3. EachArchived' /\ \A w \in Findings : Vouched(w)' = Vouched(w)
  BY <1>1, <1>2, CountStands DEF EntriesInv
<1>4. \A w \in Findings : Vouched(w)' >= Vouched(w)
  BY <1>3 DEF EntriesInv, EachArchived
<1>5. ASSUME "cleared" \notin mishaps PROVE LoadedTrue(finder[p])'
  <2> SUFFICES ASSUME NEW f, f = finder'[p], f.row # <<>>
               PROVE  /\ f.row[1].what = f.what /\ f.row[1].seen <= Vouched(f.what)'
                      /\ f.row[1].id <= LastId(drift)
                      /\ \A i \in DOMAIN drift : drift[i].id = f.row[1].id => drift[i].what = f.what
    BY <1>2 DEF LoadedTrue, LastId
  <2>1. drift # <<>> /\ Last(drift).what = f.what /\ f.row[1] = Last(drift)
    BY <1>1 DEF Standing
  <2>2. drift \in Seq(Entries) /\ Ascending(drift) /\ Supported
    BY <1>5 DEF EntriesInv, DriftTyped
  <2>3. /\ f.row[1] = drift[Len(drift)] /\ f.row[1] \in Entries /\ Len(drift) \in DOMAIN drift
        /\ Len(drift) \in Nat
    BY <2>1, <2>2, LastOf
  <2>4. f.what \in Findings /\ f.row[1].seen \in Nat /\ f.row[1].id \in Nat
    BY <2>1, <2>3 DEF Entries
  <2>5. f.row[1].seen <= Vouched(f.what)'
    <3>1. f.row[1].seen <= Vouched(f.what)
      BY <2>1, <2>2, <2>3 DEF Supported
    <3> QED BY <1>3, <2>4, <3>1
  <2>6. f.row[1].id <= LastId(drift)
    BY <2>1, <2>4 DEF LastId
  <2>7. ASSUME NEW i \in DOMAIN drift, drift[i].id = f.row[1].id PROVE drift[i].what = f.what
    <3>1. i = Len(drift)
      BY <2>2, <2>3, <2>4, <2>7 DEF Ascending
    <3> QED BY <2>1, <2>3, <3>1
  <2> QED BY <2>1, <2>5, <2>6, <2>7
<1>6. CutSpares(finder[p])'
  BY <1>1 DEF CutSpares
<1> QED BY <1>1, <1>2, <1>3, <1>4, <1>5, <1>6, OneMoves

LEMMA ExcessKeepsEntries ==
    ASSUME EntriesInv, NEW p \in Passes, LookForExcess(p) PROVE EntriesInv'
<1>1. /\ DriftTyped'
      /\ finder'[p].pc = IF Len(drift) > MaxDriftEvents THEN "cut" ELSE "streak"
      /\ Len(drift) > MaxDriftEvents => finder'[p].cutoff = CutoffOf(drift, MaxDriftEvents)
  BY ExcessTyped DEF EntriesInv
<1>2. finder[p].pc = "prune" /\ UNCHANGED <<drift, sightings, mishaps>> /\ OnlyMoves(p)
  BY DEF LookForExcess, OnlyMoves, EntriesInv, DriftTyped
<1>3. EachArchived' /\ \A w \in Findings : Vouched(w)' = Vouched(w)
  BY <1>1, <1>2, CountStands DEF EntriesInv
<1>4. \A w \in Findings : Vouched(w)' >= Vouched(w)
  BY <1>3 DEF EntriesInv, EachArchived
<1>5. ASSUME "cleared" \notin mishaps, Len(drift) > MaxDriftEvents
      PROVE  drift # <<>> /\ CutoffOf(drift, MaxDriftEvents) < LastId(drift)
  <2>1. drift \in Seq(Entries) /\ Ascending(drift)
    BY <1>5 DEF EntriesInv, DriftTyped
  <2>2. drift # <<>>
    BY <1>5, <2>1, DriftLogAssumption
  <2>3. Last(drift) = drift[Len(drift)] /\ Len(drift) \in DOMAIN drift /\ Len(drift) \in Nat
    BY <2>1, <2>2, LastOf
  <2>4. Len(drift) - MaxDriftEvents \in DOMAIN drift /\ Len(drift) - MaxDriftEvents < Len(drift)
    BY <1>5, <2>1, <2>3, CutoffTyped, DriftLogAssumption
  <2> QED BY <2>1, <2>2, <2>3, <2>4 DEF Ascending, CutoffOf, LastId
<1>6. ASSUME "cleared" \notin mishaps PROVE LoadedTrue(finder[p])' /\ CutSpares(finder[p])'
  BY <1>1, <1>2, <1>5, <1>6 DEF LoadedTrue, CutSpares, LastId
<1> QED BY <1>1, <1>2, <1>3, <1>4, <1>6, OneMoves

LEMMA StreaksKeepEntries ==
    ASSUME EntriesInv, NEW p \in Passes, LookForStreak(p) \/ RecordStreak(p) PROVE EntriesInv'
<1>1. DriftTyped' /\ finder'[p].pc \in {"record", "rest"}
  BY StreakTyped, RecordTyped DEF EntriesInv
<1>2. /\ finder[p].pc \in {"streak", "record"} /\ UNCHANGED <<drift, sightings, mishaps>>
      /\ OnlyMoves(p)
  BY DEF LookForStreak, RecordStreak, OnlyMoves, EntriesInv, DriftTyped
<1>3. EachArchived' /\ \A w \in Findings : Vouched(w)' = Vouched(w)
  BY <1>1, <1>2, CountStands DEF EntriesInv
<1>4. \A w \in Findings : Vouched(w)' >= Vouched(w)
  BY <1>3 DEF EntriesInv, EachArchived
<1>5. LoadedTrue(finder[p])' /\ CutSpares(finder[p])'
  BY <1>1 DEF LoadedTrue, CutSpares
<1> QED BY <1>1, <1>2, <1>3, <1>4, <1>5, OneMoves

\* One pass moves and the log with it.
LEMMA LogMoves ==
    ASSUME EntriesInv, NEW p \in Passes, OnlyMoves(p), DriftTyped', EachArchived',
           \A w \in Findings : Vouched(w)' >= Vouched(w), UNCHANGED mishaps,
           LoadedTrue(finder[p])', CutSpares(finder[p])',
           "cleared" \notin mishaps =>
              /\ Ascending(drift') /\ Supported'
              /\ drift # <<>> => drift' # <<>>
              /\ LastId(drift) <= LastId(drift')
              /\ \A i \in DOMAIN drift' :
                    \/ drift'[i].id > LastId(drift)
                    \/ \E j \in DOMAIN drift :
                          drift[j].id = drift'[i].id /\ drift[j].what = drift'[i].what
    PROVE  EntriesInv'
<1>1. ASSUME "cleared" \notin mishaps PROVE Ascending(drift') /\ Supported' /\ PassesTrue'
  <2>1. PassesTrue
    BY <1>1 DEF EntriesInv
  <2>2. ASSUME NEW q \in Passes, q # p PROVE LoadedTrue(finder[q])' /\ CutSpares(finder[q])'
    <3>1. finder'[q] = finder[q] /\ LoadedTrue(finder[q]) /\ CutSpares(finder[q])
      BY <2>1, <2>2 DEF OnlyMoves, PassesTrue
    <3> QED BY <1>1, <3>1, OthersTrue DEF EntriesInv
  <2> QED BY <1>1, <2>2 DEF PassesTrue
<1>2. Ascending(drift)' <=> Ascending(drift')
  BY DEF Ascending
<1> QED BY <1>1, <1>2 DEF EntriesInv

LEMMA EnterKeepsEntries ==
    ASSUME EntriesInv, NEW p \in Passes, EnterFinding(p) PROVE EntriesInv'
<1>1. DriftTyped' /\ finder'[p].pc \in {"prune", "rest"}
  BY EnterTyped DEF EntriesInv
<1>2. finder[p].pc = "enter" /\ UNCHANGED <<sightings, mishaps>> /\ OnlyMoves(p)
  BY DEF EnterFinding, OnlyMoves, EntriesInv, DriftTyped
<1> DEFINE row == finder[p].row
<1>3. PICK what \in Findings : what = finder[p].what
  BY <1>2 DEF EntriesInv, DriftTyped
<1>4. /\ EachArchived' /\ Vouched(what)' = Vouched(what) + 1
      /\ \A w \in Findings \ {what} : Vouched(w)' = Vouched(w)
  <2>1. Counting(what)' = Counting(what) \ {p} /\ p \in Counting(what)
    BY <1>1, <1>2, <1>3 DEF Counting, OnlyMoves
  <2>2. Cardinality(Counting(what)') = Cardinality(Counting(what)) - 1
    BY <2>1, CountingTyped, FS_RemoveElement
  <2>3. sightings' = sightings /\ sightings[what] \in Nat /\ Vouched(what) \in Nat
    BY <1>2 DEF EntriesInv, EachArchived
  <2>4. Vouched(what)' = Vouched(what) + 1
    BY <2>2, <2>3, CountingTyped DEF Vouched
  <2>5. \A w \in Findings \ {what} : Counting(w)' = Counting(w)
    BY <1>1, <1>2, <1>3 DEF Counting, OnlyMoves
  <2>6. \A w \in Findings \ {what} : Vouched(w)' = Vouched(w)
    BY <2>3, <2>5 DEF Vouched
  <2> QED BY <2>3, <2>4, <2>6 DEF EachArchived, EntriesInv
<1>5. \A w \in Findings : Vouched(w)' >= Vouched(w)
  BY <1>4 DEF EntriesInv, EachArchived
<1>6. LoadedTrue(finder[p])' /\ CutSpares(finder[p])'
  BY <1>1 DEF LoadedTrue, CutSpares
<1>7. drift \in Seq(Entries) /\ Len(drift) \in Nat /\ LastId(drift) \in Nat
  BY LastIdTyped DEF EntriesInv, DriftTyped
<1>8. ASSUME row # <<>>, RowsWith(drift, row[1].id) = {} PROVE EntriesInv'
  <2>1. UNCHANGED drift
    BY <1>8 DEF EnterFinding
  <2> QED BY <1>1, <1>2, <1>4, <1>5, <1>6, <2>1, OneMoves
<1>9. ASSUME row = <<>> PROVE EntriesInv'
  <2> DEFINE e == [id |-> LastId(drift) + 1, what |-> what, seen |-> 1]
  <2>1. drift' = Append(drift, e)
    BY <1>3, <1>9 DEF EnterFinding
  <2>2. e.id = LastId(drift) + 1 /\ e.what = what /\ e.seen = 1
    OBVIOUS
  <2> HIDE DEF e
  <2>3. /\ Len(drift') = Len(drift) + 1 /\ DOMAIN drift' = 1 .. Len(drift) + 1
        /\ DOMAIN drift = 1 .. Len(drift)
        /\ drift'[Len(drift) + 1] = e /\ \A i \in DOMAIN drift : drift'[i] = drift[i]
    BY <1>7, <2>1
  <2>4. LastId(drift') = LastId(drift) + 1 /\ drift' # <<>>
    BY <1>7, <2>1, <2>2, <2>3 DEF LastId, Last
  <2>5. ASSUME "cleared" \notin mishaps PROVE Ascending(drift')
    <3>1. Ascending(drift)
      BY <2>5 DEF EntriesInv
    <3>2. \A i \in DOMAIN drift : drift[i].id <= LastId(drift) /\ drift[i].id \in Nat
      <4> TAKE i \in DOMAIN drift
      <4>1. drift # <<>> /\ drift[i] \in Entries /\ drift[Len(drift)] \in Entries
        BY <1>7, <2>3
      <4>2. LastId(drift) = drift[Len(drift)].id
        BY <4>1 DEF LastId, Last
      <4>3. drift[i].id \in Nat /\ drift[Len(drift)].id \in Nat
        BY <4>1 DEF Entries
      <4>4. i = Len(drift) \/ (i < Len(drift) /\ Len(drift) \in DOMAIN drift)
        BY <1>7, <2>3
      <4>5. i < Len(drift) /\ Len(drift) \in DOMAIN drift => drift[i].id < drift[Len(drift)].id
        BY <3>1 DEF Ascending
      <4> QED BY <4>2, <4>3, <4>4, <4>5
    <3> QED BY <1>7, <2>2, <2>3, <3>1, <3>2 DEF Ascending
  <2>6. ASSUME "cleared" \notin mishaps PROVE Supported'
    <3> SUFFICES ASSUME NEW i \in DOMAIN drift', NEW w \in Findings, w = drift'[i].what
                 PROVE  drift'[i].seen <= Vouched(w)'
      <4>1. \A i \in DOMAIN drift' : drift'[i] \in Entries
        BY <1>1 DEF DriftTyped
      <4>2. \A i \in DOMAIN drift' : drift'[i].what \in Findings
        BY <4>1 DEF Entries
      <4> QED BY <4>2 DEF Supported
    <3>1. CASE i = Len(drift) + 1
      <4>1. w = what /\ drift'[i].seen = 1
        BY <2>2, <2>3, <3>1
      <4> QED BY <1>4, <4>1 DEF EntriesInv, EachArchived
    <3>2. CASE i \in DOMAIN drift
      <4>0. drift[i] \in Entries
        BY <1>7, <3>2
      <4>1. drift'[i].seen = drift[i].seen /\ drift[i].seen \in Nat /\ w = drift[i].what
        BY <2>3, <3>2, <4>0 DEF Entries
      <4>2. drift[i].seen <= Vouched(w)
        BY <2>6, <3>2, <4>1 DEF EntriesInv, Supported
      <4> QED BY <1>4, <1>5, <4>1, <4>2, VouchedStays DEF EntriesInv
    <3> QED BY <1>7, <2>3, <3>1, <3>2
  <2>7. \A i \in DOMAIN drift' :
           \/ drift'[i].id > LastId(drift)
           \/ \E j \in DOMAIN drift : drift[j].id = drift'[i].id /\ drift[j].what = drift'[i].what
    BY <1>7, <2>2, <2>3
  <2>8. LastId(drift) <= LastId(drift')
    BY <1>7, <2>4
  <2> QED BY <1>1, <1>2, <1>4, <1>5, <1>6, <2>4, <2>5, <2>6, <2>7, <2>8, LogMoves
<1>10. ASSUME row # <<>>, RowsWith(drift, row[1].id) # {} PROVE EntriesInv'
  <2> DEFINE id == row[1].id  n == row[1].seen + 1
  <2>1. drift' = Recount(drift, id, n)
    BY <1>10 DEF EnterFinding, Recount
  <2>2. row[1] \in Entries
    BY <1>2, <1>10 DEF EntriesInv, DriftTyped
  <2>3. n \in Nat /\ n = row[1].seen + 1 /\ row[1].seen \in Nat
    BY <2>2 DEF Entries
  <2> HIDE DEF id, n
  <2>4. /\ Len(drift') = Len(drift) /\ DOMAIN drift' = DOMAIN drift
        /\ \A i \in DOMAIN drift :
              /\ drift'[i].id = drift[i].id /\ drift'[i].what = drift[i].what
              /\ drift'[i].seen = IF drift[i].id = id THEN n ELSE drift[i].seen
    <3>1. drift' \in Seq(Entries) /\ Len(drift') = Len(drift)
      <4> drift \in Seq(Entries) /\ n \in Nat
        BY <1>7, <2>3
      <4> QED BY <2>1, Recounted
    <3>2. DOMAIN drift' = DOMAIN drift
      BY <1>7, <3>1
    <3>3. \A i \in DOMAIN drift :
              /\ drift'[i].id = drift[i].id /\ drift'[i].what = drift[i].what
              /\ drift'[i].seen = IF drift[i].id = id THEN n ELSE drift[i].seen
      <4> drift \in Seq(Entries) /\ n \in Nat
        BY <1>7, <2>3
      <4> QED BY <2>1, Recounted
    <3> QED BY <3>1, <3>2, <3>3
  <2>5. (drift # <<>> => drift' # <<>>) /\ LastId(drift') = LastId(drift)
    <3>1. CASE drift = <<>>
      <4>1. drift' = <<>>
        BY <1>7, <2>4, <3>1, EmptySeq
      <4> QED BY <3>1, <4>1
    <3>2. CASE drift # <<>>
      <4>1. drift' # <<>> /\ Len(drift) \in DOMAIN drift
        BY <1>7, <2>4, <3>2
      <4> QED BY <2>4, <3>2, <4>1 DEF LastId, Last
    <3> QED BY <3>1, <3>2
  <2>6. ASSUME "cleared" \notin mishaps PROVE Ascending(drift')
    BY <2>4, <2>6 DEF EntriesInv, Ascending
  <2>7. ASSUME "cleared" \notin mishaps PROVE Supported'
    <3> SUFFICES ASSUME NEW i \in DOMAIN drift, NEW w \in Findings, w = drift[i].what
                 PROVE  drift'[i].seen <= Vouched(w)'
      <4>1. \A i \in DOMAIN drift : drift[i] \in Entries
        BY <1>7
      <4>2. \A i \in DOMAIN drift : drift[i].what \in Findings /\ drift'[i].what = drift[i].what
        BY <2>4, <4>1 DEF Entries
      <4> QED BY <2>4, <4>2 DEF Supported
    <3>1. CASE drift[i].id = id
      <4>1. LoadedTrue(finder[p])
        BY <2>7 DEF EntriesInv, PassesTrue
      <4>2. w = what /\ row[1].seen <= Vouched(what)
        BY <1>2, <1>3, <1>10, <3>1, <4>1 DEF LoadedTrue, id
      <4>3. drift'[i].seen = row[1].seen + 1
        BY <2>3, <2>4, <3>1
      <4> QED BY <1>4, <2>3, <4>2, <4>3 DEF EntriesInv, EachArchived
    <3>2. CASE drift[i].id # id
      <4>0. drift[i] \in Entries
        BY <1>7
      <4>1. drift'[i].seen = drift[i].seen /\ drift[i].seen \in Nat
        BY <2>4, <3>2, <4>0 DEF Entries
      <4>2. drift[i].seen <= Vouched(w)
        BY <2>7 DEF EntriesInv, Supported
      <4> QED BY <1>4, <1>5, <4>1, <4>2, VouchedStays DEF EntriesInv
    <3> QED BY <3>1, <3>2
  <2>8. \A i \in DOMAIN drift' :
           \E j \in DOMAIN drift : drift[j].id = drift'[i].id /\ drift[j].what = drift'[i].what
    BY <2>4
  <2>9. LastId(drift) <= LastId(drift')
    BY <1>7, <2>5
  <2> QED BY <1>1, <1>2, <1>4, <1>5, <1>6, <2>5, <2>6, <2>7, <2>8, <2>9, LogMoves
<1> QED BY <1>8, <1>9, <1>10

LEMMA CutKeepsEntries ==
    ASSUME EntriesInv, NEW p \in Passes, CutExcess(p) PROVE EntriesInv'
<1>1. DriftTyped' /\ finder'[p].pc = "streak"
  BY CutTyped DEF EntriesInv
<1>2. finder[p].pc = "cut" /\ UNCHANGED <<sightings, mishaps>> /\ OnlyMoves(p)
  BY DEF CutExcess, OnlyMoves, EntriesInv, DriftTyped
<1>3. EachArchived' /\ \A w \in Findings : Vouched(w)' = Vouched(w)
  BY <1>1, <1>2, CountStands DEF EntriesInv
<1>4. \A w \in Findings : Vouched(w)' >= Vouched(w)
  BY <1>3 DEF EntriesInv, EachArchived
<1>5. LoadedTrue(finder[p])' /\ CutSpares(finder[p])'
  BY <1>1 DEF LoadedTrue, CutSpares
<1>6. ASSUME "cleared" \notin mishaps
      PROVE  /\ Ascending(drift') /\ Supported'
             /\ drift # <<>> => drift' # <<>>
             /\ LastId(drift) <= LastId(drift')
             /\ \A i \in DOMAIN drift' :
                   \E j \in DOMAIN drift :
                      drift[j].id = drift'[i].id /\ drift[j].what = drift'[i].what
  <2> DEFINE n == Cardinality(RowsUpTo(drift, finder[p].cutoff))
  <2>1. drift' = OldestGone(drift, n)
    BY DEF CutExcess
  <2>2. drift \in Seq(Entries) /\ Ascending(drift) /\ Supported /\ CutSpares(finder[p])
    BY <1>6 DEF EntriesInv, DriftTyped, PassesTrue
  <2>3. drift # <<>> /\ finder[p].cutoff < LastId(drift)
    BY <1>2, <2>2 DEF CutSpares
  <2>4. n \in 0 .. Len(drift) /\ n < Len(drift) /\ Len(drift) \in Nat
    <3>1. Last(drift) \in Entries /\ Last(drift).id = LastId(drift)
      BY <2>2, <2>3, LastOf DEF LastId
    <3>2. finder[p].cutoff \in Nat /\ Last(drift).id \in Nat
      BY <3>1 DEF EntriesInv, DriftTyped, Finders, Entries
    <3>3. ~(Last(drift).id <= finder[p].cutoff)
      BY <2>3, <3>1, <3>2
    <3> QED BY <2>2, <2>3, <3>3, UpToCounted
  <2> HIDE DEF n
  <2>5. /\ drift' \in Seq(Entries) /\ Len(drift') = Len(drift) - n
        /\ DOMAIN drift' = 1 .. Len(drift) - n /\ DOMAIN drift = 1 .. Len(drift)
        /\ \A i \in 1 .. Len(drift) - n : drift'[i] = drift[n + i]
    <3>1. /\ drift' \in Seq(Entries) /\ Len(drift') = Len(drift) - n
          /\ \A i \in 1 .. Len(drift) - n : drift'[i] = drift[n + i]
      BY <2>1, <2>2, <2>4, OldestGoneOf
    <3> QED BY <2>2, <3>1
  <2>6. drift' # <<>> /\ LastId(drift') = LastId(drift)
    <3>1. drift' # <<>> /\ Len(drift) - n \in 1 .. Len(drift) - n
      BY <2>4, <2>5
    <3>2. drift'[Len(drift')] = drift[Len(drift)]
      BY <2>4, <2>5, <3>1
    <3> QED BY <2>3, <3>1, <3>2 DEF LastId, Last
  <2>7. LastId(drift) <= LastId(drift')
    BY <2>2, <2>6, LastIdTyped
  <2>8. \A i \in DOMAIN drift' : n + i \in DOMAIN drift /\ drift'[i] = drift[n + i]
    BY <2>4, <2>5
  <2>9. Ascending(drift')
    <3> SUFFICES ASSUME NEW i \in DOMAIN drift', NEW j \in DOMAIN drift', i < j
                 PROVE  drift'[i].id < drift'[j].id
      BY DEF Ascending
    <3>1. n + i < n + j
      BY <2>4, <2>5
    <3> QED BY <2>2, <2>8, <3>1 DEF Ascending
  <2>10. Supported'
    <3> SUFFICES ASSUME NEW i \in DOMAIN drift', NEW w \in Findings, w = drift'[i].what
                 PROVE  drift'[i].seen <= Vouched(w)'
      <4>1. \A i \in DOMAIN drift' : drift'[i] \in Entries
        BY <2>5
      <4>2. \A i \in DOMAIN drift' : drift'[i].what \in Findings
        BY <4>1 DEF Entries
      <4> QED BY <4>2 DEF Supported
    <3>1. drift'[i].seen <= Vouched(w)
      BY <2>2, <2>8 DEF Supported
    <3> QED BY <1>3, <3>1
  <2> QED BY <2>6, <2>7, <2>8, <2>9, <2>10
<1> QED BY <1>1, <1>2, <1>3, <1>4, <1>5, <1>6, LogMoves

LEMMA ClearKeepsEntries ==
    ASSUME EntriesInv, ClearDrift PROVE EntriesInv'
<1>1. drift' = <<>> /\ UNCHANGED <<finder, sightings, recorded>>
  BY DEF ClearDrift
<1>2. DriftTyped'
  BY <1>1 DEF DriftTyped, EntriesInv
<1>3. EachArchived'
  BY <1>1 DEF EachArchived, EntriesInv, Vouched, Counting
<1>4. "cleared" \notin mishaps' => \A p \in Passes : finder[p].pc \notin {"enter", "cut"}
  BY DEF ClearDrift
<1>5. Ascending(drift)' /\ Supported'
  BY <1>1 DEF Ascending, Supported
<1>6. "cleared" \notin mishaps' => PassesTrue'
  BY <1>1, <1>4 DEF PassesTrue, LoadedTrue, CutSpares
<1> QED BY <1>2, <1>3, <1>5, <1>6 DEF EntriesInv

LEMMA EntriesInitHold == DriftInit => EntriesInv
<1> SUFFICES ASSUME DriftInit PROVE EntriesInv
  OBVIOUS
<1>1. NoPassYet \in Finders /\ NoPassYet.pc = "rest"
  BY DEF NoPassYet, Finders, Loadable, FinderPcs
<1>2. finder = [p \in Passes |-> NoPassYet] /\ drift = <<>> /\ recorded = <<>>
      /\ sightings = [f \in Findings |-> 0]
  BY DEF DriftInit
<1>3. DriftTyped
  BY <1>1, <1>2 DEF DriftTyped
<1>4. \A w : Counting(w) = {}
  BY <1>1, <1>2 DEF Counting
<1>5. EachArchived
  BY <1>2, <1>4, FS_EmptySet DEF EachArchived, Vouched
<1>6. Ascending(drift) /\ Supported /\ PassesTrue
  BY <1>1, <1>2 DEF Ascending, Supported, PassesTrue, LoadedTrue, CutSpares
<1> QED BY <1>3, <1>5, <1>6 DEF EntriesInv

\* Unless the log is cleared under a pass, no entry claims more sightings than the archive
\* has lines for it: for any number of passes that overlap, however large the log.
THEOREM SightingsReal == DriftSpec => []NeverOvercounted
<1>1. EntriesInv /\ [DriftNext]_driftVars => EntriesInv'
  <2> SUFFICES ASSUME EntriesInv, [DriftNext]_driftVars PROVE EntriesInv'
    OBVIOUS
  <2>1. CASE UNCHANGED driftVars
    BY <2>1 DEF driftVars, EntriesInv, DriftTyped, EachArchived, Vouched, Counting, Ascending,
       Supported, PassesTrue, LoadedTrue, CutSpares
  <2> QED
    BY <2>1, FindKeepsEntries, LookKeepsEntries, EnterKeepsEntries, ExcessKeepsEntries,
       CutKeepsEntries, StreaksKeepEntries, ClearKeepsEntries DEF DriftNext
<1>2. EntriesInv => NeverOvercounted
  <2> SUFFICES ASSUME EntriesInv, "cleared" \notin mishaps, NEW i \in DOMAIN drift
               PROVE  drift[i].seen <= sightings[drift[i].what]
    BY DEF NeverOvercounted
  <2>1. drift[i] \in Entries
    BY DEF EntriesInv, DriftTyped
  <2> DEFINE w == drift[i].what
  <2>2. w \in Findings /\ drift[i].seen \in Nat /\ drift[i].seen <= Vouched(w)
    BY <2>1 DEF Entries, EntriesInv, Supported
  <2> HIDE DEF w
  <2>3. Vouched(w) \in Nat /\ sightings[w] \in Nat /\ Cardinality(Counting(w)) \in Nat
    BY <2>2, CountingTyped DEF EntriesInv, EachArchived
  <2> QED BY <2>2, <2>3 DEF Vouched, w
<1> QED BY <1>1, <1>2, EntriesInitHold, PTL DEF DriftSpec

(***************************************************************************)
(* Totals over the streaks.                                                *)
(***************************************************************************)

\* What a streak adds to the passes of a shape, and the sums up to each of them.
Told(row, shape) == IF row.shape = shape THEN row.passes ELSE 0

Sums(rows, shape, f) ==
    /\ f \in [0 .. Len(rows) -> Nat] /\ f[0] = 0
    /\ \A i \in 1 .. Len(rows) : f[i] = f[i - 1] + Told(rows[i], shape)

\* The total is the last of the sums.
LEMMA TotalOf ==
    ASSUME NEW rows \in Seq(Streaks), NEW shape
    PROVE  \E f : Sums(rows, shape, f) /\ PassesOf(rows, shape) = f[Len(rows)]
<1> DEFINE n == Len(rows)
           Part(i) == IF rows[i].shape = shape THEN rows[i].passes ELSE 0
           upTo == CHOOSE f : f = [i \in 0 .. n |-> IF i = 0 THEN 0 ELSE f[i - 1] + Part(i)]
           Add == [i \in 1 .. n |-> [s \in Nat |-> s + Part(i)]]
<1>0. n \in Nat /\ \A i \in 1 .. n : rows[i] \in Streaks
  OBVIOUS
<1>1. \A i \in 1 .. n : Part(i) \in Nat
  BY <1>0 DEF Streaks
<1>2. PassesOf(rows, shape) = upTo[n]
  BY DEF PassesOf
<1> HIDE DEF Part
<1>3. Add \in [1 .. n -> [Nat -> Nat]]
  BY <1>1
<1>4. PICK f \in [0 .. n -> Nat] : f[0] = 0 /\ \A i \in 1 .. n : f[i] = Add[i][f[i - 1]]
  <2> HIDE DEF Add, n
  <2>1. Runs(Nat, n, 0, Add) # {}
    BY <1>0, <1>3, Unfolds
  <2> QED BY <2>1 DEF Runs
<1>5. \A i \in 1 .. n : f[i] = f[i - 1] + Part(i)
  <2> TAKE i \in 1 .. n
  <2>1. i - 1 \in 0 .. n
    BY <1>0
  <2>2. f[i - 1] \in Nat
    BY <2>1
  <2>3. Add[i][f[i - 1]] = f[i - 1] + Part(i)
    BY <2>2
  <2> QED BY <1>4, <2>3
<1>6. f = [i \in 0 .. n |-> IF i = 0 THEN 0 ELSE f[i - 1] + Part(i)]
  BY <1>0, <1>4, <1>5
<1>7. upTo = [i \in 0 .. n |-> IF i = 0 THEN 0 ELSE upTo[i - 1] + Part(i)]
  BY <1>6
<1> HIDE DEF upTo
<1>8. upTo[0] = 0 /\ \A i \in 1 .. n : upTo[i] = upTo[i - 1] + Part(i)
  BY <1>0, <1>7
<1>9. \A i \in 0 .. n : upTo[i] \in Nat
  <2> DEFINE There == {i \in 0 .. n : upTo[i] \in Nat}
  <2>1. 0 \in There
    BY <1>0, <1>8
  <2>2. ASSUME NEW m \in 0 .. n, m \in There, m < n PROVE m + 1 \in There
    <3>1. upTo[m + 1] = upTo[m] + Part(m + 1) /\ Part(m + 1) \in Nat
      BY <1>0, <1>1, <1>8, <2>2
    <3> QED BY <1>0, <2>2, <3>1
  <2> HIDE DEF There
  <2>3. \A m \in 0 .. n : m \in There
    BY <1>0, <2>1, <2>2, UpTo
  <2> QED BY <2>3 DEF There
<1>10. upTo \in [0 .. n -> Nat]
  BY <1>7, <1>9
<1> QED BY <1>2, <1>8, <1>10 DEF Part, Told, Sums

\* A total is a number.
LEMMA TotalTyped ==
    ASSUME NEW rows \in Seq(Streaks), NEW shape
    PROVE  PassesOf(rows, shape) \in Nat
<1>1. PICK f : Sums(rows, shape, f) /\ PassesOf(rows, shape) = f[Len(rows)]
  BY TotalOf
<1>2. Len(rows) \in 0 .. Len(rows)
  OBVIOUS
<1> QED BY <1>1, <1>2 DEF Sums

\* The total with one streak more.
LEMMA TotalAppended ==
    ASSUME NEW rows \in Seq(Streaks), NEW row \in Streaks, NEW shape
    PROVE  PassesOf(Append(rows, row), shape) =
              PassesOf(rows, shape) + (IF row.shape = shape THEN row.passes ELSE 0)
<1> DEFINE n == Len(rows)
           more == Append(rows, row)
           Part(r) == Told(r, shape)
<1>1. /\ n \in Nat /\ more \in Seq(Streaks) /\ Len(more) = n + 1
      /\ more[n + 1] = row /\ \A i \in 1 .. n : more[i] = rows[i]
  OBVIOUS
<1> HIDE DEF more
<1>2. PICK f \in [0 .. n -> Nat] :
         /\ PassesOf(rows, shape) = f[n] /\ f[0] = 0
         /\ \A i \in 1 .. n : f[i] = f[i - 1] + Part(rows[i])
  <2>1. PICK f : Sums(rows, shape, f) /\ PassesOf(rows, shape) = f[Len(rows)]
    BY TotalOf
  <2> QED BY <2>1 DEF Sums
<1>3. PICK g \in [0 .. n + 1 -> Nat] :
         /\ PassesOf(more, shape) = g[n + 1] /\ g[0] = 0
         /\ \A i \in 1 .. n + 1 : g[i] = g[i - 1] + Part(more[i])
  <2>1. PICK g : Sums(more, shape, g) /\ PassesOf(more, shape) = g[Len(more)]
    BY <1>1, TotalOf
  <2> QED BY <1>1, <2>1 DEF Sums
<1> HIDE DEF Part, n
<1>4. \A i \in 0 .. n : i \in {m \in 0 .. n : g[m] = f[m]}
  <2> DEFINE There == {m \in 0 .. n : g[m] = f[m]}
  <2>1. 0 \in There
    BY <1>1, <1>2, <1>3
  <2>2. ASSUME NEW m \in 0 .. n, m \in There, m < n PROVE m + 1 \in There
    <3>1. m + 1 \in 1 .. n /\ m + 1 \in 1 .. n + 1 /\ m + 1 - 1 = m /\ m + 1 \in 0 .. n
      BY <1>1, <2>2
    <3>2. g[m + 1] = g[m] + Part(more[m + 1]) /\ f[m + 1] = f[m] + Part(rows[m + 1])
      BY <1>2, <1>3, <3>1
    <3>3. more[m + 1] = rows[m + 1]
      BY <1>1, <3>1
    <3> QED BY <2>2, <3>1, <3>2, <3>3
  <2> HIDE DEF There
  <2>3. \A m \in 0 .. n : m \in There
    BY <1>1, <2>1, <2>2, UpTo
  <2> QED BY <2>3 DEF There
<1>5. g[n] = f[n] /\ n + 1 \in 1 .. n + 1 /\ n + 1 - 1 = n
  BY <1>1, <1>4
<1>6. g[n + 1] = g[n] + Part(row)
  BY <1>1, <1>3, <1>5
<1> QED BY <1>2, <1>3, <1>5, <1>6 DEF Part, Told, more

\* The total is that of the oldest and of the rest.
LEMMA TotalSplit ==
    ASSUME NEW rows \in Seq(Streaks), NEW k \in 0 .. Len(rows), NEW shape
    PROVE  PassesOf(rows, shape) =
              PassesOf(SubSeq(rows, 1, k), shape) + PassesOf(OldestGone(rows, k), shape)
<1> DEFINE n == Len(rows)
           old == SubSeq(rows, 1, k)
           rest == OldestGone(rows, k)
           Part(r) == Told(r, shape)
<1>0. n \in Nat /\ k \in Nat /\ k <= n /\ n - k \in Nat
  OBVIOUS
<1>1. /\ old \in Seq(Streaks) /\ Len(old) = k /\ \A i \in 1 .. k : old[i] = rows[i]
  BY SubSeqProperties
<1>2. /\ rest \in Seq(Streaks) /\ Len(rest) = n - k
      /\ \A i \in 1 .. n - k : rest[i] = rows[k + i]
  BY OldestGoneOf
<1> HIDE DEF old, rest
<1>3. PICK f \in [0 .. n -> Nat] :
         /\ PassesOf(rows, shape) = f[n] /\ f[0] = 0
         /\ \A i \in 1 .. n : f[i] = f[i - 1] + Part(rows[i])
  <2>1. PICK f : Sums(rows, shape, f) /\ PassesOf(rows, shape) = f[Len(rows)]
    BY TotalOf
  <2> QED BY <2>1 DEF Sums
<1>4. PICK a \in [0 .. k -> Nat] :
         /\ PassesOf(old, shape) = a[k] /\ a[0] = 0
         /\ \A i \in 1 .. k : a[i] = a[i - 1] + Part(old[i])
  <2>1. PICK a : Sums(old, shape, a) /\ PassesOf(old, shape) = a[Len(old)]
    BY <1>1, TotalOf
  <2> QED BY <1>1, <2>1 DEF Sums
<1>5. PICK b \in [0 .. n - k -> Nat] :
         /\ PassesOf(rest, shape) = b[n - k] /\ b[0] = 0
         /\ \A i \in 1 .. n - k : b[i] = b[i - 1] + Part(rest[i])
  <2>1. PICK b : Sums(rest, shape, b) /\ PassesOf(rest, shape) = b[Len(rest)]
    BY <1>2, TotalOf
  <2> QED BY <1>2, <2>1 DEF Sums
<1> HIDE DEF Part, n
<1>6. \A i \in 0 .. k : i \in {m \in 0 .. k : a[m] = f[m]}
  <2> DEFINE There == {m \in 0 .. k : a[m] = f[m]}
  <2>1. 0 \in There
    BY <1>0, <1>3, <1>4
  <2>2. ASSUME NEW m \in 0 .. k, m \in There, m < k PROVE m + 1 \in There
    <3>1. m + 1 \in 1 .. k /\ m + 1 \in 1 .. n /\ m + 1 - 1 = m /\ m + 1 \in 0 .. k
      BY <1>0, <2>2
    <3>2. a[m + 1] = a[m] + Part(rows[m + 1]) /\ f[m + 1] = f[m] + Part(rows[m + 1])
      BY <1>1, <1>3, <1>4, <3>1
    <3> QED BY <2>2, <3>1, <3>2
  <2> HIDE DEF There
  <2>3. \A m \in 0 .. k : m \in There
    BY <1>0, <2>1, <2>2, UpTo
  <2> QED BY <2>3 DEF There
<1>7. a[k] = f[k] /\ f[k] \in Nat
  BY <1>0, <1>6
<1>8. \A i \in 0 .. n - k : i \in {m \in 0 .. n - k : f[k + m] = f[k] + b[m]}
  <2> DEFINE There == {m \in 0 .. n - k : f[k + m] = f[k] + b[m]}
  <2>1. 0 \in There
    BY <1>0, <1>5, <1>7
  <2>2. ASSUME NEW m \in 0 .. n - k, m \in There, m < n - k PROVE m + 1 \in There
    <3>1. /\ m + 1 \in 1 .. n - k /\ k + (m + 1) \in 1 .. n /\ m + 1 - 1 = m
          /\ k + (m + 1) - 1 = k + m /\ m + 1 \in 0 .. n - k /\ k + m \in 0 .. n
      BY <1>0, <2>2
    <3>2. /\ b[m + 1] = b[m] + Part(rows[k + (m + 1)])
          /\ f[k + (m + 1)] = f[k + m] + Part(rows[k + (m + 1)])
      BY <1>2, <1>3, <1>5, <3>1
    <3>3. /\ b[m] \in Nat /\ b[m + 1] \in Nat /\ f[k + m] \in Nat
          /\ f[k + (m + 1)] \in Nat /\ f[k + m] = f[k] + b[m]
      <4>1. m \in 0 .. n - k /\ k + (m + 1) \in 0 .. n
        BY <3>1
      <4>2. f[k + m] = f[k] + b[m]
        BY <2>2
      <4> QED BY <3>1, <4>1, <4>2
    <3>5. k + (m + 1) \in 1 .. n
      BY <3>1
    <3>4. Part(rows[k + (m + 1)]) \in Nat
      <4>1. rows[k + (m + 1)] \in Streaks
        BY <3>5 DEF n
      <4> QED BY <4>1 DEF Part, Told, Streaks
    <3>6. f[k + (m + 1)] = f[k] + b[m + 1]
      BY <1>7, <3>2, <3>3, <3>4
    <3> QED BY <3>1, <3>6
  <2> HIDE DEF There
  <2>3. \A m \in 0 .. n - k : m \in There
    BY <1>0, <2>1, <2>2, UpTo
  <2> QED BY <2>3 DEF There
<1>9. f[k + (n - k)] = f[k] + b[n - k] /\ k + (n - k) = n
  BY <1>0, <1>8
<1> QED BY <1>3, <1>4, <1>5, <1>7, <1>9 DEF old, rest

\* Streak by streak no more, in total no more.
LEMMA TotalGrows ==
    ASSUME NEW rows \in Seq(Streaks), NEW more \in Seq(Streaks), Len(more) = Len(rows),
           \A i \in DOMAIN rows :
              more[i].shape = rows[i].shape /\ rows[i].passes <= more[i].passes,
           NEW shape
    PROVE  PassesOf(rows, shape) <= PassesOf(more, shape)
<1> DEFINE n == Len(rows)
           Part(r) == Told(r, shape)
<1>0. n \in Nat /\ DOMAIN rows = 1 .. n /\ \A i \in 1 .. n : rows[i] \in Streaks /\ more[i] \in Streaks
  OBVIOUS
<1>1. PICK f \in [0 .. n -> Nat] :
         /\ PassesOf(rows, shape) = f[n] /\ f[0] = 0
         /\ \A i \in 1 .. n : f[i] = f[i - 1] + Part(rows[i])
  <2>1. PICK f : Sums(rows, shape, f) /\ PassesOf(rows, shape) = f[Len(rows)]
    BY TotalOf
  <2> QED BY <2>1 DEF Sums
<1>2. PICK g \in [0 .. n -> Nat] :
         /\ PassesOf(more, shape) = g[n] /\ g[0] = 0
         /\ \A i \in 1 .. n : g[i] = g[i - 1] + Part(more[i])
  <2>1. PICK g : Sums(more, shape, g) /\ PassesOf(more, shape) = g[Len(more)]
    BY TotalOf
  <2> QED BY <2>1 DEF Sums
<1>3. ASSUME NEW i \in 1 .. n
      PROVE  Part(rows[i]) \in Nat /\ Part(more[i]) \in Nat /\ Part(rows[i]) <= Part(more[i])
  <2>1. /\ rows[i].passes \in Nat /\ more[i].passes \in Nat /\ rows[i].passes <= more[i].passes
        /\ more[i].shape = rows[i].shape
    <3>1. rows[i] \in Streaks /\ more[i] \in Streaks
      BY <1>0
    <3> QED BY <1>0, <3>1 DEF Streaks
  <2> QED BY <2>1 DEF Told
<1> HIDE DEF Part, n
<1>4. \A i \in 0 .. n : i \in {m \in 0 .. n : f[m] <= g[m]}
  <2> DEFINE There == {m \in 0 .. n : f[m] <= g[m]}
  <2>1. 0 \in There
    BY <1>0, <1>1, <1>2
  <2>2. ASSUME NEW m \in 0 .. n, m \in There, m < n PROVE m + 1 \in There
    <3>1. m + 1 \in 1 .. n /\ m + 1 - 1 = m /\ m + 1 \in 0 .. n
      BY <1>0, <2>2
    <3>2. g[m + 1] = g[m] + Part(more[m + 1]) /\ f[m + 1] = f[m] + Part(rows[m + 1])
      BY <1>1, <1>2, <3>1
    <3>3. f[m] \in Nat /\ g[m] \in Nat /\ f[m] <= g[m]
      BY <2>2
    <3>4. f[m + 1] <= g[m + 1]
      BY <1>3, <3>1, <3>2, <3>3
    <3> QED BY <3>1, <3>4
  <2> HIDE DEF There
  <2>3. \A m \in 0 .. n : m \in There
    BY <1>0, <2>1, <2>2, UpTo
  <2> QED BY <2>3 DEF There
<1> QED BY <1>0, <1>1, <1>2, <1>4

\* Where one streak has one pass more, so has the total of its shape.
OneMoreAt(rows, more, k) ==
    /\ Len(more) = Len(rows)
    /\ more[k].passes = rows[k].passes + 1
    /\ \A i \in DOMAIN rows :
          more[i].shape = rows[i].shape /\ (i # k => rows[i].passes = more[i].passes)

LEMMA TotalOneMore ==
    ASSUME NEW rows \in Seq(Streaks), NEW more \in Seq(Streaks), NEW k \in DOMAIN rows,
           OneMoreAt(rows, more, k), NEW shape
    PROVE  PassesOf(more, shape) =
              PassesOf(rows, shape) + (IF rows[k].shape = shape THEN 1 ELSE 0)
<1> USE DEF OneMoreAt
<1> DEFINE n == Len(rows)
           Part(r) == Told(r, shape)
           one == IF rows[k].shape = shape THEN 1 ELSE 0
<1>0. /\ n \in Nat /\ DOMAIN rows = 1 .. n /\ k \in 1 .. n
      /\ \A i \in 1 .. n : rows[i] \in Streaks /\ more[i] \in Streaks
  OBVIOUS
<1>1. PICK f \in [0 .. n -> Nat] :
         /\ PassesOf(rows, shape) = f[n] /\ f[0] = 0
         /\ \A i \in 1 .. n : f[i] = f[i - 1] + Part(rows[i])
  <2>1. PICK f : Sums(rows, shape, f) /\ PassesOf(rows, shape) = f[Len(rows)]
    BY TotalOf
  <2> QED BY <2>1 DEF Sums
<1>2. PICK g \in [0 .. n -> Nat] :
         /\ PassesOf(more, shape) = g[n] /\ g[0] = 0
         /\ \A i \in 1 .. n : g[i] = g[i - 1] + Part(more[i])
  <2>1. PICK g : Sums(more, shape, g) /\ PassesOf(more, shape) = g[Len(more)]
    BY TotalOf
  <2> QED BY <2>1 DEF Sums
<1>3. /\ \A i \in 1 .. n : Part(rows[i]) \in Nat /\ (i # k => Part(more[i]) = Part(rows[i]))
      /\ Part(more[k]) = Part(rows[k]) + one /\ one \in Nat
  <2>1. \A i \in 1 .. n : rows[i].passes \in Nat
    <3>1. \A r \in Streaks : r.passes \in Nat
      BY DEF Streaks
    <3> QED BY <1>0, <3>1
  <2>2. \A i \in 1 .. n : Part(rows[i]) \in Nat
    BY <2>1 DEF Told
  <2>3. ASSUME NEW i \in 1 .. n, i # k PROVE Part(more[i]) = Part(rows[i])
    BY <1>0, <2>3 DEF Told
  <2>4. Part(more[k]) = Part(rows[k]) + one
    BY <1>0, <2>1 DEF Told
  <2> QED BY <2>2, <2>3, <2>4
<1> HIDE DEF Part, n, one
<1>4. \A i \in 0 .. n : i \in {m \in 0 .. n : g[m] = f[m] + (IF m < k THEN 0 ELSE one)}
  <2> DEFINE There == {m \in 0 .. n : g[m] = f[m] + (IF m < k THEN 0 ELSE one)}
  <2>1. 0 \in There
    BY <1>0, <1>1, <1>2
  <2>2. ASSUME NEW m \in 0 .. n, m \in There, m < n PROVE m + 1 \in There
    <3>1. m + 1 \in 1 .. n /\ m + 1 - 1 = m /\ m + 1 \in 0 .. n
      BY <1>0, <2>2
    <3>2. g[m + 1] = g[m] + Part(more[m + 1]) /\ f[m + 1] = f[m] + Part(rows[m + 1])
      BY <1>1, <1>2, <3>1
    <3>3. f[m] \in Nat /\ g[m] \in Nat /\ g[m] = f[m] + (IF m < k THEN 0 ELSE one)
      BY <2>2
    <3>4. CASE m + 1 = k
      <4>1. Part(more[m + 1]) = Part(rows[m + 1]) + one /\ Part(rows[m + 1]) \in Nat /\ m < k
        BY <1>0, <1>3, <3>1, <3>4
      <4> QED BY <1>3, <3>1, <3>2, <3>3, <3>4, <4>1
    <3>5. CASE m + 1 # k
      <4>1. Part(more[m + 1]) = Part(rows[m + 1]) /\ Part(rows[m + 1]) \in Nat
        BY <1>3, <3>1, <3>5
      <4>2. m < k <=> m + 1 < k
        BY <1>0, <3>5
      <4> QED BY <1>3, <3>1, <3>2, <3>3, <4>1, <4>2
    <3> QED BY <3>4, <3>5
  <2> HIDE DEF There
  <2>3. \A m \in 0 .. n : m \in There
    BY <1>0, <2>1, <2>2, UpTo
  <2> QED BY <2>3 DEF There
<1>5. g[n] = f[n] + one
  BY <1>0, <1>4
<1> QED BY <1>1, <1>2, <1>5 DEF one

(***************************************************************************)
(* The streaks. A pass puts the count it loaded, and one, over whatever the *)
(* row holds by then, so a count may fall and rise again. What bounds it is *)
(* the highest any pass under way has seen of each streak: with that in the *)
(* place of the counts the totals are still no more than the passes made.  *)
(***************************************************************************)

\* What a total of the streaks may be: the passes that were made and not cut off.
Accounted == completed \in [made : [Shapes -> Nat], pruned : [Shapes -> Nat]]

InAll(rows, shape) == PassesOf(rows, shape) + completed.pruned[shape]

SameStreaks(rows, more) ==
    /\ Len(more) = Len(rows)
    /\ \A i \in DOMAIN rows : more[i].id = rows[i].id /\ more[i].shape = rows[i].shape

\* A pass that goes on the row f.row of these streaks will not count beyond them.
Within(f, high) ==
    f.pc = "record" /\ f.row # <<>> =>
        /\ f.row[1].id <= LastId(high)
        /\ \A i \in DOMAIN high : high[i].id = f.row[1].id =>
              high[i].shape = f.row[1].shape /\ f.row[1].passes <= high[i].passes

\* A pass that loaded a count puts one more over whatever is there then.  The highest a
\* streak's count was as any pass under way has seen it is still no more than was made.
HighWater(high) ==
    /\ high \in Seq(Streaks) /\ SameStreaks(recorded, high)
    /\ \A i \in DOMAIN recorded : recorded[i].passes <= high[i].passes
    /\ \A p \in Passes : Within(finder[p], high)
    /\ \A shape \in Shapes : InAll(high, shape) <= completed.made[shape]

NoneMadeUp == \E high : HighWater(high)

Alternating(rows) == \A i \in 2 .. Len(rows) : rows[i].shape # rows[i - 1].shape

\* As long as passes do not overlap.
OnePass == \A p, q \in Passes : PassUnderway(p) /\ PassUnderway(q) => p = q

NewestOnly(rows) == IF rows = <<>> THEN <<>> ELSE <<Last(rows)>>

NoneLost ==
    /\ OnePass /\ Alternating(recorded)
    /\ \A shape \in Shapes : InAll(recorded, shape) = completed.made[shape]
    /\ \A p \in Passes : finder[p].pc = "record" => finder[p].row = NewestOnly(recorded)

StreakInv ==
    /\ DriftTyped /\ Accounted /\ Ascending(recorded) /\ NoneMadeUp
    /\ "overlap" \notin mishaps => NoneLost

\* A step of a pass that leaves the streaks alone.
LEMMA ElsewhereKeepsStreaks ==
    ASSUME StreakInv, DriftTyped', NEW p \in Passes, finder'[p].pc # "record", OnlyMoves(p),
           UNCHANGED <<recorded, completed>>, mishaps \subseteq mishaps',
           \/ PassUnderway(p)
           \/ "overlap" \notin mishaps' => \A q \in Passes : ~PassUnderway(q)
    PROVE  StreakInv'
<1>1. NoneMadeUp'
  <2>1. PICK high : HighWater(high)
    BY DEF StreakInv, NoneMadeUp
  <2>2. \A q \in Passes : Within(finder'[q], high)
    <3> SUFFICES ASSUME NEW q \in Passes PROVE Within(finder'[q], high)
      OBVIOUS
    <3>1. CASE q = p
      BY <3>1 DEF Within
    <3>2. CASE q # p
      BY <2>1, <3>2 DEF HighWater, OnlyMoves
    <3> QED BY <3>1, <3>2
  <2>3. \A shape \in Shapes : PassesOf(high, shape) + completed.pruned[shape] <= completed.made[shape]
    BY <2>1 DEF HighWater, InAll
  <2>4. /\ high \in Seq(Streaks) /\ SameStreaks(recorded, high)
        /\ \A i \in DOMAIN recorded : recorded[i].passes <= high[i].passes
    BY <2>1 DEF HighWater
  <2> QED BY <2>2, <2>3, <2>4 DEF NoneMadeUp, HighWater, InAll
<1>2. ASSUME "overlap" \notin mishaps' PROVE NoneLost'
  <2>1. NoneLost
    BY <1>2 DEF StreakInv
  <2>2. OnePass'
    <3> SUFFICES ASSUME NEW q \in Passes, NEW r \in Passes, PassUnderway(q)', PassUnderway(r)'
                 PROVE  q = r
      BY DEF OnePass
    <3>1. q # p => PassUnderway(q)
      BY DEF OnlyMoves, PassUnderway
    <3>2. r # p => PassUnderway(r)
      BY DEF OnlyMoves, PassUnderway
    <3> QED BY <1>2, <2>1, <3>1, <3>2 DEF NoneLost, OnePass
  <2>3. \A q \in Passes : finder'[q].pc = "record" => finder'[q].row = NewestOnly(recorded)
    BY <2>1 DEF NoneLost, OnlyMoves
  <2>4. \A shape \in Shapes : InAll(recorded, shape)' = completed'.made[shape]
    BY <2>1 DEF NoneLost, InAll
  <2> QED BY <2>1, <2>2, <2>3, <2>4 DEF NoneLost, NewestOnly
<1>3. Accounted' /\ Ascending(recorded')
  BY DEF StreakInv, Accounted
<1> QED BY <1>1, <1>2, <1>3 DEF StreakInv

LEMMA LookForStreakKeeps ==
    ASSUME StreakInv, NEW p \in Passes, LookForStreak(p)
    PROVE  StreakInv'
<1>1. /\ DriftTyped' /\ finder'[p].pc = "record" /\ finder'[p].row = NewestOnly(recorded)
  BY StreakTyped DEF StreakInv, NewestOnly
<1>2. /\ UNCHANGED <<recorded, completed, mishaps>> /\ OnlyMoves(p) /\ PassUnderway(p)
  BY DEF LookForStreak, OnlyMoves, StreakInv, DriftTyped, PassUnderway
<1>3. NoneMadeUp'
  <2>1. PICK high : HighWater(high)
    BY DEF StreakInv, NoneMadeUp
  <2>2. Within(finder'[p], high)
    <3> SUFFICES ASSUME recorded # <<>> PROVE Within(finder'[p], high)
      BY <1>1 DEF Within, NewestOnly
    <3> DEFINE last == Last(recorded)
               n == Len(recorded)
    <3>1. finder'[p].row = <<last>>
      BY <1>1 DEF NewestOnly
    <3>2. /\ recorded \in Seq(Streaks) /\ high \in Seq(Streaks) /\ SameStreaks(recorded, high)
          /\ \A i \in DOMAIN recorded : recorded[i].passes <= high[i].passes
      BY <2>1 DEF HighWater, StreakInv, DriftTyped
    <3>3. /\ last \in Streaks /\ last = recorded[n] /\ n \in DOMAIN recorded /\ n \in Nat
          /\ DOMAIN recorded = 1 .. n /\ DOMAIN high = 1 .. n /\ Len(high) = n
      BY <3>2, LastOf DEF SameStreaks
    <3>4. high # <<>> /\ Last(high) = high[n]
      BY <3>2, <3>3 DEF Last
    <3>5. LastId(high) = last.id /\ last.id \in Nat
      BY <3>2, <3>3, <3>4 DEF LastId, SameStreaks, Streaks
    <3>6. ASSUME NEW i \in DOMAIN high, high[i].id = last.id PROVE i = n
      <4>1. recorded[i].id = recorded[n].id /\ recorded[n].id \in Nat
        BY <3>2, <3>3, <3>5, <3>6 DEF SameStreaks
      <4>2. ~(i < n)
        BY <3>3, <4>1 DEF StreakInv, Ascending
      <4> QED BY <3>3, <4>2
    <3> HIDE DEF last, n
    <3>7. \A i \in DOMAIN high : high[i].id = last.id =>
             high[i].shape = last.shape /\ last.passes <= high[i].passes
      BY <3>2, <3>3, <3>6 DEF SameStreaks
    <3>8. last.id <= LastId(high)
      BY <3>5
    <3> QED BY <3>1, <3>7, <3>8 DEF Within
  <2>3. \A q \in Passes : Within(finder'[q], high)
    BY <1>2, <2>1, <2>2 DEF HighWater, OnlyMoves
  <2>4. /\ high \in Seq(Streaks) /\ SameStreaks(recorded, high)
        /\ \A i \in DOMAIN recorded : recorded[i].passes <= high[i].passes
        /\ \A shape \in Shapes : PassesOf(high, shape) + completed.pruned[shape] <= completed.made[shape]
    BY <2>1 DEF HighWater, InAll
  <2> QED BY <1>2, <2>3, <2>4 DEF NoneMadeUp, HighWater, InAll
<1>4. ASSUME "overlap" \notin mishaps PROVE NoneLost'
  <2>1. NoneLost
    BY <1>4 DEF StreakInv
  <2>2. OnePass'
    BY <1>2, <2>1 DEF NoneLost, OnePass, OnlyMoves, PassUnderway
  <2>3. \A q \in Passes : finder'[q].pc = "record" => finder'[q].row = NewestOnly(recorded)
    BY <1>1, <1>2, <2>1 DEF NoneLost, OnlyMoves
  <2>4. \A shape \in Shapes : InAll(recorded, shape)' = completed'.made[shape]
    BY <1>2, <2>1 DEF NoneLost, InAll
  <2> QED BY <1>2, <2>1, <2>2, <2>3, <2>4 DEF NoneLost, NewestOnly
<1>5. Accounted' /\ Ascending(recorded')
  BY <1>2 DEF StreakInv, Accounted
<1> QED BY <1>1, <1>2, <1>3, <1>4, <1>5 DEF StreakInv

\* Ids that ascend are one streak's each, and none is above the last.
LEMMA AscendingIds ==
    ASSUME NEW rows \in Seq(Streaks), Ascending(rows)
    PROVE  /\ \A i, k \in DOMAIN rows : rows[i].id = rows[k].id => i = k
           /\ \A i \in DOMAIN rows : rows[i].id \in Nat /\ rows[i].id <= LastId(rows)
<1>1. ASSUME NEW i \in DOMAIN rows PROVE rows[i].id \in Nat
  <2>1. rows[i] \in Streaks
    OBVIOUS
  <2> QED BY <2>1 DEF Streaks
<1>2. ASSUME NEW i \in DOMAIN rows, NEW k \in DOMAIN rows, rows[i].id = rows[k].id PROVE i = k
  <2>1. ~(i < k) /\ ~(k < i)
    BY <1>1, <1>2 DEF Ascending
  <2> QED BY <2>1
<1>3. ASSUME NEW i \in DOMAIN rows PROVE rows[i].id <= LastId(rows)
  <2>1. /\ rows # <<>> /\ LastId(rows) = rows[Len(rows)].id
        /\ Len(rows) \in DOMAIN rows /\ i <= Len(rows)
    BY LastOf DEF LastId
  <2> QED BY <1>1, <2>1 DEF Ascending
<1> QED BY <1>1, <1>2, <1>3

\* The same streaks end with the same.
LEMMA SameLast ==
    ASSUME NEW rows \in Seq(Streaks), NEW more \in Seq(Streaks), SameStreaks(rows, more)
    PROVE  LastId(more) = LastId(rows) /\ (Ascending(rows) => Ascending(more))
<1>1. Len(more) = Len(rows) /\ DOMAIN more = DOMAIN rows /\ Len(rows) \in Nat
      /\ DOMAIN rows = 1 .. Len(rows)
  BY DEF SameStreaks
<1>2. CASE rows = <<>>
  BY <1>1, <1>2 DEF LastId, Ascending
<1>3. CASE rows # <<>>
  <2>1. more # <<>> /\ Len(rows) \in DOMAIN rows
    BY <1>1, <1>3
  <2> QED BY <1>1, <1>3, <2>1 DEF LastId, Last, SameStreaks, Ascending
<1> QED BY <1>2, <1>3

\* Another streak at the end, with an id of its own.
LEMMA StreakAdded ==
    ASSUME NEW rows \in Seq(Streaks), Ascending(rows), NEW new \in Streaks,
           new.id = LastId(rows) + 1
    PROVE  /\ Append(rows, new) \in Seq(Streaks) /\ Ascending(Append(rows, new))
           /\ Len(Append(rows, new)) = Len(rows) + 1
           /\ Append(rows, new)[Len(rows) + 1] = new
           /\ \A i \in DOMAIN rows : Append(rows, new)[i] = rows[i]
           /\ LastId(Append(rows, new)) = LastId(rows) + 1
<1> DEFINE n == Len(rows)  more == Append(rows, new)
<1>1. /\ more \in Seq(Streaks) /\ Len(more) = n + 1 /\ n \in Nat /\ more[n + 1] = new
      /\ DOMAIN rows = 1 .. n /\ DOMAIN more = 1 .. n + 1
      /\ \A i \in 1 .. n : more[i] = rows[i]
  OBVIOUS
<1> HIDE DEF more
<1>2. LastId(rows) \in Nat /\ \A i \in 1 .. n : rows[i].id \in Nat /\ rows[i].id <= LastId(rows)
  BY <1>1, AscendingIds, LastIdTyped
<1>3. Ascending(more)
  <2> SUFFICES ASSUME NEW i \in 1 .. n + 1, NEW j \in 1 .. n + 1, i < j
               PROVE  more[i].id < more[j].id
    BY <1>1 DEF Ascending
  <2>1. CASE j = n + 1
    <3>1. i \in 1 .. n
      BY <1>1, <2>1
    <3> QED BY <1>1, <1>2, <2>1, <3>1
  <2>2. CASE j # n + 1
    <3>1. i \in 1 .. n /\ j \in 1 .. n
      BY <1>1, <2>2
    <3> QED BY <1>1, <3>1 DEF Ascending
  <2> QED BY <2>1, <2>2
<1>4. LastId(more) = new.id
  BY <1>1 DEF LastId, Last
<1> QED BY <1>1, <1>3, <1>4 DEF more

\* A new streak counts as high as it is.
LEMMA HighAppended ==
    ASSUME NEW rows \in Seq(Streaks), Ascending(rows), NEW high \in Seq(Streaks),
           SameStreaks(rows, high), \A i \in DOMAIN rows : rows[i].passes <= high[i].passes,
           NEW new \in Streaks, new.id = LastId(rows) + 1
    PROVE  /\ Append(high, new) \in Seq(Streaks)
           /\ SameStreaks(Append(rows, new), Append(high, new))
           /\ \A i \in DOMAIN Append(rows, new) :
                 Append(rows, new)[i].passes <= Append(high, new)[i].passes
           /\ \A f : Within(f, high) /\ (f.pc = "record" /\ f.row # <<>> => f.row[1] \in Streaks)
                        => Within(f, Append(high, new))
<1> DEFINE n == Len(rows)  more == Append(rows, new)  higher == Append(high, new)
<1>1. LastId(high) = LastId(rows) /\ Ascending(high) /\ LastId(rows) \in Nat
  BY SameLast, LastIdTyped
<1>2. /\ more \in Seq(Streaks) /\ DOMAIN more = 1 .. n + 1 /\ more[n + 1] = new /\ n \in Nat
      /\ Len(more) = n + 1 /\ DOMAIN rows = 1 .. n
      /\ \A i \in 1 .. n : more[i] = rows[i]
  OBVIOUS
<1>3. /\ higher \in Seq(Streaks) /\ Len(higher) = n + 1 /\ DOMAIN higher = 1 .. n + 1
      /\ DOMAIN high = 1 .. n
      /\ higher[n + 1] = new /\ LastId(higher) = LastId(high) + 1
      /\ \A i \in 1 .. n : higher[i] = high[i]
  <2>1. Len(high) = n /\ DOMAIN high = 1 .. n
    BY <1>2 DEF SameStreaks
  <2>2. higher \in Seq(Streaks) /\ Len(higher) = Len(high) + 1
    OBVIOUS
  <2>3. /\ higher[Len(high) + 1] = new /\ LastId(higher) = LastId(high) + 1
        /\ \A i \in DOMAIN high : higher[i] = high[i]
    BY <1>1, StreakAdded
  <2> QED BY <2>1, <2>2, <2>3
<1> HIDE DEF more, higher
<1>4. SameStreaks(more, higher)
  BY <1>2, <1>3 DEF SameStreaks
<1>5. \A i \in DOMAIN more : more[i].passes <= higher[i].passes
  <2>1. new.passes <= new.passes
    BY DEF Streaks
  <2> QED BY <1>2, <1>3, <2>1
<1>6. ASSUME NEW f, Within(f, high), f.pc = "record" /\ f.row # <<>> => f.row[1] \in Streaks
      PROVE  Within(f, higher)
  <2> SUFFICES ASSUME f.pc = "record", f.row # <<>>
               PROVE  /\ f.row[1].id <= LastId(higher)
                      /\ \A i \in DOMAIN higher : higher[i].id = f.row[1].id =>
                            higher[i].shape = f.row[1].shape /\ f.row[1].passes <= higher[i].passes
    BY DEF Within
  <2>1. f.row[1].id \in Nat /\ f.row[1].id <= LastId(high)
    BY <1>6 DEF Within, Streaks
  <2>2. new.id # f.row[1].id /\ f.row[1].id <= LastId(higher)
    BY <1>1, <1>3, <2>1
  <2> QED BY <1>3, <1>6, <2>2 DEF Within
<1> QED BY <1>3, <1>4, <1>5, <1>6 DEF more, higher

\* One pass more for a row that was loaded from these streaks, and for the highest count.
LEMMA HighCounted ==
    ASSUME NEW rows \in Seq(Streaks), Ascending(rows), NEW high \in Seq(Streaks),
           SameStreaks(rows, high), \A i \in DOMAIN rows : rows[i].passes <= high[i].passes,
           NEW row \in Streaks,
           \A i \in DOMAIN high : high[i].id = row.id =>
              high[i].shape = row.shape /\ row.passes <= high[i].passes
    PROVE  \E higher \in Seq(Streaks) :
              /\ SameStreaks(StreakCounted(rows, row.id, row.passes + 1), higher)
              /\ \A i \in DOMAIN StreakCounted(rows, row.id, row.passes + 1) :
                    StreakCounted(rows, row.id, row.passes + 1)[i].passes <= higher[i].passes
              /\ SameStreaks(high, higher)
              /\ \A i \in DOMAIN high : high[i].passes <= higher[i].passes
              /\ \A shape : PassesOf(higher, shape) <=
                    PassesOf(high, shape) + (IF row.shape = shape THEN 1 ELSE 0)
<1> DEFINE more == StreakCounted(rows, row.id, row.passes + 1)
<1>0. row.passes \in Nat /\ row.passes + 1 \in Nat
  BY DEF Streaks
<1>1. /\ more \in Seq(Streaks) /\ Len(more) = Len(rows)
      /\ \A i \in DOMAIN rows :
            /\ more[i].id = rows[i].id /\ more[i].shape = rows[i].shape
            /\ more[i].passes = IF rows[i].id = row.id THEN row.passes + 1 ELSE rows[i].passes
  BY <1>0, StreaksRecounted
<1>2. DOMAIN more = DOMAIN rows /\ DOMAIN high = DOMAIN rows /\ Len(high) = Len(rows)
  BY <1>1 DEF SameStreaks
<1> HIDE DEF more
<1>3. CASE \A i \in DOMAIN high : high[i].id # row.id
  <2>1. \A i \in DOMAIN rows : rows[i].id # row.id
    BY <1>2, <1>3 DEF SameStreaks
  <2>2. SameStreaks(more, high) /\ \A i \in DOMAIN more : more[i].passes <= high[i].passes
    BY <1>1, <1>2, <2>1 DEF SameStreaks
  <2>3. SameStreaks(high, high) /\ \A i \in DOMAIN high : high[i].passes <= high[i].passes
    <3>1. \A i \in DOMAIN high : high[i] \in Streaks
      OBVIOUS
    <3> QED BY <3>1 DEF SameStreaks, Streaks
  <2>4. \A shape : PassesOf(high, shape) <= PassesOf(high, shape) + (IF row.shape = shape THEN 1 ELSE 0)
    BY TotalTyped
  <2> QED BY <2>2, <2>3, <2>4 DEF more
<1>4. ASSUME NEW k \in DOMAIN high, high[k].id = row.id
      PROVE  \E higher \in Seq(Streaks) :
                /\ SameStreaks(more, higher)
                /\ \A i \in DOMAIN more : more[i].passes <= higher[i].passes
                /\ SameStreaks(high, higher)
                /\ \A i \in DOMAIN high : high[i].passes <= higher[i].passes
                /\ \A shape : PassesOf(higher, shape) <=
                      PassesOf(high, shape) + (IF row.shape = shape THEN 1 ELSE 0)
  <2> DEFINE top == high[k].passes + 1
             higher == StreakCounted(high, row.id, top)
  <2>1. high[k].passes \in Nat /\ top \in Nat /\ row.passes <= high[k].passes /\ high[k].shape = row.shape
    <3>1. high[k] \in Streaks
      OBVIOUS
    <3> QED BY <1>4, <3>1 DEF Streaks
  <2>2. /\ higher \in Seq(Streaks) /\ Len(higher) = Len(high)
        /\ \A i \in DOMAIN high :
              /\ higher[i].id = high[i].id /\ higher[i].shape = high[i].shape
              /\ higher[i].passes = IF high[i].id = row.id THEN top ELSE high[i].passes
    BY <2>1, StreaksRecounted
  <2>3. \A i \in DOMAIN high : high[i].id = row.id <=> i = k
    <3>1. Ascending(high)
      BY SameLast
    <3> QED BY <1>4, <3>1, AscendingIds
  <2>4. \A i \in DOMAIN high : high[i].passes \in Nat /\ rows[i].passes \in Nat
    <3>1. \A r \in Streaks : r.passes \in Nat
      BY DEF Streaks
    <3>2. \A i \in DOMAIN high : high[i] \in Streaks /\ rows[i] \in Streaks
      BY <1>2
    <3> QED BY <3>1, <3>2
  <2> HIDE DEF higher
  <2>5. SameStreaks(more, higher) /\ SameStreaks(high, higher)
    BY <1>1, <1>2, <2>2 DEF SameStreaks
  <2>6. \A i \in DOMAIN high : high[i].passes <= higher[i].passes
    BY <2>1, <2>2, <2>3, <2>4
  <2>7. \A i \in DOMAIN more : more[i].passes <= higher[i].passes
    <3> SUFFICES ASSUME NEW i \in DOMAIN high PROVE more[i].passes <= higher[i].passes
      BY <1>2
    <3>1. rows[i].id = high[i].id /\ rows[i].passes <= high[i].passes
      BY <1>2 DEF SameStreaks
    <3>2. CASE high[i].id = row.id
      <4>1. more[i].passes = row.passes + 1 /\ higher[i].passes = high[k].passes + 1
        BY <1>1, <1>2, <2>2, <3>1, <3>2
      <4> QED BY <1>0, <2>1, <4>1
    <3>3. CASE high[i].id # row.id
      <4>1. more[i].passes = rows[i].passes /\ higher[i].passes = high[i].passes
        BY <1>1, <1>2, <2>2, <3>1, <3>3
      <4> QED BY <3>1, <4>1
    <3> QED BY <3>2, <3>3
  <2>8. ASSUME NEW shape
        PROVE  PassesOf(higher, shape) <= PassesOf(high, shape) + (IF row.shape = shape THEN 1 ELSE 0)
    <3>1. higher[k].passes = high[k].passes + 1
      BY <1>4, <2>2
    <3>2. \A i \in DOMAIN high :
             higher[i].shape = high[i].shape /\ (i # k => high[i].passes = higher[i].passes)
      BY <2>2, <2>3
    <3>3. PassesOf(higher, shape) = PassesOf(high, shape) + (IF high[k].shape = shape THEN 1 ELSE 0)
      <4>1. higher \in Seq(Streaks) /\ OneMoreAt(high, higher, k)
        BY <2>2, <3>1, <3>2 DEF OneMoreAt
      <4> QED BY <4>1, TotalOneMore
    <3>4. PassesOf(high, shape) \in Nat
      BY TotalTyped
    <3> QED BY <2>1, <3>3, <3>4
  <2> QED BY <2>2, <2>5, <2>6, <2>7, <2>8
<1> QED BY <1>3, <1>4 DEF more

\* The total of what was recorded when one pass more is folded in: at most one more for its
\* outcome, and for a pass that loaded the newest streak exactly one.
LEMMA FoldedHigh ==
    ASSUME recorded \in Seq(Streaks), Ascending(recorded), NEW high \in Seq(Streaks),
           SameStreaks(recorded, high), \A i \in DOMAIN recorded : recorded[i].passes <= high[i].passes,
           NEW f, Within(f, high), f.pc = "record", f.row \in {<<>>} \union {<<r>> : r \in Streaks},
           NEW what
    PROVE  \E higher \in Seq(Streaks) :
              /\ SameStreaks(Folded(f.row, what), higher)
              /\ \A i \in DOMAIN Folded(f.row, what) : Folded(f.row, what)[i].passes <= higher[i].passes
              /\ \A shape : PassesOf(higher, shape) <=
                    PassesOf(high, shape) + (IF Shape(what) = shape THEN 1 ELSE 0)
              /\ \A g : Within(g, high) /\ (g.pc = "record" /\ g.row # <<>> => g.row[1] \in Streaks)
                           => Within(g, higher)
<1>1. CASE SameStreak(f.row, what)
  <2> DEFINE row == f.row[1]
             rows == StreakCounted(recorded, row.id, row.passes + 1)
  <2>1. row \in Streaks /\ f.row # <<>> /\ row.shape = Shape(what)
    BY <1>1 DEF SameStreak
  <2>2. Folded(f.row, what) = rows
    BY <1>1 DEF Folded, StreakCounted
  <2>3. \A i \in DOMAIN high : high[i].id = row.id =>
           high[i].shape = row.shape /\ row.passes <= high[i].passes
    BY <2>1 DEF Within
  <2> HIDE DEF row
  <2>4. PICK higher \in Seq(Streaks) :
           /\ SameStreaks(rows, higher)
           /\ \A i \in DOMAIN rows : rows[i].passes <= higher[i].passes
           /\ SameStreaks(high, higher)
           /\ \A i \in DOMAIN high : high[i].passes <= higher[i].passes
           /\ \A shape : PassesOf(higher, shape) <=
                 PassesOf(high, shape) + (IF row.shape = shape THEN 1 ELSE 0)
    BY <2>1, <2>3, HighCounted
  <2>5. ASSUME NEW g, Within(g, high), g.pc = "record" /\ g.row # <<>> => g.row[1] \in Streaks
        PROVE  Within(g, higher)
    <3> SUFFICES ASSUME g.pc = "record", g.row # <<>>
                 PROVE  /\ g.row[1].id <= LastId(higher)
                        /\ \A i \in DOMAIN higher : higher[i].id = g.row[1].id =>
                              higher[i].shape = g.row[1].shape /\ g.row[1].passes <= higher[i].passes
      BY DEF Within
    <3>1. g.row[1].id <= LastId(higher)
      BY <2>4, <2>5, SameLast DEF Within
    <3>2. ASSUME NEW i \in DOMAIN higher, higher[i].id = g.row[1].id
          PROVE  higher[i].shape = g.row[1].shape /\ g.row[1].passes <= higher[i].passes
      <4>1. i \in DOMAIN high /\ high[i] \in Streaks /\ higher[i] \in Streaks /\ g.row[1] \in Streaks
        BY <2>4, <2>5 DEF SameStreaks
      <4>2. high[i].passes \in Nat /\ higher[i].passes \in Nat /\ g.row[1].passes \in Nat
        BY <4>1 DEF Streaks
      <4>3. high[i].id = g.row[1].id /\ high[i].shape = higher[i].shape /\ high[i].passes <= higher[i].passes
        BY <2>4, <3>2, <4>1 DEF SameStreaks
      <4>4. high[i].shape = g.row[1].shape /\ g.row[1].passes <= high[i].passes
        BY <2>5, <4>1, <4>3 DEF Within
      <4> QED BY <4>2, <4>3, <4>4
    <3> QED BY <3>1, <3>2
  <2> QED BY <2>1, <2>2, <2>4, <2>5
<1>2. CASE ~SameStreak(f.row, what)
  <2> DEFINE new == [id |-> LastId(recorded) + 1, shape |-> Shape(what), passes |-> 1]
  <2>1. new \in Streaks /\ new.id = LastId(recorded) + 1 /\ new.shape = Shape(what) /\ new.passes = 1
    <3>1. Shape(what) \in Shapes
      BY DEF Shape, Shapes
    <3>2. LastId(recorded) + 1 \in Nat \ {0}
      BY LastIdTyped
    <3> QED BY <3>1, <3>2 DEF Streaks
  <2>2. Folded(f.row, what) = Append(recorded, new)
    BY <1>2 DEF Folded
  <2> HIDE DEF new
  <2>3. \A shape : PassesOf(Append(high, new), shape) =
                     PassesOf(high, shape) + (IF Shape(what) = shape THEN 1 ELSE 0)
    BY <2>1, TotalAppended
  <2>4. /\ Append(high, new) \in Seq(Streaks)
        /\ SameStreaks(Append(recorded, new), Append(high, new))
        /\ \A i \in DOMAIN Append(recorded, new) :
              Append(recorded, new)[i].passes <= Append(high, new)[i].passes
        /\ \A g : Within(g, high) /\ (g.pc = "record" /\ g.row # <<>> => g.row[1] \in Streaks)
                     => Within(g, Append(high, new))
    BY <2>1, HighAppended
  <2>5. \A shape : PassesOf(Append(high, new), shape) <=
                     PassesOf(high, shape) + (IF Shape(what) = shape THEN 1 ELSE 0)
    BY <2>3, <2>4, TotalTyped
  <2> QED BY <2>2, <2>4, <2>5
<1> QED BY <1>1, <1>2

\* The ids go on ascending, and something is always there.
LEMMA FoldedAscends ==
    ASSUME recorded \in Seq(Streaks), Ascending(recorded), NEW what,
           NEW row \in {<<>>} \union {<<r>> : r \in Streaks}, row # <<>> => recorded # <<>>
    PROVE  Ascending(Folded(row, what)) /\ Folded(row, what) # <<>>
<1>1. CASE SameStreak(row, what)
  <2>1. row[1] \in Streaks /\ row[1].passes + 1 \in Nat
    BY <1>1 DEF SameStreak, Streaks
  <2>2. Folded(row, what) = StreakCounted(recorded, row[1].id, row[1].passes + 1)
    BY <1>1 DEF Folded, StreakCounted
  <2>3. /\ Folded(row, what) \in Seq(Streaks) /\ SameStreaks(recorded, Folded(row, what))
    BY <2>1, <2>2, StreaksRecounted DEF SameStreaks
  <2>4. recorded # <<>>
    BY <1>1 DEF SameStreak
  <2>5. Folded(row, what) # <<>>
    BY <2>3, <2>4 DEF SameStreaks
  <2> QED BY <2>3, <2>5, SameLast
<1>2. CASE ~SameStreak(row, what)
  <2> DEFINE new == [id |-> LastId(recorded) + 1, shape |-> Shape(what), passes |-> 1]
  <2>1. new \in Streaks /\ new.id = LastId(recorded) + 1
    <3>1. Shape(what) \in Shapes
      BY DEF Shape, Shapes
    <3>2. LastId(recorded) + 1 \in Nat \ {0}
      BY LastIdTyped
    <3> QED BY <3>1, <3>2 DEF Streaks
  <2>2. Folded(row, what) = Append(recorded, new)
    BY <1>2 DEF Folded
  <2> HIDE DEF new
  <2>3. Ascending(Append(recorded, new)) /\ Len(Append(recorded, new)) = Len(recorded) + 1
        /\ Append(recorded, new) \in Seq(Streaks)
    BY <2>1, StreakAdded
  <2>4. Append(recorded, new) # <<>>
    BY <2>3
  <2> QED BY <2>2, <2>3, <2>4
<1> QED BY <1>1, <1>2

\* A pass that folds into the newest streak adds exactly one, or starts another.
LEMMA FoldedOnNewest ==
    ASSUME recorded \in Seq(Streaks), Ascending(recorded), Alternating(recorded), NEW what
    PROVE  /\ Alternating(Folded(NewestOnly(recorded), what))
           /\ \A shape : PassesOf(Folded(NewestOnly(recorded), what), shape) =
                 PassesOf(recorded, shape) + (IF Shape(what) = shape THEN 1 ELSE 0)
<1> DEFINE row == NewestOnly(recorded)
           n == Len(recorded)
<1>1. CASE SameStreak(row, what)
  <2> DEFINE last == Last(recorded)
             rows == StreakCounted(recorded, last.id, last.passes + 1)
  <2>1. /\ recorded # <<>> /\ row = <<last>> /\ last \in Streaks /\ last = recorded[n]
        /\ n \in DOMAIN recorded /\ last.shape = Shape(what)
    BY <1>1, LastOf DEF SameStreak, NewestOnly
  <2>2. Folded(row, what) = rows
    BY <1>1, <2>1 DEF Folded, StreakCounted
  <2>3. last.passes + 1 \in Nat
    BY <2>1 DEF Streaks
  <2> HIDE DEF last
  <2>4. /\ rows \in Seq(Streaks) /\ Len(rows) = Len(recorded)
        /\ \A i \in DOMAIN recorded :
              /\ rows[i].id = recorded[i].id /\ rows[i].shape = recorded[i].shape
              /\ rows[i].passes = IF recorded[i].id = last.id THEN last.passes + 1 ELSE recorded[i].passes
    BY <2>3, StreaksRecounted
  <2> HIDE DEF rows
  <2>5. \A i \in DOMAIN recorded : recorded[i].id = last.id => i = n
    BY <2>1, AscendingIds
  <2>6. Alternating(rows)
    <3>1. \A i \in 2 .. Len(rows) : i \in DOMAIN recorded /\ i - 1 \in DOMAIN recorded
      BY <2>4
    <3> QED BY <2>4, <3>1 DEF Alternating
  <2>7. rows[n].passes = recorded[n].passes + 1
    BY <2>1, <2>4
  <2>8. \A i \in DOMAIN recorded :
           rows[i].shape = recorded[i].shape /\ (i # n => recorded[i].passes = rows[i].passes)
    BY <2>4, <2>5
  <2>9. \A shape : PassesOf(rows, shape) =
                     PassesOf(recorded, shape) + (IF recorded[n].shape = shape THEN 1 ELSE 0)
    <3>1. OneMoreAt(recorded, rows, n)
      BY <2>4, <2>7, <2>8 DEF OneMoreAt
    <3> QED BY <2>1, <2>4, <3>1, TotalOneMore
  <2> QED BY <2>1, <2>2, <2>6, <2>9
<1>2. CASE ~SameStreak(row, what)
  <2> DEFINE new == [id |-> LastId(recorded) + 1, shape |-> Shape(what), passes |-> 1]
  <2>1. new \in Streaks /\ new.id = LastId(recorded) + 1 /\ new.shape = Shape(what) /\ new.passes = 1
    <3>1. Shape(what) \in Shapes
      BY DEF Shape, Shapes
    <3>2. LastId(recorded) + 1 \in Nat \ {0}
      BY LastIdTyped
    <3> QED BY <3>1, <3>2 DEF Streaks
  <2>2. Folded(row, what) = Append(recorded, new)
    BY <1>2 DEF Folded
  <2>3. recorded # <<>> => recorded[n].shape # new.shape
    BY <1>2, <2>1, LastOf DEF SameStreak, NewestOnly
  <2> HIDE DEF new
  <2>4. \A shape : PassesOf(Append(recorded, new), shape) =
                     PassesOf(recorded, shape) + (IF Shape(what) = shape THEN 1 ELSE 0)
    BY <2>1, TotalAppended
  <2>5. Alternating(Append(recorded, new))
    <3> SUFFICES ASSUME NEW i \in 2 .. Len(Append(recorded, new))
                 PROVE  Append(recorded, new)[i].shape # Append(recorded, new)[i - 1].shape
      BY DEF Alternating
    <3>1. n \in Nat /\ Len(Append(recorded, new)) = n + 1 /\ DOMAIN recorded = 1 .. n
      OBVIOUS
    <3>2. CASE i = n + 1
      <4>1. n \in 1 .. n /\ i - 1 = n
        BY <3>1, <3>2
      <4>2. Append(recorded, new)[n] = recorded[n] /\ Append(recorded, new)[n + 1] = new
        BY <3>1, <4>1
      <4>3. recorded # <<>>
        BY <4>1
      <4> HIDE DEF n
      <4> QED BY <2>3, <3>2, <4>1, <4>2, <4>3
    <3>3. CASE i # n + 1
      <4>1. /\ i \in 2 .. n /\ Append(recorded, new)[i] = recorded[i]
            /\ Append(recorded, new)[i - 1] = recorded[i - 1]
        BY <3>1, <3>3
      <4> QED BY <4>1 DEF Alternating
    <3> QED BY <3>2, <3>3
  <2> QED BY <2>2, <2>4, <2>5
<1> QED BY <1>1, <1>2

\* What goes when the oldest are cut off, and the rest keeps.
LEMMA CutKeepsStreaks ==
    ASSUME NEW rows \in Seq(Streaks), NEW n \in Nat, n < Len(rows)
    PROVE  /\ OldestGone(rows, n) \in Seq(Streaks)
           /\ Len(OldestGone(rows, n)) = Len(rows) - n
           /\ \A i \in DOMAIN OldestGone(rows, n) :
                 n + i \in DOMAIN rows /\ OldestGone(rows, n)[i] = rows[n + i]
           /\ LastId(OldestGone(rows, n)) = LastId(rows)
           /\ (Ascending(rows) => Ascending(OldestGone(rows, n)))
           /\ (Alternating(rows) => Alternating(OldestGone(rows, n)))
<1> DEFINE rest == OldestGone(rows, n)  len == Len(rows)
<1>1. /\ rest \in Seq(Streaks) /\ Len(rest) = len - n /\ DOMAIN rest = 1 .. len - n
      /\ \A i \in 1 .. len - n : rest[i] = rows[n + i]
  <2>1. n \in 0 .. Len(rows) /\ Len(rows) \in Nat
    OBVIOUS
  <2>2. /\ OldestGone(rows, n) \in Seq(Streaks) /\ Len(OldestGone(rows, n)) = Len(rows) - n
        /\ \A i \in 1 .. Len(rows) - n : OldestGone(rows, n)[i] = rows[n + i]
    BY <2>1, OldestGoneOf
  <2> HIDE DEF rest
  <2> QED BY <2>1, <2>2 DEF rest
<1>2. len \in Nat /\ DOMAIN rows = 1 .. len /\ len - n \in 1 .. len - n /\ n + (len - n) = len
  OBVIOUS
<1> HIDE DEF rest
<1>3. \A i \in DOMAIN rest : n + i \in DOMAIN rows /\ rest[i] = rows[n + i]
  BY <1>1, <1>2
<1>4. LastId(rest) = LastId(rows)
  <2>1. rest # <<>> /\ rows # <<>> /\ rest[Len(rest)] = rows[len]
    BY <1>1, <1>2
  <2> QED BY <2>1 DEF LastId, Last
<1> HIDE DEF len
<1>5. ASSUME Ascending(rows) PROVE Ascending(rest)
  <2> SUFFICES ASSUME NEW i \in DOMAIN rest, NEW j \in DOMAIN rest, i < j
               PROVE  rest[i].id < rest[j].id
    BY DEF Ascending
  <2>1. n + i \in DOMAIN rows /\ n + j \in DOMAIN rows /\ n + i < n + j
    BY <1>1, <1>3
  <2> QED BY <1>3, <1>5, <2>1 DEF Ascending
<1>6. ASSUME Alternating(rows) PROVE Alternating(rest)
  <2> SUFFICES ASSUME NEW i \in 2 .. len - n PROVE rest[i].shape # rest[i - 1].shape
    BY <1>1 DEF Alternating
  <2>1. /\ n + i \in 2 .. len /\ i \in 1 .. len - n /\ i - 1 \in 1 .. len - n
        /\ n + (i - 1) = n + i - 1
    BY <1>2
  <2>2. rest[i] = rows[n + i] /\ rest[i - 1] = rows[n + i - 1]
    BY <1>1, <2>1
  <2> QED BY <1>6, <2>1, <2>2 DEF Alternating, len
<1> QED BY <1>1, <1>3, <1>4, <1>5, <1>6 DEF rest, len

\* What is cut off counts no more than the highest that was seen of it.
LEMMA CutKeepsHigh ==
    ASSUME NEW rows \in Seq(Streaks), NEW high \in Seq(Streaks), SameStreaks(rows, high),
           \A i \in DOMAIN rows : rows[i].passes <= high[i].passes,
           NEW n \in Nat, n < Len(rows)
    PROVE  /\ OldestGone(high, n) \in Seq(Streaks)
           /\ SameStreaks(OldestGone(rows, n), OldestGone(high, n))
           /\ \A i \in DOMAIN OldestGone(rows, n) :
                 OldestGone(rows, n)[i].passes <= OldestGone(high, n)[i].passes
           /\ \A f : Within(f, high) => Within(f, OldestGone(high, n))
           /\ \A shape : PassesOf(SubSeq(rows, 1, n), shape) + PassesOf(OldestGone(high, n), shape)
                            <= PassesOf(high, shape)
<1> DEFINE low == OldestGone(rows, n)  top == OldestGone(high, n)
           cut == SubSeq(rows, 1, n)  gone == SubSeq(high, 1, n)
<1>1. n < Len(high) /\ DOMAIN high = DOMAIN rows
  BY DEF SameStreaks
<1>2. /\ low \in Seq(Streaks) /\ Len(low) = Len(rows) - n
      /\ \A i \in DOMAIN low : n + i \in DOMAIN rows /\ low[i] = rows[n + i]
  BY CutKeepsStreaks
<1>3. /\ top \in Seq(Streaks) /\ Len(top) = Len(high) - n /\ LastId(top) = LastId(high)
      /\ \A i \in DOMAIN top : n + i \in DOMAIN high /\ top[i] = high[n + i]
  BY <1>1, CutKeepsStreaks
<1>4. /\ cut \in Seq(Streaks) /\ gone \in Seq(Streaks) /\ Len(cut) = n /\ Len(gone) = n
      /\ \A i \in 1 .. n : cut[i] = rows[i] /\ gone[i] = high[i] /\ i \in DOMAIN rows
  BY <1>1, SubSeqProperties
<1> HIDE DEF low, top, cut, gone
<1>5. DOMAIN low = DOMAIN top
  BY <1>2, <1>3 DEF SameStreaks
<1>6. SameStreaks(low, top)
  BY <1>2, <1>3, <1>5 DEF SameStreaks
<1>7. \A i \in DOMAIN low : low[i].passes <= top[i].passes
  BY <1>2, <1>3, <1>5
<1>8. ASSUME NEW f, Within(f, high) PROVE Within(f, top)
  BY <1>3, <1>8 DEF Within
<1>9. ASSUME NEW shape
      PROVE  PassesOf(cut, shape) + PassesOf(top, shape) <= PassesOf(high, shape)
  <2>1. PassesOf(high, shape) = PassesOf(gone, shape) + PassesOf(top, shape)
    <3>1. n \in 0 .. Len(high)
      BY <1>1
    <3> QED BY <3>1, TotalSplit DEF gone, top
  <2>2. PassesOf(cut, shape) <= PassesOf(gone, shape)
    <3>1. Len(gone) = Len(cut) /\ DOMAIN cut = 1 .. n
      BY <1>4
    <3>2. \A i \in DOMAIN cut : gone[i].shape = cut[i].shape /\ cut[i].passes <= gone[i].passes
      BY <1>4, <3>1 DEF SameStreaks
    <3> QED BY <1>4, <3>1, <3>2, TotalGrows
  <2>3. PassesOf(cut, shape) \in Nat /\ PassesOf(gone, shape) \in Nat /\ PassesOf(top, shape) \in Nat
    BY <1>3, <1>4, TotalTyped
  <2> QED BY <2>1, <2>2, <2>3
<1> QED BY <1>3, <1>6, <1>7, <1>8, <1>9 DEF low, top, cut

\* The passes made and those cut off, after a pass.
LEMMA CountsMove ==
    ASSUME Accounted, NEW shape \in Shapes, NEW more \in [Shapes -> Nat],
           completed' = [completed EXCEPT
              !.made[shape] = @ + 1, !.pruned = [s \in Shapes |-> @[s] + more[s]]]
    PROVE  /\ Accounted'
           /\ \A s \in Shapes : completed'.made[s] = completed.made[s] + (IF shape = s THEN 1 ELSE 0)
           /\ \A s \in Shapes : completed'.pruned[s] = completed.pruned[s] + more[s]
<1> DEFINE made == [completed.made EXCEPT ![shape] = @ + 1]
           pruned == [s \in Shapes |-> completed.pruned[s] + more[s]]
<1>1. made \in [Shapes -> Nat] /\ pruned \in [Shapes -> Nat]
  BY DEF Accounted
<1>2. completed'.made = made /\ completed'.pruned = pruned /\ Accounted'
  <2>1. completed' = [[completed EXCEPT !.made = made] EXCEPT !.pruned = pruned]
    OBVIOUS
  <2> HIDE DEF made, pruned
  <2> QED BY <1>1, <2>1 DEF Accounted
<1>3. \A s \in Shapes : made[s] = completed.made[s] + (IF shape = s THEN 1 ELSE 0)
  BY DEF Accounted
<1> QED BY <1>2, <1>3

\* The step that matters: a pass is folded in and the oldest are cut off.
LEMMA RecordStreakKeeps ==
    ASSUME StreakInv, NEW p \in Passes, RecordStreak(p)
    PROVE  StreakInv'
<1> DEFINE f == finder[p]
           what == f.what
           rows == Folded(f.row, what)
           n == IF Len(rows) > MaxReconcileRuns THEN Len(rows) - MaxReconcileRuns ELSE 0
           pruned == [shape \in Shapes |-> PassesOf(SubSeq(rows, 1, n), shape)]
<1>1. /\ DriftTyped' /\ finder'[p].pc = "rest" /\ f.pc = "record" /\ PassUnderway(p)
      /\ OnlyMoves(p) /\ mishaps' = mishaps
  BY RecordTyped DEF StreakInv, RecordStreak, PassUnderway, OnlyMoves, DriftTyped
<1>2. /\ recorded \in Seq(Streaks) /\ Ascending(recorded)
      /\ f.row \in {<<>>} \union {<<r>> : r \in Streaks}
  BY <1>1 DEF StreakInv, DriftTyped
<1>3. rows \in Seq(Streaks)
  BY <1>2, FoldedTyped
<1>4. PICK high : HighWater(high)
  BY DEF StreakInv, NoneMadeUp
<1>5. /\ high \in Seq(Streaks) /\ SameStreaks(recorded, high) /\ Within(f, high)
      /\ \A i \in DOMAIN recorded : recorded[i].passes <= high[i].passes
  BY <1>4 DEF HighWater
<1>6. f.row # <<>> => recorded # <<>>
  <2> SUFFICES ASSUME f.row # <<>>, recorded = <<>> PROVE FALSE
    OBVIOUS
  <2>1. f.row[1] \in Streaks /\ f.row[1].id <= LastId(high)
    BY <1>1, <1>2, <1>5 DEF Within
  <2>2. LastId(high) = 0
    BY <1>2, <1>5, SameLast DEF LastId
  <2> QED BY <2>1, <2>2 DEF Streaks
<1>7. Ascending(rows) /\ rows # <<>>
  <2> HIDE DEF f, what
  <2> QED BY <1>2, <1>6, FoldedAscends
<1>8. n \in Nat /\ n < Len(rows) /\ n \in 0 .. Len(rows)
  <2>1. Len(rows) \in Nat /\ Len(rows) > 0
    BY <1>3, <1>7
  <2> HIDE DEF rows
  <2> QED BY <2>1, DriftLogAssumption
<1>9. recorded' = OldestGone(rows, n)
  BY DEF RecordStreak
<1>10. completed' = [completed EXCEPT
          !.made[Shape(what)] = @ + 1, !.pruned = [s \in Shapes |-> @[s] + pruned[s]]]
  BY DEF RecordStreak
<1>11. Shape(what) \in Shapes
  BY DEF Shape, Shapes
<1> HIDE DEF rows, n
<1>12. SubSeq(rows, 1, n) \in Seq(Streaks)
  BY <1>3, <1>8, SubSeqProperties
<1>13. pruned \in [Shapes -> Nat]
  BY <1>12, TotalTyped
<1>14. \A s \in Shapes : pruned[s] = PassesOf(SubSeq(rows, 1, n), s)
  OBVIOUS
<1> HIDE DEF what, pruned
<1>15. /\ Accounted'
       /\ \A s \in Shapes : completed'.made[s] = completed.made[s] + (IF Shape(what) = s THEN 1 ELSE 0)
       /\ \A s \in Shapes : completed'.pruned[s] = completed.pruned[s] + pruned[s]
  BY <1>10, <1>11, <1>13, CountsMove DEF StreakInv
<1>16. Ascending(recorded') /\ recorded' \in Seq(Streaks)
  BY <1>3, <1>7, <1>8, <1>9, CutKeepsStreaks
<1>17. NoneMadeUp'
  <2>1. PICK higher \in Seq(Streaks) :
           /\ SameStreaks(rows, higher)
           /\ \A i \in DOMAIN rows : rows[i].passes <= higher[i].passes
           /\ \A shape : PassesOf(higher, shape) <=
                 PassesOf(high, shape) + (IF Shape(what) = shape THEN 1 ELSE 0)
           /\ \A g : Within(g, high) /\ (g.pc = "record" /\ g.row # <<>> => g.row[1] \in Streaks)
                        => Within(g, higher)
    <3> HIDE DEF f
    <3> QED BY <1>1, <1>2, <1>5, FoldedHigh DEF rows
  <2> DEFINE top == OldestGone(higher, n)
  <2>2. /\ top \in Seq(Streaks) /\ SameStreaks(recorded', top)
        /\ \A i \in DOMAIN recorded' : recorded'[i].passes <= top[i].passes
        /\ \A g : Within(g, higher) => Within(g, top)
        /\ \A shape : PassesOf(SubSeq(rows, 1, n), shape) + PassesOf(top, shape)
                         <= PassesOf(higher, shape)
    BY <1>3, <1>8, <1>9, <2>1, CutKeepsHigh
  <2> HIDE DEF top
  <2>3. ASSUME NEW q \in Passes PROVE Within(finder'[q], top)
    <3>1. CASE q = p
      BY <1>1, <3>1 DEF Within
    <3>2. CASE q # p
      <4>1. finder'[q] = finder[q] /\ Within(finder[q], high)
        BY <1>1, <1>4, <3>2 DEF OnlyMoves, HighWater
      <4>2. finder[q].pc = "record" /\ finder[q].row # <<>> => finder[q].row[1] \in Streaks
        BY DEF StreakInv, DriftTyped
      <4>3. Within(finder[q], higher)
        BY <2>1, <4>1, <4>2
      <4> QED BY <2>2, <4>1, <4>3
    <3> QED BY <3>1, <3>2
  <2>4. ASSUME NEW s \in Shapes
        PROVE  PassesOf(top, s) + completed'.pruned[s] <= completed'.made[s]
    <3>1. PassesOf(high, s) + completed.pruned[s] <= completed.made[s]
      BY <1>4 DEF HighWater, InAll
    <3>2. /\ PassesOf(top, s) \in Nat /\ PassesOf(higher, s) \in Nat /\ PassesOf(high, s) \in Nat
          /\ pruned[s] \in Nat
      BY <1>5, <1>13, <2>1, <2>2, TotalTyped
    <3>3. completed.made[s] \in Nat /\ completed.pruned[s] \in Nat
      BY DEF StreakInv, Accounted
    <3>4. pruned[s] + PassesOf(top, s) <= PassesOf(higher, s)
      BY <1>14, <2>2
    <3>5. PassesOf(higher, s) <= PassesOf(high, s) + (IF Shape(what) = s THEN 1 ELSE 0)
      BY <2>1
    <3> DEFINE one == IF Shape(what) = s THEN 1 ELSE 0
               a == PassesOf(top, s)  b == PassesOf(higher, s)  c == PassesOf(high, s)
               cut == completed.pruned[s]  made == completed.made[s]  gone == pruned[s]
    <3>6. completed'.made[s] = completed.made[s] + one /\ one \in Nat
          /\ completed'.pruned[s] = completed.pruned[s] + pruned[s]
      BY <1>15
    <3>7. /\ c + completed.pruned[s] <= completed.made[s] /\ pruned[s] + a <= b /\ b <= c + one
          /\ a \in Nat /\ b \in Nat /\ c \in Nat /\ pruned[s] \in Nat
      BY <3>1, <3>2, <3>4, <3>5
    <3>8. a + completed'.pruned[s] <= completed'.made[s]
      <4>1. /\ cut \in Nat /\ made \in Nat /\ gone \in Nat /\ one \in Nat
            /\ a \in Nat /\ b \in Nat /\ c \in Nat
            /\ c + cut <= made /\ gone + a <= b /\ b <= c + one
        BY <3>3, <3>6, <3>7
      <4>2. completed'.made[s] = made + one /\ completed'.pruned[s] = cut + gone
        BY <3>6
      <4> HIDE DEF one, a, b, c, cut, made, gone
      <4>3. a + (cut + gone) <= made + one
        BY <4>1
      <4> QED BY <4>2, <4>3
    <3> QED BY <3>8
  <2> QED BY <2>2, <2>3, <2>4 DEF NoneMadeUp, HighWater, InAll
<1>18. ASSUME "overlap" \notin mishaps PROVE NoneLost'
  <2>1. NoneLost
    BY <1>18 DEF StreakInv
  <2>2. /\ f.row = NewestOnly(recorded) /\ Alternating(recorded)
    BY <1>1, <2>1 DEF NoneLost
  <2>3. /\ Alternating(rows)
        /\ \A shape : PassesOf(rows, shape) =
              PassesOf(recorded, shape) + (IF Shape(what) = shape THEN 1 ELSE 0)
    BY <1>2, <2>2, FoldedOnNewest DEF rows
  <2>4. Alternating(recorded')
    BY <1>3, <1>8, <1>9, <2>3, CutKeepsStreaks
  <2>5. \A q \in Passes : ~PassUnderway(q)'
    <3> SUFFICES ASSUME NEW q \in Passes, q # p PROVE finder'[q].pc = "rest"
      BY <1>1 DEF PassUnderway
    <3> QED BY <1>1, <2>1 DEF NoneLost, OnePass, PassUnderway, OnlyMoves
  <2>6. ASSUME NEW s \in Shapes
        PROVE  PassesOf(recorded', s) + completed'.pruned[s] = completed'.made[s]
    <3>1. PassesOf(rows, s) = pruned[s] + PassesOf(recorded', s)
      BY <1>3, <1>8, <1>9, <1>14, TotalSplit
    <3>2. /\ PassesOf(recorded', s) \in Nat /\ PassesOf(recorded, s) \in Nat /\ pruned[s] \in Nat
      BY <1>2, <1>13, <1>16, TotalTyped
    <3>3. PassesOf(recorded, s) + completed.pruned[s] = completed.made[s]
      BY <2>1 DEF NoneLost, InAll
    <3>4. completed.made[s] \in Nat /\ completed.pruned[s] \in Nat
      BY DEF StreakInv, Accounted
    <3> QED BY <1>15, <2>3, <3>1, <3>2, <3>3, <3>4
  <2>7. \A q \in Passes : finder'[q].pc # "record"
    BY <2>5 DEF PassUnderway
  <2>8. OnePass'
    BY <2>5 DEF OnePass
  <2> QED BY <2>4, <2>6, <2>7, <2>8 DEF NoneLost, InAll
<1> QED BY <1>1, <1>15, <1>16, <1>17, <1>18 DEF StreakInv

LEMMA StreakInitHolds == DriftInit => StreakInv
<1> SUFFICES ASSUME DriftInit PROVE StreakInv
  OBVIOUS
<1>1. /\ NoPassYet \in Finders /\ NoPassYet.pc = "rest"
      /\ finder = [p \in Passes |-> NoPassYet] /\ recorded = <<>> /\ drift = <<>>
      /\ completed = [made |-> [shape \in Shapes |-> 0], pruned |-> [shape \in Shapes |-> 0]]
  BY DEF DriftInit, NoPassYet, Finders, Loadable, FinderPcs
<1>2. DriftTyped /\ Accounted
  BY <1>1 DEF DriftTyped, Accounted
<1>3. \A p \in Passes : finder[p].pc = "rest"
  BY <1>1
<1>4. \A shape \in Shapes : InAll(recorded, shape) = 0 /\ completed.made[shape] = 0
  <2> SUFFICES ASSUME NEW shape \in Shapes PROVE PassesOf(recorded, shape) = 0
    BY <1>1 DEF InAll
  <2>1. recorded \in Seq(Streaks) /\ Len(recorded) = 0
    BY <1>1
  <2>2. PICK f : Sums(recorded, shape, f) /\ PassesOf(recorded, shape) = f[Len(recorded)]
    BY <2>1, TotalOf
  <2> QED BY <2>1, <2>2 DEF Sums
<1>5. HighWater(recorded)
  BY <1>1, <1>3, <1>4 DEF HighWater, SameStreaks, Within
<1>6. NoneLost
  BY <1>1, <1>3, <1>4 DEF NoneLost, OnePass, PassUnderway, Alternating
<1>7. Ascending(recorded)
  BY <1>1 DEF Ascending
<1> QED BY <1>2, <1>5, <1>6, <1>7 DEF StreakInv, NoneMadeUp

\* The entries' steps leave the streaks alone.
LEMMA OtherStepKeepsStreaks ==
    ASSUME StreakInv, NEW p \in Passes,
           Find(p) \/ LookForStanding(p) \/ EnterFinding(p) \/ LookForExcess(p) \/ CutExcess(p)
    PROVE  StreakInv'
<1>1. DriftTyped' /\ finder'[p].pc # "record"
  <2>1. CASE Find(p)
    <3>1. PICK what \in Findings \union {NoFinding} :
             finder' = [finder EXCEPT ![p] = [NoPassYet EXCEPT
               !.pc = IF what = NoFinding THEN "streak" ELSE "look", !.what = what]]
      BY <2>1 DEF Find
    <3>2. DriftTyped' /\ finder'[p].pc = (IF what = NoFinding THEN "streak" ELSE "look")
      BY <2>1, <3>1, FindTyped DEF StreakInv
    <3> QED BY <3>2
  <2>2. CASE LookForStanding(p)
    BY <2>2, LookTyped DEF StreakInv
  <2>3. CASE EnterFinding(p)
    BY <2>3, EnterTyped DEF StreakInv
  <2>4. CASE LookForExcess(p)
    BY <2>4, ExcessTyped DEF StreakInv
  <2>5. CASE CutExcess(p)
    BY <2>5, CutTyped DEF StreakInv
  <2> QED BY <2>1, <2>2, <2>3, <2>4, <2>5
<1>2. OnlyMoves(p) /\ UNCHANGED <<recorded, completed>> /\ mishaps \subseteq mishaps'
  BY DEF Find, LookForStanding, EnterFinding, LookForExcess, CutExcess, OnlyMoves, StreakInv,
         DriftTyped
<1>3. \/ PassUnderway(p)
      \/ "overlap" \notin mishaps' => \A q \in Passes : ~PassUnderway(q)
  BY DEF Find, LookForStanding, EnterFinding, LookForExcess, CutExcess, PassUnderway
<1> QED BY <1>1, <1>2, <1>3, ElsewhereKeepsStreaks

\* No pass is ever counted that was not made, for any number of them that overlap and
\* whatever the cap; and as long as none overlap, every pass is and the streaks end where
\* the outcome changed.
THEOREM StreaksAccount == DriftSpec => []StreaksTrue
<1>1. StreakInv /\ [DriftNext]_driftVars => StreakInv'
  <2> SUFFICES ASSUME StreakInv, [DriftNext]_driftVars PROVE StreakInv'
    OBVIOUS
  <2>1. CASE ClearDrift \/ UNCHANGED driftVars
    <3>1. /\ UNCHANGED <<recorded, completed, finder>> /\ drift' \in Seq(Entries)
          /\ mishaps \subseteq mishaps'
      <4>1. CASE ClearDrift
        BY <4>1 DEF ClearDrift
      <4>2. CASE UNCHANGED driftVars
        BY <4>2 DEF driftVars, StreakInv, DriftTyped
      <4> QED BY <2>1, <4>1, <4>2
    <3>2. DriftTyped' /\ Accounted' /\ Ascending(recorded')
      BY <3>1 DEF StreakInv, DriftTyped, Accounted
    <3>3. NoneMadeUp'
      <4>1. PICK high : HighWater(high)
        BY DEF StreakInv, NoneMadeUp
      <4> QED BY <3>1, <4>1 DEF NoneMadeUp, HighWater, InAll
    <3>4. "overlap" \notin mishaps' => NoneLost'
      BY <3>1 DEF StreakInv, NoneLost, OnePass, PassUnderway, InAll, NewestOnly
    <3> QED BY <3>2, <3>3, <3>4 DEF StreakInv
  <2> QED
    BY <2>1, OtherStepKeepsStreaks, LookForStreakKeeps, RecordStreakKeeps DEF DriftNext
<1>2. StreakInv => StreaksTrue
  <2> SUFFICES ASSUME StreakInv PROVE StreaksTrue
    OBVIOUS
  <2>1. PICK high : HighWater(high)
    BY DEF StreakInv, NoneMadeUp
  <2>2. ASSUME NEW shape \in Shapes
        PROVE  InAll(recorded, shape) <= completed.made[shape]
    <3>1. recorded \in Seq(Streaks) /\ high \in Seq(Streaks)
      BY <2>1 DEF HighWater, StreakInv, DriftTyped
    <3>2. PassesOf(recorded, shape) <= PassesOf(high, shape)
      <4>1. /\ Len(high) = Len(recorded)
            /\ \A i \in DOMAIN recorded :
                  high[i].shape = recorded[i].shape /\ recorded[i].passes <= high[i].passes
        BY <2>1 DEF HighWater, SameStreaks
      <4> QED BY <3>1, <4>1, TotalGrows
    <3>3. /\ PassesOf(recorded, shape) \in Nat /\ PassesOf(high, shape) \in Nat
          /\ completed.pruned[shape] \in Nat /\ completed.made[shape] \in Nat
      BY <3>1, TotalTyped DEF StreakInv, Accounted
    <3>4. PassesOf(high, shape) + completed.pruned[shape] <= completed.made[shape]
      BY <2>1 DEF HighWater, InAll
    <3> QED BY <3>2, <3>3, <3>4 DEF InAll
  <2> QED BY <2>2 DEF StreaksTrue, StreakInv, NoneLost, InAll, Alternating
<1> QED BY <1>1, <1>2, StreakInitHolds, PTL DEF DriftSpec
=============================================================================

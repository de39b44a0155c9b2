------------------------ MODULE CentralState_proofs -------------------------
(***************************************************************************)
(* Proofs about CentralState, for any configurations, requests and         *)
(* handlers.  First the version history: pruning never takes one of the    *)
(* newest MaxVersions, and the history outgrows its bound only by those    *)
(* that still have to prune.  The cut is taken from a count that is old    *)
(* when the rows are deleted; it stays sound because others only add newer *)
(* versions and only delete below cuts that are sound themselves.  Then    *)
(* the types of the tables and of what each process holds, and that no two *)
(* rules get one id or one text.                                           *)
(***************************************************************************)
EXTENDS CentralState, FiniteSetTheorems, WellFoundedInduction, TLAPS

\* The numbers up to n are n.
LEMMA CountedUpTo ==
    ASSUME NEW n \in Nat
    PROVE  IsFiniteSet(1 .. n) /\ Cardinality(1 .. n) = n
BY FS_Interval

LEMMA BoundPositive == MaxVersions \in Nat /\ MaxVersions > 0
BY CentralStateAssumption

Newer(v) == {w \in DOMAIN versions : w > v}

ProcFcn == proc = [p \in Procs |-> proc[p]]

VersionIds ==
    /\ DOMAIN versions \subseteq Nat \ {0}
    /\ IsFiniteSet(DOMAIN versions)
    /\ DOMAIN versions = {} \/ \E m \in DOMAIN versions : \A w \in DOMAIN versions : w <= m

\* Where a process has stored a version and not pruned yet.
Pruning == {"prune", "cut"}

\* Enough versions are newer than where a handler is about to cut.
CutsSpare ==
    \A p \in Procs : proc[p].pc = "cut" =>
        proc[p].cut \in Nat \ {0} /\ Cardinality(Newer(proc[p].cut)) >= MaxVersions

\* The places the history is, or is about to be, cut at; nothing is below 0.
Marks == {0} \union {proc[p].cut : p \in {q \in Procs : proc[q].pc = "cut"}}

\* The processes that still have to prune, and are not going to do so at or below c.
Late(c) == {p \in Procs : proc[p].pc = "prune" \/ (proc[p].pc = "cut" /\ proc[p].cut > c)}

\* What a cut leaves is over the bound only by those that come after it.
CutsTight == \A c \in Marks : Cardinality(Newer(c)) <= MaxVersions + Cardinality(Late(c))

HistoryInv == ProcFcn /\ VersionIds /\ CutsSpare /\ CutsTight

\* What p does leaves the history as it is, and p is not pruning before or after.
Moves(p) ==
    /\ UNCHANGED versions
    /\ \/ UNCHANGED proc
       \/ /\ proc[p].pc \notin Pruning
          /\ \E new : proc' = [proc EXCEPT ![p] = new] /\ new.pc \notin Pruning

-----------------------------------------------------------------------------
(* Sets of numbers.                                                         *)

LEMMA SmallestThere ==
    ASSUME NEW S \in SUBSET Nat, S # {}
    PROVE  \E m \in S : \A w \in S : m <= w
<1>1. PICK m \in S : \A w \in S : ~(<<w, m>> \in OpToRel(<, Nat))
  BY WFMin, NatLessThanWellFounded
<1>2. \A w \in S : w \in Nat /\ m \in Nat
  OBVIOUS
<1>3. \A w \in S : ~(w < m)
  BY <1>1, <1>2 DEF OpToRel
<1> QED BY <1>2, <1>3

\* A set with an upper bound has a largest element, and that is its Max.
LEMMA MaxOfBounded ==
    ASSUME NEW S \in SUBSET Nat, S # {}, NEW bound \in Nat, \A w \in S : w <= bound
    PROVE  Max(S) \in S /\ \A w \in S : w <= Max(S)
<1> DEFINE depths == {bound - w : w \in S}
<1>1. depths \in SUBSET Nat /\ depths # {}
  <2>1. \A w \in S : bound - w \in Nat
    OBVIOUS
  <2> QED BY <2>1
<1>2. PICK d \in depths : \A e \in depths : d <= e
  BY <1>1, SmallestThere
<1>3. PICK m \in S : d = bound - m
  BY <1>2
<1>4. \A w \in S : w <= m
  <2>1. SUFFICES ASSUME NEW w \in S PROVE w <= m
    OBVIOUS
  <2>2. bound - w \in depths
    OBVIOUS
  <2>3. d <= bound - w
    BY <1>2, <2>2
  <2> QED BY <1>3, <2>3
<1>5. \A w \in S : m >= w
  BY <1>4
<1> QED BY <1>5 DEF Max

-----------------------------------------------------------------------------
(* The steps that leave the history alone.                                  *)

LEMMA MovesKeeps ==
    ASSUME HistoryInv, NEW p \in Procs, Moves(p)
    PROVE  HistoryInv'
<1>1. ProcFcn' /\ \A q \in Procs :
         /\ proc'[q].pc \in Pruning <=> proc[q].pc \in Pruning
         /\ proc'[q].pc \in Pruning => proc'[q] = proc[q]
  <2>1. CASE UNCHANGED proc
    BY <2>1 DEF HistoryInv, ProcFcn
  <2>2. ASSUME proc[p].pc \notin Pruning,
               NEW new, proc' = [proc EXCEPT ![p] = new], new.pc \notin Pruning
        PROVE  ProcFcn' /\ \A q \in Procs :
                  /\ proc'[q].pc \in Pruning <=> proc[q].pc \in Pruning
                  /\ proc'[q].pc \in Pruning => proc'[q] = proc[q]
    BY <2>2 DEF HistoryInv, ProcFcn
  <2> QED BY <2>1, <2>2 DEF Moves
<1>2. VersionIds'
  BY DEF Moves, HistoryInv, VersionIds
<1>3. \A v : Newer(v)' = Newer(v)
  BY DEF Moves, Newer
<1>4. CutsSpare'
  BY <1>1, <1>3 DEF HistoryInv, CutsSpare, Pruning
<1>5. CutsTight'
  <2>1. Marks' = Marks
    BY <1>1 DEF Marks, Pruning
  <2>2. \A c : Late(c)' = Late(c)
    BY <1>1 DEF Late, Pruning
  <2> QED BY <1>3, <2>1, <2>2 DEF HistoryInv, CutsTight
<1> QED BY <1>1, <1>2, <1>4, <1>5 DEF HistoryInv

LEMMA IdleNoCut == Idle.pc \notin Pruning
BY DEF Idle, Pruning

LEMMA FinishMoves ==
    ASSUME NEW p \in Procs, proc[p].pc \notin Pruning, Finish(p) \/ Refuse(p),
           UNCHANGED versions
    PROVE  Moves(p)
<1>1. proc' = [proc EXCEPT ![p] = Idle]
  BY DEF Finish, Refuse
<1> QED BY <1>1, IdleNoCut DEF Moves

LEMMA CommitMoves ==
    ASSUME NEW p \in Procs, proc[p].pc \notin Pruning,
           NEW next, Commit(p, next), next.pc \notin Pruning, UNCHANGED versions
    PROVE  Moves(p)
BY DEF Commit, Moves

LEMMA RecordingNoCut == \A p : Recording(p).pc \notin Pruning
BY DEF Recording, Pruning

LEMMA LookMoves ==
    ASSUME NEW h \in Procs,
           \/ LookForText(h) \/ LookForRow(h) \/ LookForSection(h) \/ LookForState(h)
           \/ Export(h) \/ ViewSections(h)
    PROVE  Moves(h)
<1>0. proc[h].pc \notin Pruning
  BY DEF LookForText, LookForRow, LookForSection, LookForState, Export, ViewSections, Pruning
<1>1. CASE LookForText(h)
  <2>1. UNCHANGED versions
    BY <1>1 DEF LookForText, RestUnchanged
  <2>2. CASE Finish(h) \/ Refuse(h)
    BY <2>1, <2>2, <1>0, FinishMoves
  <2>3. CASE proc' = [proc EXCEPT ![h] = Recording(h)]
    BY <2>1, <2>3, <1>0, RecordingNoCut DEF Moves
  <2>4. ASSUME NEW found, proc' = [proc EXCEPT ![h].pc = "commit", ![h].rows = found]
        PROVE  Moves(h)
    <3> DEFINE new == [proc[h] EXCEPT !.pc = "commit", !.rows = found]
    <3>1. new.pc \notin Pruning
      BY DEF Pruning
    <3>2. proc' = [proc EXCEPT ![h] = new]
      BY <2>4
    <3> HIDE DEF new
    <3> QED BY <1>0, <2>1, <3>1, <3>2 DEF Moves
  <2> QED BY <1>1, <2>2, <2>3, <2>4 DEF LookForText
<1>2. CASE LookForRow(h)
  <2>1. UNCHANGED versions
    BY <1>2 DEF LookForRow, Unchanged
  <2>2. CASE Refuse(h)
    BY <2>1, <2>2, <1>0, FinishMoves
  <2>3. ASSUME NEW found, proc' = [proc EXCEPT ![h].pc = "commit", ![h].rows = found]
        PROVE  Moves(h)
    <3> DEFINE new == [proc[h] EXCEPT !.pc = "commit", !.rows = found]
    <3>1. new.pc \notin Pruning
      BY DEF Pruning
    <3>2. proc' = [proc EXCEPT ![h] = new]
      BY <2>3
    <3> HIDE DEF new
    <3> QED BY <1>0, <2>1, <3>1, <3>2 DEF Moves
  <2> QED BY <1>2, <2>2, <2>3 DEF LookForRow
<1>3. CASE LookForSection(h)
  <2>1. UNCHANGED versions
    BY <1>3 DEF LookForSection, Unchanged
  <2>2. ASSUME NEW row, proc' = [proc EXCEPT ![h].pc = "commit", ![h].sec = row]
        PROVE  Moves(h)
    <3> DEFINE new == [proc[h] EXCEPT !.pc = "commit", !.sec = row]
    <3>1. new.pc \notin Pruning
      BY DEF Pruning
    <3>2. proc' = [proc EXCEPT ![h] = new]
      BY <2>2
    <3> HIDE DEF new
    <3> QED BY <1>0, <2>1, <3>1, <3>2 DEF Moves
  <2> QED BY <1>3, <2>2 DEF LookForSection
<1>4. CASE LookForState(h)
  <2>1. UNCHANGED versions
    BY <1>4 DEF LookForState, Unchanged
  <2>2. ASSUME NEW snap, proc' = [proc EXCEPT ![h].pc = "commit", ![h].snap = snap]
        PROVE  Moves(h)
    <3> DEFINE new == [proc[h] EXCEPT !.pc = "commit", !.snap = snap]
    <3>1. new.pc \notin Pruning
      BY DEF Pruning
    <3>2. proc' = [proc EXCEPT ![h] = new]
      BY <2>2
    <3> HIDE DEF new
    <3> QED BY <1>0, <2>1, <3>1, <3>2 DEF Moves
  <2>3. CASE proc' = [proc EXCEPT ![h] = Idle]
    BY <2>1, <2>3, <1>0, IdleNoCut DEF Moves
  <2> QED BY <1>4, <2>2, <2>3 DEF LookForState
<1>5. CASE Export(h)
  BY <1>5, <1>0, IdleNoCut DEF Export, Moves
<1>6. CASE ViewSections(h)
  <2>1. UNCHANGED versions
    BY <1>6 DEF ViewSections, Unchanged
  <2> QED BY <1>6, <2>1, <1>0, FinishMoves DEF ViewSections, Moves
<1> QED BY <1>1, <1>2, <1>3, <1>4, <1>5, <1>6

LEMMA WriteMoves ==
    ASSUME NEW h \in Procs,
           \/ CommitUpdate(h) \/ CommitDelete(h) \/ SetRules(h) \/ CommitList(h)
    PROVE  Moves(h)
<1>1. UNCHANGED versions /\ proc[h].pc \notin Pruning
  BY DEF CommitUpdate, CommitDelete, SetRules, CommitList, Unchanged, Pruning
<1>2. Refuse(h) \/ Commit(h, Recording(h))
  BY DEF CommitUpdate, CommitDelete, SetRules, CommitList
<1> QED BY <1>1, <1>2, FinishMoves, CommitMoves, RecordingNoCut

LEMMA AddMoves ==
    ASSUME NEW h \in Procs, CommitAdd(h)
    PROVE  Moves(h)
<1>1. UNCHANGED versions /\ proc[h].pc \notin Pruning
  BY DEF CommitAdd, RestUnchanged, Pruning
<1>2. /\ NotAdded(h) \/ Refuse(h) \/ Commit(h, Added(h))
      /\ proc[h].op.do \in {"create_rule", "allow_domain", "bulk_import"}
  BY DEF CommitAdd
<1>3. CASE NotAdded(h)
  <2>1. CASE Refuse(h) \/ Finish(h)
    BY <1>1, <2>1, FinishMoves
  <2>2. ASSUME NEW left, NEW expired,
               proc' = [proc EXCEPT ![h].pc = "look", ![h].left = left, ![h].expired = expired]
        PROVE  Moves(h)
    <3> DEFINE new == [proc[h] EXCEPT !.pc = "look", !.left = left, !.expired = expired]
    <3>1. new.pc \notin Pruning
      BY DEF Pruning
    <3>2. proc' = [proc EXCEPT ![h] = new]
      BY <2>2
    <3> HIDE DEF new
    <3> QED BY <1>1, <3>1, <3>2 DEF Moves
  <2>3. CASE proc[h].op.do = "bulk_import"
    BY <1>3, <2>2, <2>3 DEF NotAdded
  <2>4. CASE proc[h].op.do \in {"create_rule", "allow_domain"}
    BY <1>3, <2>1, <2>4 DEF NotAdded
  <2> QED BY <1>2, <2>3, <2>4
<1>4. Added(h).pc \notin Pruning
  BY RecordingNoCut DEF Added, Pruning
<1> QED BY <1>1, <1>2, <1>3, <1>4, FinishMoves, CommitMoves

\* While a section or a configuration is put in place the handler is at its commit.
LEMMA ReplaceMoves ==
    ASSUME NEW h \in Procs,
           CommitSection(h) \/ CommitRestore(h) \/ CommitImport(h)
    PROVE  Moves(h)
<1>1. UNCHANGED versions /\ proc[h].pc = "commit" /\ proc[h].pc \notin Pruning
  BY DEF CommitSection, CommitRestore, CommitImport, Unchanged, Pruning
<1>2. CASE CommitSection(h)
  <2> SUFFICES ASSUME NEW sec, Commit(h, [Recording(h) EXCEPT !.sec = sec])
               PROVE  Moves(h)
    BY <1>2 DEF CommitSection
  <2>1. [Recording(h) EXCEPT !.sec = sec].pc \notin Pruning
    BY RecordingNoCut
  <2> QED BY <1>1, <2>1, CommitMoves
<1>3. CASE CommitRestore(h)
  <2>1. CASE Commit(h, Recording(h))
    BY <1>1, <2>1, CommitMoves, RecordingNoCut
  <2>2. ASSUME NEW stop, Commit(h, Interrupted(proc[h], stop))
        PROVE  Moves(h)
    <3>1. Interrupted(proc[h], stop).pc \notin Pruning
      BY <1>1 DEF Interrupted, Pruning
    <3> QED BY <1>1, <2>2, <3>1, CommitMoves
  <2> QED BY <1>3, <2>1, <2>2 DEF CommitRestore
<1>4. CASE CommitImport(h)
  <2>1. CASE Commit(h, Recording(h))
    BY <1>1, <2>1, CommitMoves, RecordingNoCut
  <2>2. CASE Commit(h, [proc[h] EXCEPT !.swapped = TRUE])
    <3>1. [proc[h] EXCEPT !.swapped = TRUE].pc \notin Pruning
      BY <1>1 DEF Pruning
    <3> QED BY <1>1, <2>2, <3>1, CommitMoves
  <2>3. ASSUME NEW i, Commit(h, [proc[h] EXCEPT !.swapped = TRUE, !.done = i])
        PROVE  Moves(h)
    <3>1. [proc[h] EXCEPT !.swapped = TRUE, !.done = i].pc \notin Pruning
      BY <1>1 DEF Pruning
    <3> QED BY <1>1, <2>3, <3>1, CommitMoves
  <2> QED BY <1>4, <2>1, <2>2, <2>3 DEF CommitImport
<1> QED BY <1>2, <1>3, <1>4

LEMMA SnapMoves ==
    ASSUME NEW p \in Procs, SnapRules(p) \/ SnapRest(p)
    PROVE  Moves(p)
<1>1. UNCHANGED versions /\ proc[p].pc \notin Pruning
  BY DEF SnapRules, SnapRest, Unchanged, Pruning
<1>2. CASE SnapRules(p)
  <2> DEFINE new == [proc[p] EXCEPT !.pc = "snap2", !.snap = [Idle.snap EXCEPT !.rules = RuleEntries]]
  <2>1. new.pc \notin Pruning
    BY DEF Pruning
  <2>2. proc' = [proc EXCEPT ![p] = new]
    BY <1>2 DEF SnapRules
  <2> HIDE DEF new
  <2> QED BY <1>1, <2>1, <2>2 DEF Moves
<1>3. CASE SnapRest(p)
  <2> DEFINE new == [proc[p] EXCEPT !.pc = "store",
                                    !.snap = [rules |-> @.rules, lists |-> lists,
                                              sections |-> sections]]
  <2>1. new.pc \notin Pruning
    BY DEF Pruning
  <2>2. proc' = [proc EXCEPT ![p] = new]
    BY <1>3 DEF SnapRest
  <2> HIDE DEF new
  <2> QED BY <1>1, <2>1, <2>2 DEF Moves
<1> QED BY <1>2, <1>3

-----------------------------------------------------------------------------
(* The steps about the history.                                             *)

\* How many versions a set of ids has, where the history is finite.
LEMMA NewerCounted ==
    ASSUME HistoryInv, NEW c
    PROVE  /\ IsFiniteSet(Newer(c)) /\ Cardinality(Newer(c)) \in Nat
           /\ Newer(c) \subseteq DOMAIN versions
           /\ Cardinality(Newer(c)) <= Cardinality(DOMAIN versions)
           /\ Cardinality(DOMAIN versions) \in Nat
<1>1. IsFiniteSet(DOMAIN versions)
  BY DEF HistoryInv, VersionIds
<1>2. Newer(c) \in SUBSET DOMAIN versions
  BY DEF Newer
<1> QED BY <1>1, <1>2, FS_Subset, FS_CardinalityType

LEMMA ProcsFinite == IsFiniteSet(Procs)
BY FS_AddElement, CentralStateAssumption DEF Procs

LEMMA LateCounted ==
    ASSUME NEW c
    PROVE  IsFiniteSet(Late(c)) /\ Cardinality(Late(c)) \in Nat
<1>1. Late(c) \in SUBSET Procs
  BY DEF Late
<1> QED BY <1>1, ProcsFinite, FS_Subset, FS_CardinalityType

LEMMA MarksNat ==
    ASSUME HistoryInv, NEW c \in Marks
    PROVE  c \in Nat
BY DEF Marks, HistoryInv, CutsSpare

\* The number of the next version is above all that are kept.
LEMMA NextIsNewest ==
    ASSUME HistoryInv
    PROVE  NextVersion \in Nat \ {0} /\ \A w \in DOMAIN versions : w < NextVersion
<1> DEFINE D == DOMAIN versions
           top == Max(D \union {0})
<1>1. D \subseteq Nat \ {0} /\ \E bound \in Nat : \A w \in D \union {0} : w <= bound
  BY DEF HistoryInv, VersionIds
<1>2. D \union {0} \in SUBSET Nat /\ D \union {0} # {}
  BY <1>1
<1>3. top \in D \union {0} /\ \A w \in D \union {0} : w <= top
  BY <1>1, <1>2, MaxOfBounded
<1>4. NextVersion = 1 + top
  BY DEF NextVersion
<1>5. top \in Nat /\ \A w \in D : w <= top /\ w \in Nat
  BY <1>1, <1>3
<1> HIDE DEF top
<1> QED BY <1>4, <1>5

LEMMA StoreKeeps ==
    ASSUME HistoryInv, NEW p \in Procs, Store(p)
    PROVE  HistoryInv'
<1>0. proc[p].pc = "store" /\ proc[p].pc \notin Pruning
  BY DEF Store, Pruning
<1>1. CASE Identical(p)
  BY <1>0, <1>1, FinishMoves, MovesKeeps DEF Store
<1>2. CASE ~Identical(p)
  <2> DEFINE D == DOMAIN versions
             next == NextVersion
  <2>1. D \subseteq Nat \ {0} /\ IsFiniteSet(D)
    BY DEF HistoryInv, VersionIds
  <2>2. next \in Nat \ {0} /\ \A w \in D : w < next
    BY NextIsNewest
  <2>3. DOMAIN versions' = D \union {next}
    BY <1>2 DEF Store
  <2> DEFINE new == [proc[p] EXCEPT !.pc = "prune"]
  <2>4. new.pc = "prune" /\ proc' = [proc EXCEPT ![p] = new]
    BY <1>2 DEF Store
  <2> HIDE DEF D, next, new
  <2>5. ProcFcn' /\ proc'[p].pc = "prune" /\ \A q \in Procs : q # p => proc'[q] = proc[q]
    BY <2>4 DEF HistoryInv, ProcFcn
  <2>6. VersionIds'
    <3>1. IsFiniteSet(D \union {next})
      BY <2>1, FS_AddElement
    <3>2. \A w \in D \union {next} : w <= next /\ w \in Nat \ {0}
      BY <2>1, <2>2
    <3> QED BY <2>3, <3>1, <3>2 DEF VersionIds
  <2>7. ASSUME NEW c \in Nat
        PROVE  Cardinality(Newer(c)') \in
                  {Cardinality(Newer(c)), Cardinality(Newer(c)) + 1}
    <3>1. Newer(c)' = Newer(c) \/ Newer(c)' = Newer(c) \union {next}
      BY <2>2, <2>3 DEF Newer, D
    <3>2. next \notin Newer(c)
      BY <2>2 DEF Newer, D
    <3>3. IsFiniteSet(Newer(c))
      BY NewerCounted
    <3>4. Cardinality(Newer(c) \union {next}) = Cardinality(Newer(c)) + 1
      BY <3>2, <3>3, FS_AddElement
    <3> QED BY <3>1, <3>4
  <2>8. CutsSpare'
    <3> SUFFICES ASSUME NEW q \in Procs, proc'[q].pc = "cut"
                 PROVE  /\ proc'[q].cut \in Nat \ {0}
                        /\ Cardinality({w \in DOMAIN versions' : w > proc'[q].cut}) >= MaxVersions
      BY DEF CutsSpare, Newer
    <3>1. proc'[q] = proc[q] /\ proc[q].pc = "cut"
      BY <2>5
    <3> DEFINE cut == proc[q].cut
    <3>2. /\ cut \in Nat \ {0} /\ Cardinality(Newer(cut)) >= MaxVersions
          /\ proc'[q].cut = cut
      BY <3>1 DEF HistoryInv, CutsSpare
    <3> HIDE DEF cut
    <3>3. Cardinality({w \in DOMAIN versions' : w > cut}) \in
             {Cardinality(Newer(cut)), Cardinality(Newer(cut)) + 1}
      BY <2>7, <3>2 DEF Newer
    <3>4. Cardinality(Newer(cut)) \in Nat
      BY NewerCounted
    <3> QED BY <3>2, <3>3, <3>4, BoundPositive
  <2>9. CutsTight'
    <3>1. Marks' = Marks
      BY <1>0, <2>5 DEF Marks
    <3> SUFFICES ASSUME NEW c \in Marks
                 PROVE  Cardinality(Newer(c)') <= MaxVersions + Cardinality(Late(c)')
      BY <3>1 DEF CutsTight
    <3>2. Late(c)' = Late(c) \union {p} /\ p \notin Late(c)
      BY <1>0, <2>5 DEF Late
    <3>3. Cardinality(Late(c) \union {p}) = Cardinality(Late(c)) + 1
      BY <3>2, LateCounted, FS_AddElement
    <3> DEFINE newer == Cardinality(Newer(c))
               late == Cardinality(Late(c))
    <3>4. newer \in Nat /\ late \in Nat /\ newer <= MaxVersions + late
      BY NewerCounted, LateCounted DEF HistoryInv, CutsTight
    <3>5. Cardinality(Newer(c)') \in {newer, newer + 1} /\ Cardinality(Late(c)') = late + 1
      BY <2>7, <3>2, <3>3, MarksNat
    <3> HIDE DEF newer, late
    <3> QED BY <3>4, <3>5, BoundPositive
  <2> QED BY <2>5, <2>6, <2>8, <2>9 DEF HistoryInv
<1> QED BY <1>1, <1>2

\* The cut is a version with MaxVersions newer ones, and no more: the oldest of more than
\* MaxVersions is one such, and the newest of them is what Cutoff names.
LEMMA CutoffExact ==
    ASSUME HistoryInv, ~SmallEnough
    PROVE  Cutoff \in Nat \ {0} /\ Cardinality(Newer(Cutoff)) = MaxVersions
<1> DEFINE D == DOMAIN versions
           spared == {v \in D : Cardinality(Newer(v)) >= MaxVersions}
<1>1. /\ D \in SUBSET (Nat \ {0}) /\ D \in SUBSET Nat /\ IsFiniteSet(D) /\ Cardinality(D) \in Nat
      /\ \E bound \in Nat : \A w \in D : w <= bound
  <2>1. D \subseteq Nat \ {0} /\ IsFiniteSet(D)
    BY DEF HistoryInv, VersionIds
  <2>2. \E bound \in Nat : \A w \in D : w <= bound
    BY DEF HistoryInv, VersionIds
  <2> QED BY <2>1, <2>2, FS_CardinalityType
<1>2. Cardinality(D) > MaxVersions /\ D # {}
  BY <1>1, FS_EmptySet, BoundPositive DEF SmallEnough
<1>3. spared # {}
  <2>1. PICK m \in D : \A w \in D : m <= w
    BY <1>1, <1>2, SmallestThere
  <2>2. \A w \in D : w # m <=> w > m
    BY <1>1, <2>1
  <2>3. Newer(m) = D \ {m}
    BY <2>2 DEF Newer
  <2>4. Cardinality(D \ {m}) = Cardinality(D) - 1
    BY <1>1, <2>1, FS_RemoveElement
  <2> QED BY <1>1, <1>2, <2>1, <2>3, <2>4, BoundPositive
<1>4. Cutoff \in spared /\ \A v \in spared : v <= Cutoff
  <2>1. spared \in SUBSET Nat
    BY <1>1
  <2>2. Max(spared) \in spared /\ \A v \in spared : v <= Max(spared)
    BY <1>1, <1>3, <2>1, MaxOfBounded
  <2>3. Cutoff = Max(spared)
    BY DEF Cutoff, Newer
  <2> QED BY <2>2, <2>3
<1>5. Cardinality(Newer(Cutoff)) <= MaxVersions
  <2> DEFINE above == Newer(Cutoff)
  <2>1. above \in SUBSET D /\ above \in SUBSET Nat /\ IsFiniteSet(above) /\ Cardinality(above) \in Nat
    BY <1>1, NewerCounted
  <2>2. SUFFICES ASSUME Cardinality(above) > MaxVersions PROVE FALSE
    BY <2>1, BoundPositive
  <2>3. above # {}
    BY <2>2, FS_EmptySet, BoundPositive
  <2>4. PICK m \in above : \A w \in above : m <= w
    BY <2>1, <2>3, SmallestThere
  <2>5. m > Cutoff /\ m \in D
    BY <2>1, <2>4 DEF Newer
  <2>6. \A w \in D : (w \in above /\ w # m) <=> w > m
    BY <1>1, <1>4, <2>4, <2>5 DEF Newer
  <2>7. Newer(m) = above \ {m}
    BY <2>1, <2>6 DEF Newer
  <2>8. Cardinality(above \ {m}) = Cardinality(above) - 1
    BY <2>1, <2>4, FS_RemoveElement
  <2> DEFINE many == Cardinality(above)
  <2>9. many \in Nat /\ many > MaxVersions /\ Cardinality(Newer(m)) = many - 1
    BY <2>1, <2>2, <2>7, <2>8
  <2> HIDE DEF above, many
  <2>10. m \in spared
    BY <2>5, <2>9, BoundPositive
  <2> QED BY <1>1, <1>4, <2>5, <2>10
<1>6. Cutoff \in D /\ Cardinality(Newer(Cutoff)) >= MaxVersions
  BY <1>4
<1> HIDE DEF D
<1> QED BY <1>1, <1>5, <1>6, NewerCounted, BoundPositive

LEMMA CountKeeps ==
    ASSUME HistoryInv, NEW p \in Procs, CountVersions(p)
    PROVE  HistoryInv'
<1>1. UNCHANGED versions /\ proc[p].pc = "prune"
  BY DEF CountVersions, Unchanged
<1>2. VersionIds' /\ \A v : Newer(v)' = Newer(v)
  BY <1>1 DEF HistoryInv, VersionIds, Newer
<1>3. CASE SmallEnough
  <2>1. ProcFcn' /\ proc'[p] = Idle /\ \A q \in Procs : q # p => proc'[q] = proc[q]
    BY <1>3 DEF CountVersions, Finish, HistoryInv, ProcFcn
  <2>2. CutsSpare'
    BY <1>2, <2>1, IdleNoCut DEF HistoryInv, CutsSpare, Pruning
  <2>3. CutsTight'
    <3> SUFFICES ASSUME NEW c
                 PROVE  Cardinality(Newer(c)') <= MaxVersions + Cardinality(Late(c)')
      BY DEF CutsTight
    <3>1. Late(c)' \in SUBSET Procs
      BY DEF Late
    <3>2. Cardinality(Late(c)') \in Nat
      BY <3>1, ProcsFinite, FS_Subset, FS_CardinalityType
    <3>3. Cardinality(Newer(c)) \in Nat /\ Cardinality(Newer(c)) <= MaxVersions
      BY <1>3, NewerCounted, BoundPositive DEF SmallEnough
    <3> QED BY <1>2, <3>2, <3>3, BoundPositive
  <2> QED BY <1>2, <2>1, <2>2, <2>3 DEF HistoryInv
<1>4. CASE ~SmallEnough
  <2> DEFINE new == [proc[p] EXCEPT !.pc = "cut", !.cut = Cutoff]
  <2>1. proc' = [proc EXCEPT ![p] = new]
    BY <1>4 DEF CountVersions
  <2>2. ProcFcn
    BY DEF HistoryInv
  <2> HIDE DEF new
  <2>3. ProcFcn' /\ proc'[p] = new /\ \A q \in Procs : q # p => proc'[q] = proc[q]
    BY <2>1, <2>2 DEF ProcFcn
  <2>4. new.pc = "cut" /\ new.cut = Cutoff
    BY DEF new
  <2>5. Cutoff \in Nat \ {0} /\ Cardinality(Newer(Cutoff)) = MaxVersions
    BY <1>4, CutoffExact
  <2> DEFINE at == Cutoff
  <2>6. at \in Nat \ {0} /\ Cardinality(Newer(at)) = MaxVersions /\ proc'[p].cut = at
    BY <2>3, <2>4, <2>5
  <2> HIDE DEF at
  <2>7. CutsSpare'
    <3> SUFFICES ASSUME NEW q \in Procs, proc'[q].pc = "cut"
                 PROVE  /\ proc'[q].cut \in Nat \ {0}
                        /\ Cardinality(Newer(proc'[q].cut)) >= MaxVersions
      BY <1>2 DEF CutsSpare
    <3>1. CASE q = p
      BY <2>6, <3>1, BoundPositive
    <3>2. CASE q # p
      BY <2>3, <3>2 DEF HistoryInv, CutsSpare
    <3> QED BY <3>1, <3>2
  <2>8. CutsTight'
    <3> SUFFICES ASSUME NEW c \in Marks'
                 PROVE  Cardinality(Newer(c)) <= MaxVersions + Cardinality(Late(c)')
      BY <1>2 DEF CutsTight
    <3>1. Late(c)' \in SUBSET Procs
      BY DEF Late
    <3>2. Cardinality(Late(c)') \in Nat
      BY <3>1, ProcsFinite, FS_Subset, FS_CardinalityType
    <3>3. c = at \/ c \in Marks
      BY <1>1, <2>3, <2>6 DEF Marks
    <3>4. CASE c >= at /\ c \in Nat
      <4>1. Newer(c) \in SUBSET Newer(at)
        <5>1. DOMAIN versions \subseteq Nat
          BY DEF HistoryInv, VersionIds
        <5> QED BY <2>6, <3>4, <5>1 DEF Newer
      <4>2. Cardinality(Newer(c)) \in Nat /\ Cardinality(Newer(c)) <= MaxVersions
        BY <2>6, <4>1, NewerCounted, FS_Subset
      <4> QED BY <3>2, <4>2, BoundPositive
    <3>5. CASE c \in Marks /\ c < at
      <4>1. Late(c)' = Late(c)
        BY <1>1, <2>3, <2>4, <2>6, <3>5 DEF Late
      <4>2. Cardinality(Newer(c)) <= MaxVersions + Cardinality(Late(c))
        BY <3>5 DEF HistoryInv, CutsTight
      <4> QED BY <4>1, <4>2
    <3>6. c \in Nat
      BY <2>6, <3>3, MarksNat
    <3> QED BY <2>6, <3>3, <3>4, <3>5, <3>6
  <2> QED BY <1>2, <2>3, <2>7, <2>8 DEF HistoryInv
<1> QED BY <1>3, <1>4

LEMMA AboveTheCut ==
    ASSUME NEW D \in SUBSET Nat, NEW cut \in Nat, NEW v \in Nat
    PROVE  LET kept == {w \in D : w > cut}
           IN  {w \in kept : w > v} = IF v <= cut THEN kept ELSE {w \in D : w > v}
<1>1. \A w \in D : w > cut /\ v <= cut => w > v
  OBVIOUS
<1>2. \A w \in D : w > v /\ ~(v <= cut) => w > cut
  OBVIOUS
<1> QED BY <1>1, <1>2

LEMMA LargestKept ==
    ASSUME NEW D \in SUBSET Nat, NEW cut \in Nat, NEW m \in D, \A w \in D : w <= m,
           {w \in D : w > cut} # {}
    PROVE  m \in {w \in D : w > cut}
<1>1. PICK w \in D : w > cut /\ w <= m
  OBVIOUS
<1> QED BY <1>1

\* What is deleted is at or below p's cut, and what stays above it is enough for every
\* other cut as well.
LEMMA CutKeeps ==
    ASSUME HistoryInv, NEW p \in Procs, CutVersions(p)
    PROVE  /\ HistoryInv'
           /\ \A v \in DOMAIN versions \ DOMAIN versions' :
                 Cardinality({w \in DOMAIN versions' : w > v}) >= MaxVersions
<1> DEFINE D == DOMAIN versions
           cut == proc[p].cut
           kept == {w \in D : w > cut}
<1>1. D \in SUBSET Nat /\ D \subseteq Nat \ {0} /\ IsFiniteSet(D)
  BY DEF HistoryInv, VersionIds
<1>2. /\ cut \in Nat /\ cut # 0 /\ cut \in Marks /\ proc[p].pc = "cut"
      /\ Cardinality(kept) >= MaxVersions
      /\ Cardinality(kept) <= MaxVersions + Cardinality(Late(cut))
  BY DEF HistoryInv, CutVersions, CutsSpare, CutsTight, Marks, Newer
<1>3. DOMAIN versions' = kept
  BY DEF CutVersions, Restrict
<1>4. IsFiniteSet(kept) /\ kept # {}
  <2>1. IsFiniteSet(kept)
    BY <1>1, FS_Subset
  <2>2. Cardinality(kept) # 0
    BY <1>2, BoundPositive
  <2> QED BY <2>1, <2>2, FS_EmptySet
<1>5. ProcFcn' /\ proc'[p] = Idle /\ \A q \in Procs : q # p => proc'[q] = proc[q]
  BY DEF CutVersions, Finish, HistoryInv, ProcFcn
<1>6. VersionIds'
  <2>1. PICK m \in D : \A w \in D : w <= m
    BY <1>4 DEF HistoryInv, VersionIds
  <2>2. m \in kept
    BY <1>1, <1>2, <1>4, <2>1, LargestKept
  <2>3. \A w \in kept : w <= m
    BY <2>1
  <2>4. kept \subseteq Nat \ {0}
    BY <1>1
  <2> HIDE DEF kept
  <2> QED BY <1>3, <1>4, <2>2, <2>3, <2>4 DEF VersionIds
<1>7. ASSUME NEW v \in Nat
      PROVE  {w \in kept : w > v} = IF v <= cut THEN kept ELSE {w \in D : w > v}
  BY <1>1, <1>2, AboveTheCut
<1>8. CutsSpare'
  <2> SUFFICES ASSUME NEW q \in Procs, proc'[q].pc = "cut"
               PROVE  /\ proc'[q].cut \in Nat \ {0}
                      /\ Cardinality({w \in DOMAIN versions' : w > proc'[q].cut}) >= MaxVersions
    BY DEF CutsSpare, Newer
  <2> DEFINE other == proc[q].cut
  <2>1. proc'[q].cut = other /\ proc[q].pc = "cut"
    BY <1>5, IdleNoCut DEF Pruning
  <2>2. other \in Nat \ {0} /\ Cardinality({w \in D : w > other}) >= MaxVersions
    BY <2>1 DEF HistoryInv, CutsSpare, Newer
  <2> HIDE DEF D, cut, kept, other
  <2>3. Cardinality({w \in kept : w > other}) >= MaxVersions
    BY <1>2, <1>7, <2>2
  <2> QED BY <1>3, <2>1, <2>2, <2>3
<1>9. CutsTight'
  <2> SUFFICES ASSUME NEW c \in Marks'
               PROVE  Cardinality({w \in DOMAIN versions' : w > c})
                         <= MaxVersions + Cardinality(Late(c)')
    BY DEF CutsTight, Newer
  <2>1. c \in Marks /\ c \in Nat
    <3>1. c \in Marks
      BY <1>5, IdleNoCut DEF Marks, Pruning
    <3> QED BY <3>1, MarksNat
  <2>2. Late(c)' \in SUBSET Procs
    BY DEF Late
  <2>3. IsFiniteSet(Late(c)') /\ Cardinality(Late(c)') \in Nat
    BY <2>2, ProcsFinite, FS_Subset, FS_CardinalityType
  <2>4. CASE c < cut
    <3>1. Late(cut) \in SUBSET Late(c)'
      <4>1. ASSUME NEW q \in Late(cut) PROVE q \in Procs /\ q # p
        BY <1>2 DEF Late
      <4>2. ASSUME NEW q \in Late(cut), proc[q].pc = "cut"
            PROVE  proc[q].cut > c
        <5>1. proc[q].cut \in Nat /\ proc[q].cut > cut
          BY <4>2 DEF Late, HistoryInv, CutsSpare
        <5> HIDE DEF cut
        <5> QED BY <1>2, <2>1, <2>4, <5>1
      <4>3. ASSUME NEW q \in Late(cut) PROVE q \in Late(c)'
        <5>1. proc'[q] = proc[q] /\ q \in Procs
          BY <1>5, <4>1
        <5>2. proc[q].pc = "prune" \/ (proc[q].pc = "cut" /\ proc[q].cut > c)
          BY <4>2 DEF Late
        <5> QED BY <5>1, <5>2 DEF Late
      <4> QED BY <4>3
    <3>2. Cardinality(Late(cut)) <= Cardinality(Late(c)') /\ Cardinality(Late(cut)) \in Nat
      BY <2>3, <3>1, LateCounted, FS_Subset
    <3>3. {w \in kept : w > c} = kept
      BY <1>7, <2>1, <2>4, <1>2
    <3>4. Cardinality(kept) \in Nat
      BY <1>4, FS_CardinalityType
    <3> DEFINE held == Cardinality(kept)
               late == Cardinality(Late(cut))
    <3>5. /\ held \in Nat /\ late \in Nat /\ held <= MaxVersions + late
          /\ late <= Cardinality(Late(c)')
      BY <1>2, <3>2, <3>4
    <3> HIDE DEF held, late
    <3>6. held <= MaxVersions + Cardinality(Late(c)')
      BY <2>3, <3>5, BoundPositive
    <3> QED BY <1>3, <3>3, <3>6 DEF held
  <2>5. CASE ~(c < cut)
    <3>1. Late(c)' = Late(c)
      <4>1. p \notin Late(c) /\ p \notin Late(c)'
        BY <1>2, <1>5, <2>5, IdleNoCut DEF Late, Pruning
      <4> QED BY <1>5, <4>1 DEF Late
    <3>2. {w \in kept : w > c} = Newer(c)
      BY <1>1, <1>2, <2>1, <2>5 DEF Newer
    <3>3. Cardinality(Newer(c)) <= MaxVersions + Cardinality(Late(c))
      BY <2>1 DEF HistoryInv, CutsTight
    <3> QED BY <1>3, <3>1, <3>2, <3>3
  <2> QED BY <2>4, <2>5
<1>10. ASSUME NEW v \in D, v \notin DOMAIN versions'
       PROVE  Cardinality({w \in DOMAIN versions' : w > v}) >= MaxVersions
  <2>1. v \in Nat /\ v <= cut
    BY <1>1, <1>2, <1>3, <1>10
  <2> HIDE DEF D, cut, kept
  <2>2. {w \in kept : w > v} = kept
    BY <1>7, <2>1
  <2> QED BY <1>2, <1>3, <2>2
<1> QED BY <1>5, <1>6, <1>8, <1>9, <1>10 DEF HistoryInv

-----------------------------------------------------------------------------

LEMMA HistoryInitHolds == Init => HistoryInv
<1> SUFFICES ASSUME Init PROVE HistoryInv
  OBVIOUS
<1>1. ProcFcn /\ \A p \in Procs : proc[p].pc \notin Pruning
  BY IdleNoCut DEF Init, ProcFcn
<1>2. DOMAIN versions = {} \/ DOMAIN versions = {1}
  BY DEF Init
<1>3. IsFiniteSet({}) /\ IsFiniteSet({1}) /\ Cardinality({1}) = 1 /\ Cardinality({}) = 0
  BY FS_EmptySet, FS_Singleton
<1>4. VersionIds /\ CutsSpare
  BY <1>1, <1>2, <1>3 DEF VersionIds, CutsSpare, Pruning
<1>5. CutsTight
  <2>1. Marks = {0}
    BY <1>1 DEF Marks, Pruning
  <2>2. Newer(0) = {} \/ Newer(0) = {1}
    BY <1>2 DEF Newer
  <2>3. Cardinality(Newer(0)) \in 0 .. 1
    BY <1>3, <2>2
  <2> QED BY <2>1, <2>3, LateCounted, BoundPositive DEF CutsTight
<1> QED BY <1>1, <1>4, <1>5 DEF HistoryInv

\* Every step leaves the history alone, or is one of the three about it.
LEMMA HistorySteps ==
    ASSUME [Next]_vars
    PROVE  \E p \in Procs : Moves(p) \/ Store(p) \/ CountVersions(p) \/ CutVersions(p)
<1>1. ASSUME NEW h \in Handlers, Begin(h) \/ Work(h)
      PROVE  h \in Procs /\ Moves(h)
  <2>1. h \in Procs
    BY DEF Procs
  <2>2. CASE Work(h)
    BY <2>1, <2>2, LookMoves, WriteMoves, AddMoves, ReplaceMoves DEF Work
  <2>3. CASE Begin(h)
    <3>1. UNCHANGED versions /\ proc[h].pc \notin Pruning
      BY <2>3 DEF Begin, Pruning
    <3>2. PICK op, left :
             proc' = [proc EXCEPT ![h] = [Idle EXCEPT !.pc = "look", !.op = op, !.left = left]]
      BY <2>3 DEF Begin
    <3> DEFINE new == [Idle EXCEPT !.pc = "look", !.op = op, !.left = left]
    <3>3. new.pc \notin Pruning
      BY DEF Idle, Pruning
    <3> HIDE DEF new
    <3>4. Moves(h)
      BY <3>1, <3>2, <3>3 DEF Moves, new
    <3> QED BY <2>1, <3>4
  <2> QED BY <1>1, <2>1, <2>2, <2>3
<1>2. ASSUME NEW p \in Procs, RecordAndPush(p)
      PROVE  Moves(p) \/ Store(p) \/ CountVersions(p) \/ CutVersions(p)
  BY <1>2, WriteMoves, SnapMoves DEF RecordAndPush
<1>3. Sweeper \in Procs
  BY DEF Procs
<1>4. CASE SweepLook
  <2>1. UNCHANGED versions /\ proc[Sweeper].pc \notin Pruning
    BY <1>4 DEF SweepLook, Pruning
  <2>2. PICK op, due :
           proc' = [proc EXCEPT ![Sweeper] = [Idle EXCEPT !.pc = "commit", !.op = op, !.rows = due]]
    BY <1>4 DEF SweepLook
  <2> DEFINE new == [Idle EXCEPT !.pc = "commit", !.op = op, !.rows = due]
  <2>3. new.pc \notin Pruning
    BY DEF Idle, Pruning
  <2> HIDE DEF new
  <2>4. Moves(Sweeper)
    BY <2>1, <2>2, <2>3 DEF Moves, new
  <2> QED BY <1>3, <2>4
<1>5. CASE FallDue \/ UNCHANGED vars
  <2>1. UNCHANGED <<versions, proc>>
    BY <1>5 DEF FallDue, vars
  <2>2. Moves(Sweeper)
    BY <2>1 DEF Moves
  <2> QED BY <1>3, <2>2
<1> QED BY <1>1, <1>2, <1>4, <1>5 DEF Next

\* A step keeps the invariant, and deletes only what the property allows.
LEMMA HistoryStep ==
    ASSUME HistoryInv, [Next]_vars
    PROVE  /\ HistoryInv'
           /\ \A v \in DOMAIN versions \ DOMAIN versions' :
                 Cardinality({w \in DOMAIN versions' : w > v}) >= MaxVersions
<1>1. PICK p \in Procs : Moves(p) \/ Store(p) \/ CountVersions(p) \/ CutVersions(p)
  BY HistorySteps
<1>2. CASE Moves(p)
  BY <1>2, MovesKeeps DEF Moves
<1>3. CASE Store(p)
  <2>1. DOMAIN versions \subseteq DOMAIN versions'
    BY <1>3 DEF Store
  <2> QED BY <1>3, <2>1, StoreKeeps
<1>4. CASE CountVersions(p)
  BY <1>4, CountKeeps DEF CountVersions, Unchanged
<1>5. CASE CutVersions(p)
  BY <1>5, CutKeeps
<1> QED BY <1>1, <1>2, <1>3, <1>4, <1>5

\* With nothing cut so far, the bound is over by those that still have to prune.
LEMMA TightIsBounded == HistoryInv => HistoryBounded
<1> SUFFICES ASSUME HistoryInv PROVE HistoryBounded
  OBVIOUS
<1>1. Newer(0) = DOMAIN versions
  <2>1. \A w \in DOMAIN versions : w \in Nat \ {0}
    BY DEF HistoryInv, VersionIds
  <2>2. \A w \in DOMAIN versions : w > 0
    BY <2>1
  <2> QED BY <2>2 DEF Newer
<1>2. Late(0) = {p \in Procs : proc[p].pc \in {"prune", "cut"}}
  <2>1. ASSUME NEW p \in Procs, proc[p].pc = "cut"
        PROVE  proc[p].cut > 0
    <3> DEFINE cut == proc[p].cut
    <3>1. cut \in Nat \ {0}
      BY <2>1 DEF HistoryInv, CutsSpare
    <3> HIDE DEF cut
    <3>2. cut > 0
      BY <3>1
    <3> QED BY <3>2 DEF cut
  <2> QED BY <2>1 DEF Late
<1>3. 0 \in Marks
  BY DEF Marks
<1> QED BY <1>1, <1>2, <1>3 DEF HistoryInv, CutsTight, HistoryBounded

\* A version leaves the history only when MaxVersions newer ones stay, whoever prunes.
THEOREM NewestSpared == Spec => NewestKept
<1>1. HistoryInv /\ [Next]_vars => HistoryInv'
  BY HistoryStep
<1>2. HistoryInv /\ [Next]_vars =>
         [\A v \in DOMAIN versions \ DOMAIN versions' :
            Cardinality({w \in DOMAIN versions' : w > v}) >= MaxVersions]_vars
  BY HistoryStep
<1> QED BY <1>1, <1>2, HistoryInitHolds, PTL DEF Spec, NewestKept

\* The history outgrows its bound only by handlers that still have to prune it, however
\* many record at once and however old the counts are that they prune by.
THEOREM HistoryStaysBounded == Spec => []HistoryBounded
<1>1. HistoryInv /\ [Next]_vars => HistoryInv'
  BY HistoryStep
<1> QED BY <1>1, HistoryInitHolds, TightIsBounded, PTL DEF Spec

-----------------------------------------------------------------------------
(* What the tables and the processes hold.                                 *)

Kinds == {"rules", "filters", "settings"}

RuleRows == [id : Nat \ {0}, text : Texts, on : BOOLEAN, exp : {"never", "pending", "due"}]

\* A rules table: ids and texts name one row each.
Tables == {rs \in SUBSET RuleRows :
              IsFiniteSet(rs) /\ \A r, q \in rs : r.id = q.id \/ r.text = q.text => r = q}

ListTables == UNION {[urls -> BOOLEAN] : urls \in SUBSET Urls}

SectionTables == UNION {[names -> SectionRows] : names \in SUBSET Names}

RuleChanges == [on : BOOLEAN] \union [exp : {"never", "pending"}] \union [text : Texts]

SectionChanges == [managed : BOOLEAN] \union [doc : SUBSET Keys]

\* What a request or a sweep can be about, whatever the tables hold.
Ops ==
    [do : {"none", "sweep", "list_sections", "export"}]
    \union [do : {"create_rule", "allow_domain"}, text : Texts, minutes : BOOLEAN]
    \union [do : {"bulk_import", "set_rules"}, texts : {s \in Seq(Texts) : IsInjective(s)}]
    \union [do : {"delete_rule"}, id : Nat]
    \union [do : {"update_rule"}, id : Nat, change : RuleChanges]
    \union [do : {"create_filter_list", "add_url", "remove_url", "delete_filter_list"}, url : Urls]
    \union [do : {"update_filter_list", "set_url"}, url : Urls, on : BOOLEAN]
    \union [do : {"update_section"}, name : Names, change : SectionChanges]
    \union [do : {"write_section"}, name : Names, key : Keys, on : BOOLEAN]
    \union [do : {"restore_version"}, version : Nat, push : BOOLEAN]
    \union [do : {"restore"}, push : BOOLEAN]
    \union [do : {"import_instance"}, replace : BOOLEAN, push : BOOLEAN]

Workers ==
    [pc : {"idle", "look", "commit", "snap", "snap2", "store", "prune", "cut"},
     op : Ops, rows : SUBSET RuleRows, sec : SectionRows, left : Seq(Texts), snap : Snapshots,
     swapped : BOOLEAN, expired : BOOLEAN, done : Nat, cut : Nat]

\* Part of the work is committed.
Begun(e) == e.swapped \/ e.done > 0

\* How far a process can be with what it does.
Phase(e) ==
    /\ e.pc = "idle" => e = Idle
    /\ e.pc = "look" => ~e.swapped /\ (e.done > 0 => e.op.do = "bulk_import")
    /\ e.pc = "commit" /\ Begun(e) =>
          e.op.do \in {"bulk_import", "restore", "restore_version", "import_instance"}
    /\ e.pc = "commit" /\ e.op.do = "bulk_import" => e.left # <<>> /\ ~e.swapped
    /\ e.op.do \in {"restore", "restore_version", "import_instance"} =>
          e.done <= Len(SectionNames)

ProcsTyped == ProcFcn /\ \A p \in Procs : proc[p] \in Workers /\ Phase(proc[p])

TypeInv ==
    /\ rules \in Tables /\ lists \in ListTables /\ sections \in SectionTables
    /\ \A v \in DOMAIN versions : versions[v] \in Snapshots
    /\ file \in Snapshots
    /\ ProcsTyped
    /\ owed \subseteq Kinds /\ mishaps \subseteq {"overlap", "half"} /\ edits \in 0 .. MaxEdits

\* The parts of a snapshot.
LEMMA SnapshotShape ==
    Snapshots = [rules : {s \in Seq(Entries) : \A i, j \in DOMAIN s : s[i].text = s[j].text => i = j},
                 lists : ListTables, sections : SectionTables]
BY DEF Snapshots, ListTables, SectionTables

\* Nothing at all is a table of subscriptions, and one of sections.
LEMMA NoneTyped == <<>> \in ListTables /\ <<>> \in SectionTables
<1>1. <<>> \in [{} -> BOOLEAN] /\ <<>> \in [{} -> SectionRows]
  OBVIOUS
<1> QED BY <1>1 DEF ListTables, SectionTables

\* What a table of subscriptions, and one of sections, amounts to.
LEMMA ListTable ==
    ASSUME NEW f
    PROVE  f \in ListTables <=>
              /\ f = [u \in DOMAIN f |-> f[u]] /\ DOMAIN f \subseteq Urls
              /\ \A u \in DOMAIN f : f[u] \in BOOLEAN
<1>1. ASSUME f \in ListTables
      PROVE  /\ f = [u \in DOMAIN f |-> f[u]] /\ DOMAIN f \subseteq Urls
             /\ \A u \in DOMAIN f : f[u] \in BOOLEAN
  BY <1>1 DEF ListTables
<1>2. ASSUME f = [u \in DOMAIN f |-> f[u]] /\ DOMAIN f \subseteq Urls
             /\ \A u \in DOMAIN f : f[u] \in BOOLEAN
      PROVE  f \in ListTables
  <2>1. f \in [DOMAIN f -> BOOLEAN]
    BY <1>2
  <2> QED BY <1>2, <2>1 DEF ListTables
<1> QED BY <1>1, <1>2

LEMMA SectionTable ==
    ASSUME NEW f
    PROVE  f \in SectionTables <=>
              /\ f = [n \in DOMAIN f |-> f[n]] /\ DOMAIN f \subseteq Names
              /\ \A n \in DOMAIN f : f[n] \in SectionRows
<1>1. ASSUME f \in SectionTables
      PROVE  /\ f = [n \in DOMAIN f |-> f[n]] /\ DOMAIN f \subseteq Names
             /\ \A n \in DOMAIN f : f[n] \in SectionRows
  BY <1>1 DEF SectionTables
<1>2. ASSUME f = [n \in DOMAIN f |-> f[n]] /\ DOMAIN f \subseteq Names
             /\ \A n \in DOMAIN f : f[n] \in SectionRows
      PROVE  f \in SectionTables
  <2>1. f \in [DOMAIN f -> SectionRows]
    BY <1>2
  <2> QED BY <1>2, <2>1 DEF SectionTables
<1> QED BY <1>1, <1>2

\* The fields of a request, by what it asks for.
LEMMA OpShapes ==
    ASSUME NEW op \in Ops
    PROVE  /\ op.do \in {"create_rule", "allow_domain"} => op.text \in Texts /\ op.minutes \in BOOLEAN
           /\ op.do \in {"bulk_import", "set_rules"} => op.texts \in Seq(Texts) /\ IsInjective(op.texts)
           /\ op.do = "update_rule" => op.change \in RuleChanges
           /\ op.do \in {"create_filter_list", "add_url"} => op.url \in Urls
           /\ op.do \in {"update_filter_list", "set_url"} => op.url \in Urls /\ op.on \in BOOLEAN
           /\ op.do = "update_section" => op.name \in Names /\ op.change \in SectionChanges
           /\ op.do = "write_section" => op.name \in Names /\ op.key \in Keys
           /\ op.do \in {"restore", "restore_version", "import_instance"} => op.push \in BOOLEAN
           /\ "push" \in DOMAIN op <=> op.do \in {"restore", "restore_version", "import_instance"}
<1> USE DEF Ops
<1>1. op.do \in {"create_rule", "allow_domain"} => op.text \in Texts /\ op.minutes \in BOOLEAN
  OBVIOUS
<1>2. op.do \in {"bulk_import", "set_rules"} => op.texts \in Seq(Texts) /\ IsInjective(op.texts)
  OBVIOUS
<1>3. op.do = "update_rule" => op.change \in RuleChanges
  OBVIOUS
<1>4. op.do \in {"create_filter_list", "add_url"} => op.url \in Urls
  OBVIOUS
<1>5. op.do \in {"update_filter_list", "set_url"} => op.url \in Urls /\ op.on \in BOOLEAN
  OBVIOUS
<1>6. op.do = "update_section" => op.name \in Names /\ op.change \in SectionChanges
  OBVIOUS
<1>7. op.do = "write_section" => op.name \in Names /\ op.key \in Keys
  OBVIOUS
<1>8. op.do \in {"restore", "restore_version", "import_instance"} => op.push \in BOOLEAN
  OBVIOUS
<1>9. "push" \in DOMAIN op <=> op.do \in {"restore", "restore_version", "import_instance"}
  OBVIOUS
<1> QED BY <1>1, <1>2, <1>3, <1>4, <1>5, <1>6, <1>7, <1>8, <1>9

\* Every request that can be made is one of these.
LEMMA RequestsTyped ==
    ASSUME TypeInv, DOMAIN versions \subseteq Nat, NEW op \in Requests
    PROVE  op \in Ops
<1>1. ASSUME op \in RuleRequests PROVE op \in Ops
  <2>1. \A r \in rules : r.id \in Nat
    BY DEF TypeInv, Tables, RuleRows
  <2>2. ASSUME NEW s \in SeqOf(Texts, 2) PROVE s \in Seq(Texts)
    <3>1. PICK m \in 0 .. 2 : s \in [1 .. m -> Texts]
      BY DEF SeqOf
    <3> QED BY <3>1
  <2> QED BY <1>1, <2>1, <2>2 DEF RuleRequests, Ops, RuleChanges
<1>2. ASSUME op \in ListRequests PROVE op \in Ops
  BY <1>2 DEF ListRequests, Ops
<1>3. ASSUME op \in SectionRequests PROVE op \in Ops
  BY <1>3 DEF SectionRequests, Ops, SectionChanges
<1>4. ASSUME op \in StateRequests PROVE op \in Ops
  BY <1>4 DEF StateRequests, Ops
<1> QED BY <1>1, <1>2, <1>3, <1>4 DEF Requests

\* A process with nothing to do.
LEMMA IdleTyped == Idle \in Workers /\ Phase(Idle) /\ Idle.snap \in Snapshots
<1>1. Idle.snap \in Snapshots
  <2>1. <<>> \in {s \in Seq(Entries) : \A i, j \in DOMAIN s : s[i].text = s[j].text => i = j}
    OBVIOUS
  <2> QED BY <2>1, NoneTyped, SnapshotShape DEF Idle
<1>2. Bare \in SectionRows
  BY DEF Bare, SectionRows
<1>3. Idle \in Workers
  BY <1>1, <1>2 DEF Idle, Workers, Ops
<1>4. Phase(Idle)
  BY DEF Idle, Phase, Begun
<1> QED BY <1>1, <1>3, <1>4

-----------------------------------------------------------------------------
(* A snapshot of the rules.                                                *)

\* The rows of rs up to the row's id, and how many they are.
Lower(rs, row) == {r \in rs : r.id <= row.id}

PlaceIn(rs, row) == Cardinality(Lower(rs, row))

EntriesOf(rs) ==
    [i \in 1 .. Cardinality(rs) |->
        LET row == CHOOSE r \in rs : PlaceIn(rs, r) = i IN [text |-> row.text, on |-> row.on]]

\* RuleEntries of CentralState, now and after a step.
LEMMA EntriesHere == RuleEntries = EntriesOf(rules) /\ RuleEntries' = EntriesOf(rules')
BY DEF RuleEntries, EntriesOf, Place, PlaceIn, Lower

\* A larger id has a later place.
LEMMA PlacesDiffer ==
    ASSUME NEW rs \in Tables, NEW r \in rs, NEW q \in rs, r # q
    PROVE  PlaceIn(rs, r) # PlaceIn(rs, q)
<1>1. ASSUME NEW a \in rs, NEW b \in rs, a.id < b.id
      PROVE  PlaceIn(rs, a) < PlaceIn(rs, b)
  <2>1. IsFiniteSet(rs) /\ \A x \in rs : x.id \in Nat
    BY DEF Tables, RuleRows
  <2>2. Lower(rs, b) \in SUBSET rs
    BY DEF Lower
  <2>3. IsFiniteSet(Lower(rs, b)) /\ Cardinality(Lower(rs, b)) \in Nat
    BY <2>1, <2>2, FS_Subset, FS_CardinalityType
  <2>4. Lower(rs, a) \in SUBSET Lower(rs, b) /\ b \in Lower(rs, b) /\ b \notin Lower(rs, a)
    BY <1>1, <2>1 DEF Lower
  <2>5. /\ IsFiniteSet(Lower(rs, a)) /\ Cardinality(Lower(rs, a)) \in Nat
        /\ Cardinality(Lower(rs, a)) <= Cardinality(Lower(rs, b))
        /\ Cardinality(Lower(rs, a)) # Cardinality(Lower(rs, b))
    BY <2>3, <2>4, FS_Subset, FS_CardinalityType
  <2> QED BY <2>3, <2>5 DEF PlaceIn
<1>2. r.id \in Nat /\ q.id \in Nat /\ r.id # q.id
  BY DEF Tables, RuleRows
<1>3. \A x \in rs : PlaceIn(rs, x) \in Nat
  <2> TAKE x \in rs
  <2>1. Lower(rs, x) \in SUBSET rs /\ IsFiniteSet(rs)
    BY DEF Lower, Tables
  <2> QED BY <2>1, FS_Subset, FS_CardinalityType DEF PlaceIn
<1>4. CASE r.id < q.id
  <2>1. PlaceIn(rs, r) < PlaceIn(rs, q)
    BY <1>1, <1>4
  <2> QED BY <1>3, <2>1
<1>5. CASE q.id < r.id
  <2>1. PlaceIn(rs, q) < PlaceIn(rs, r)
    BY <1>1, <1>5
  <2> QED BY <1>3, <2>1
<1> QED BY <1>2, <1>4, <1>5

\* Every place up to the number of rows is that of one row.
LEMMA PlacesTaken ==
    ASSUME NEW rs \in Tables
    PROVE  /\ Cardinality(rs) \in Nat
           /\ \A r \in rs : PlaceIn(rs, r) \in 1 .. Cardinality(rs)
           /\ \A i \in 1 .. Cardinality(rs) : \E r \in rs : PlaceIn(rs, r) = i
<1> DEFINE n == Cardinality(rs)
           place == [r \in rs |-> PlaceIn(rs, r)]
<1>1. IsFiniteSet(rs) /\ n \in Nat
  BY FS_CardinalityType DEF Tables
<1>2. ASSUME NEW r \in rs PROVE PlaceIn(rs, r) \in 1 .. n
  <2>1. Lower(rs, r) \in SUBSET rs
    BY DEF Lower
  <2>2. r \in Lower(rs, r)
    <3>1. r.id \in Nat
      BY DEF Tables, RuleRows
    <3> QED BY <3>1 DEF Lower
  <2>3. /\ IsFiniteSet(Lower(rs, r)) /\ Cardinality(Lower(rs, r)) \in Nat
        /\ Cardinality(Lower(rs, r)) <= n
    BY <1>1, <2>1, FS_Subset, FS_CardinalityType
  <2>4. Cardinality(Lower(rs, r)) # 0
    BY <2>2, <2>3, FS_EmptySet
  <2> HIDE DEF n
  <2> QED BY <1>1, <2>3, <2>4 DEF PlaceIn
<1>3. place \in Injection(rs, 1 .. n)
  BY <1>2, PlacesDiffer DEF Injection, IsInjective
<1>4. IsFiniteSet(1 .. n) /\ Cardinality(1 .. n) = n
  BY <1>1, CountedUpTo
<1>5. place \in Surjection(rs, 1 .. n)
  BY <1>3, <1>4, FS_Injection
<1>6. \A i \in 1 .. n : \E r \in rs : place[r] = i
  BY <1>5 DEF Surjection
<1> QED BY <1>1, <1>2, <1>6

\* The row at a place is the one that the CHOOSE of RuleEntries finds.
LEMMA EntryAt ==
    ASSUME NEW rs \in Tables, NEW r \in rs
    PROVE  /\ PlaceIn(rs, r) \in DOMAIN EntriesOf(rs)
           /\ EntriesOf(rs)[PlaceIn(rs, r)] = [text |-> r.text, on |-> r.on]
<1>1. PlaceIn(rs, r) \in 1 .. Cardinality(rs)
  BY PlacesTaken
<1>2. (CHOOSE q \in rs : PlaceIn(rs, q) = PlaceIn(rs, r)) = r
  <2>1. \A q \in rs : PlaceIn(rs, q) = PlaceIn(rs, r) => q = r
    BY PlacesDiffer
  <2> QED BY <2>1
<1> QED BY <1>1, <1>2 DEF EntriesOf

LEMMA EntryOf ==
    ASSUME NEW rs \in Tables, NEW i \in DOMAIN EntriesOf(rs)
    PROVE  \E r \in rs : PlaceIn(rs, r) = i /\ EntriesOf(rs)[i] = [text |-> r.text, on |-> r.on]
<1>1. i \in 1 .. Cardinality(rs)
  BY DEF EntriesOf
<1>2. PICK r \in rs : PlaceIn(rs, r) = i
  BY <1>1, PlacesTaken
<1> QED BY <1>2, EntryAt

\* A snapshot of the rules is what a snapshot can hold.
LEMMA EntriesTyped ==
    ASSUME NEW rs \in Tables
    PROVE  EntriesOf(rs) \in
              {s \in Seq(Entries) : \A i, j \in DOMAIN s : s[i].text = s[j].text => i = j}
<1>1. \A i \in DOMAIN EntriesOf(rs) : EntriesOf(rs)[i] \in Entries
  <2> TAKE i \in DOMAIN EntriesOf(rs)
  <2>1. PICK r \in rs : EntriesOf(rs)[i] = [text |-> r.text, on |-> r.on]
    BY EntryOf
  <2> QED BY <2>1 DEF Tables, RuleRows, Entries
<1>2. EntriesOf(rs) \in [1 .. Cardinality(rs) -> Entries]
  BY <1>1 DEF EntriesOf
<1>3. EntriesOf(rs) \in Seq(Entries)
  BY <1>2, PlacesTaken
<1>4. ASSUME NEW i \in DOMAIN EntriesOf(rs), NEW j \in DOMAIN EntriesOf(rs),
             EntriesOf(rs)[i].text = EntriesOf(rs)[j].text
      PROVE  i = j
  <2>1. PICK r \in rs : PlaceIn(rs, r) = i /\ EntriesOf(rs)[i] = [text |-> r.text, on |-> r.on]
    BY EntryOf
  <2>2. PICK q \in rs : PlaceIn(rs, q) = j /\ EntriesOf(rs)[j] = [text |-> q.text, on |-> q.on]
    BY EntryOf
  <2>3. r.text = q.text
    BY <1>4, <2>1, <2>2
  <2> QED BY <2>1, <2>2, <2>3 DEF Tables
<1> QED BY <1>3, <1>4

\* What the rows say, without the order they are in.
LEMMA EntriesContent ==
    ASSUME NEW rs \in Tables
    PROVE  ToSet(EntriesOf(rs)) = {[text |-> r.text, on |-> r.on] : r \in rs}
<1>1. ASSUME NEW e \in ToSet(EntriesOf(rs))
      PROVE  e \in {[text |-> r.text, on |-> r.on] : r \in rs}
  <2>1. PICK i \in DOMAIN EntriesOf(rs) : e = EntriesOf(rs)[i]
    BY DEF ToSet
  <2> QED BY <2>1, EntryOf
<1>2. ASSUME NEW r \in rs
      PROVE  [text |-> r.text, on |-> r.on] \in ToSet(EntriesOf(rs))
  BY EntryAt DEF ToSet
<1> QED BY <1>1, <1>2

EntrySeqs == {s \in Seq(Entries) : \A i, j \in DOMAIN s : s[i].text = s[j].text => i = j}

\* Rows that a function gives, different in id and text, are a table.
LEMMA NumberedRows ==
    ASSUME NEW I, IsFiniteSet(I), NEW g, \A i \in I : g[i] \in RuleRows,
           \A i, j \in I : g[i].id = g[j].id \/ g[i].text = g[j].text => i = j
    PROVE  {g[i] : i \in I} \in Tables
<1> DEFINE rs == {g[i] : i \in I}
           f == [i \in I |-> g[i]]
<1>1. f \in Surjection(I, rs)
  BY DEF Surjection
<1>2. IsFiniteSet(rs)
  BY <1>1, FS_Surjection
<1>3. rs \in SUBSET RuleRows
  OBVIOUS
<1>4. \A r, q \in rs : r.id = q.id \/ r.text = q.text => r = q
  OBVIOUS
<1> QED BY <1>2, <1>3, <1>4 DEF Tables

\* Things that are numbered apart are as many as the numbers.
LEMMA CountedApart ==
    ASSUME NEW I, IsFiniteSet(I), NEW g, \A i, j \in I : g[i] = g[j] => i = j
    PROVE  Cardinality({g[i] : i \in I}) = Cardinality(I)
<1> DEFINE f == [i \in I |-> g[i]]
           T == {g[i] : i \in I}
<1>1. f \in Surjection(I, T)
  BY DEF Surjection
<1>2. f \in Injection(I, T)
  BY DEF Injection, IsInjective
<1> QED BY <1>1, <1>2, FS_Surjection

\* An entry is made of its two fields.
LEMMA EntryShape ==
    ASSUME NEW e \in Entries
    PROVE  e = [text |-> e.text, on |-> e.on] /\ e.text \in Texts /\ e.on \in BOOLEAN
BY DEF Entries

\* A configuration that is put back gives a table.
LEMMA RowsOfTyped ==
    ASSUME NEW s \in EntrySeqs
    PROVE  RowsOf(s) \in Tables
<1> DEFINE g == [i \in DOMAIN s |->
                   [id |-> i, text |-> s[i].text, on |-> s[i].on, exp |-> "never"]]
<1>1. s \in Seq(Entries) /\ DOMAIN s = 1 .. Len(s) /\ Len(s) \in Nat
  BY DEF EntrySeqs
<1>2. IsFiniteSet(DOMAIN s)
  BY <1>1, CountedUpTo
<1>3. \A i \in DOMAIN s : g[i] \in RuleRows
  <2> TAKE i \in DOMAIN s
  <2>1. s[i] \in Entries /\ i \in Nat \ {0}
    BY <1>1
  <2>2. s[i].text \in Texts /\ s[i].on \in BOOLEAN
    BY <2>1, EntryShape
  <2> QED BY <2>1, <2>2 DEF RuleRows
<1>4. \A i, j \in DOMAIN s : g[i].id = g[j].id \/ g[i].text = g[j].text => i = j
  <2>1. \A i, j \in DOMAIN s : s[i].text = s[j].text => i = j
    BY DEF EntrySeqs
  <2>2. \A i \in DOMAIN s : g[i].id = i /\ g[i].text = s[i].text
    OBVIOUS
  <2> HIDE DEF g
  <2> QED BY <2>1, <2>2
<1>5. {g[i] : i \in DOMAIN s} \in Tables
  <2> HIDE DEF g
  <2> QED BY <1>2, <1>3, <1>4, NumberedRows
<1>6. RowsOf(s) = {g[i] : i \in DOMAIN s}
  BY DEF RowsOf
<1> QED BY <1>5, <1>6

\* A configuration that was put back is snapshot again as it was.
LEMMA EntriesBack ==
    ASSUME NEW s \in EntrySeqs
    PROVE  EntriesOf(RowsOf(s)) = s
<1> DEFINE rs == RowsOf(s)
           g == [i \in DOMAIN s |->
                   [id |-> i, text |-> s[i].text, on |-> s[i].on, exp |-> "never"]]
<1>1. s \in Seq(Entries) /\ DOMAIN s = 1 .. Len(s) /\ Len(s) \in Nat
  BY DEF EntrySeqs
<1>2. rs \in Tables
  BY RowsOfTyped
<1>3. rs = {g[i] : i \in 1 .. Len(s)}
  BY <1>1 DEF RowsOf
<1>4. \A i \in 1 .. Len(s) : g[i].id = i /\ g[i].text = s[i].text /\ g[i].on = s[i].on
  BY <1>1
<1> HIDE DEF rs, g
<1>5. Cardinality(rs) = Len(s)
  <2>1. IsFiniteSet(1 .. Len(s)) /\ Cardinality(1 .. Len(s)) = Len(s)
    BY <1>1, CountedUpTo
  <2>2. \A i, j \in 1 .. Len(s) : g[i] = g[j] => i = j
    BY <1>4
  <2> QED BY <1>3, <2>1, <2>2, CountedApart
<1>6. ASSUME NEW i \in 1 .. Len(s) PROVE PlaceIn(rs, g[i]) = i
  <2>1. IsFiniteSet(1 .. i) /\ Cardinality(1 .. i) = i
    BY <1>1, CountedUpTo
  <2>2. \A j, k \in 1 .. i : j \in 1 .. Len(s) /\ (g[j] = g[k] => j = k)
    BY <1>1, <1>4
  <2>3. Lower(rs, g[i]) = {g[j] : j \in 1 .. i}
    <3>1. ASSUME NEW j \in 1 .. Len(s) PROVE g[j].id <= g[i].id <=> j \in 1 .. i
      <4>1. g[j].id = j /\ g[i].id = i /\ j \in Nat /\ i \in Nat /\ 1 <= j
        BY <1>1, <1>4
      <4> QED BY <4>1
    <3>2. Lower(rs, g[i]) = {r \in {g[j] : j \in 1 .. Len(s)} : r.id <= g[i].id}
      BY <1>3 DEF Lower
    <3> QED BY <2>2, <3>1, <3>2
  <2>4. Cardinality({g[j] : j \in 1 .. i}) = Cardinality(1 .. i)
    BY <2>1, <2>2, CountedApart
  <2> QED BY <2>1, <2>3, <2>4 DEF PlaceIn
<1>7. DOMAIN EntriesOf(rs) = 1 .. Len(s)
  BY <1>5 DEF EntriesOf
<1>8. ASSUME NEW i \in 1 .. Len(s) PROVE EntriesOf(rs)[i] = s[i]
  <2>1. g[i] \in rs
    BY <1>3
  <2>2. EntriesOf(rs)[i] = [text |-> g[i].text, on |-> g[i].on]
    BY <1>2, <1>6, <2>1, EntryAt
  <2>3. s[i] = [text |-> s[i].text, on |-> s[i].on]
    <3>1. s[i] \in Entries
      BY <1>1
    <3> QED BY <3>1, EntryShape
  <2>4. g[i].text = s[i].text /\ g[i].on = s[i].on
    BY <1>4
  <2> QED BY <2>2, <2>3, <2>4, Zenon
<1>9. EntriesOf(rs) \in Seq(Entries)
  BY <1>2, EntriesTyped
<1>10. EntriesOf(rs) = s
  <2> DEFINE e == EntriesOf(rs)
  <2>1. e \in Seq(Entries) /\ DOMAIN e = DOMAIN s /\ \A i \in DOMAIN s : e[i] = s[i]
    BY <1>1, <1>7, <1>8, <1>9
  <2> HIDE DEF e
  <2>2. e = s
    BY <1>1, <2>1
  <2> QED BY <2>2 DEF e
<1> QED BY <1>10 DEF rs

-----------------------------------------------------------------------------
(* What the commits make of the tables.                                    *)

\* A finite set of numbers has a bound: a smallest one without would lose its largest part.
LEMMA FiniteBounded ==
    ASSUME NEW S \in SUBSET Nat, IsFiniteSet(S)
    PROVE  \E bound \in Nat : \A w \in S : w <= bound
<1> DEFINE Bounded(T) == \E bound \in Nat : \A w \in T : w <= bound
           bad == {n \in Nat : \E T \in SUBSET Nat :
                       IsFiniteSet(T) /\ Cardinality(T) = n /\ ~Bounded(T)}
<1>1. bad = {}
  <2> SUFFICES ASSUME bad # {} PROVE FALSE
    OBVIOUS
  <2>1. PICK n \in bad : \A m \in bad : n <= m
    <3>1. bad \in SUBSET Nat
      OBVIOUS
    <3> HIDE DEF bad
    <3> QED BY <3>1, SmallestThere
  <2>2. PICK T \in SUBSET Nat : IsFiniteSet(T) /\ Cardinality(T) = n /\ ~Bounded(T)
    OBVIOUS
  <2>3. T # {}
    BY <2>2
  <2>4. PICK x \in T : TRUE
    BY <2>3
  <2>5. IsFiniteSet(T \ {x}) /\ Cardinality(T \ {x}) = n - 1
    BY <2>2, <2>4, FS_RemoveElement
  <2>6. Cardinality(T \ {x}) \in Nat /\ n \in Nat
    BY <2>5, FS_CardinalityType
  <2>7. n - 1 \notin bad /\ n - 1 \in Nat
    BY <2>1, <2>5, <2>6
  <2>8. Bounded(T \ {x})
    BY <2>5, <2>7
  <2>9. PICK b \in Nat : \A w \in T \ {x} : w <= b
    BY <2>8
  <2>10. \A w \in T : w <= b + x
    BY <2>4, <2>9
  <2>11. b + x \in Nat
    BY <2>4
  <2> QED BY <2>2, <2>10, <2>11
<1>2. Cardinality(S) \in Nat
  BY FS_CardinalityType
<1> QED BY <1>1, <1>2

\* The id that is handed out is free.
LEMMA NextIdFree ==
    ASSUME rules \in Tables
    PROVE  NextId \in Nat \ {0} /\ \A r \in rules : r.id < NextId
<1> DEFINE ids == {r.id : r \in rules}
           f == [r \in rules |-> r.id]
<1>1. IsFiniteSet(rules) /\ \A r \in rules : r.id \in Nat
  BY DEF Tables, RuleRows
<1>2. f \in Surjection(rules, ids)
  BY DEF Surjection
<1>3. IsFiniteSet(ids \union {0})
  BY <1>1, <1>2, FS_Surjection, FS_AddElement
<1>4. ids \union {0} \in SUBSET Nat /\ ids \union {0} # {}
  BY <1>1
<1>5. PICK bound \in Nat : \A w \in ids \union {0} : w <= bound
  BY <1>3, <1>4, FiniteBounded
<1> DEFINE top == Max(ids \union {0})
<1>6. top \in ids \union {0} /\ \A w \in ids \union {0} : w <= top
  <2> HIDE DEF ids
  <2> QED BY <1>4, <1>5, MaxOfBounded
<1>7. NextId = 1 + top
  BY DEF NextId
<1>8. \A r \in rules : r.id \in ids
  OBVIOUS
<1> HIDE DEF top, ids
<1> QED BY <1>1, <1>4, <1>6, <1>7, <1>8

\* A row with an id and a text of its own joins a table.
LEMMA AddTyped ==
    ASSUME NEW rs \in Tables, NEW i \in Nat \ {0}, NEW t \in Texts,
           NEW exp \in {"never", "pending"}, \A r \in rs : r.id # i /\ r.text # t
    PROVE  rs \union {Row(i, t, exp)} \in Tables
<1> DEFINE new == Row(i, t, exp)
<1>1. new \in RuleRows /\ new.id = i /\ new.text = t
  BY DEF Row, RuleRows
<1>2. IsFiniteSet(rs \union {new}) /\ rs \in SUBSET RuleRows
  BY FS_AddElement DEF Tables
<1>3. \A r, q \in rs : r.id = q.id \/ r.text = q.text => r = q
  BY DEF Tables
<1> HIDE DEF new
<1>4. \A r, q \in rs \union {new} : r.id = q.id \/ r.text = q.text => r = q
  BY <1>1, <1>3
<1> QED BY <1>1, <1>2, <1>4 DEF Tables, new

\* So is what a DELETE leaves.
LEMMA FewerTyped ==
    ASSUME NEW rs \in Tables, NEW less \in SUBSET rs
    PROVE  less \in Tables
<1>1. IsFiniteSet(less) /\ less \in SUBSET RuleRows
  BY FS_Subset DEF Tables
<1> QED BY <1>1 DEF Tables

\* What a change of a rule can hold.
Writable(c) ==
    /\ DOMAIN c \subseteq {"on", "text", "exp"}
    /\ "on" \in DOMAIN c => c["on"] \in BOOLEAN
    /\ "text" \in DOMAIN c => c["text"] \in Texts
    /\ "exp" \in DOMAIN c => c["exp"] \in {"never", "pending", "due"}

\* The changes of the handlers are such.
LEMMA ChangesWritable ==
    /\ \A c \in RuleChanges : Writable(c)
    /\ Writable([on |-> TRUE]) /\ Writable([on |-> TRUE, exp |-> "pending"])
BY DEF RuleChanges, Writable

\* So is the part of a change that differs from the row as loaded.
LEMMA NetWritable ==
    ASSUME NEW c, Writable(c), NEW row
    PROVE  /\ Writable(Net(c, row))
           /\ \A f \in DOMAIN Net(c, row) : f \in DOMAIN c /\ Net(c, row)[f] = c[f]
           /\ "id" \notin DOMAIN Net(c, row)
BY DEF Writable, Net, Restrict

\* A written row keeps its id, and has the text that was written.
LEMMA OverTyped ==
    ASSUME NEW c, Writable(c), NEW r \in RuleRows
    PROVE  /\ Over(c, r) \in RuleRows /\ Over(c, r).id = r.id
           /\ Over(c, r).text = IF "text" \in DOMAIN c THEN c["text"] ELSE r.text
<1>1. DOMAIN r = {"id", "text", "on", "exp"}
  BY DEF RuleRows
<1>2. DOMAIN Over(c, r) = {"id", "text", "on", "exp"}
  BY <1>1 DEF Over, Writable
<1>3. Over(c, r) = [x \in {"id", "text", "on", "exp"} |-> Over(c, r)[x]]
  BY <1>1, <1>2 DEF Over
<1>4. Over(c, r).id = r.id /\ r.id \in Nat \ {0}
  BY <1>1 DEF Over, Writable, RuleRows
<1>5. /\ Over(c, r).text = IF "text" \in DOMAIN c THEN c["text"] ELSE r.text
      /\ Over(c, r).text \in Texts
  BY <1>1 DEF Over, Writable, RuleRows
<1>6. Over(c, r).exp \in {"never", "pending", "due"}
  BY <1>1 DEF Over, Writable, RuleRows
<1>7. Over(c, r).on \in BOOLEAN
  BY <1>1 DEF Over, Writable, RuleRows
<1>8. Over(c, r) \in RuleRows
  BY <1>3, <1>4, <1>5, <1>6, <1>7 DEF RuleRows
<1> QED BY <1>4, <1>5, <1>8

\* An UPDATE of the row with an id, with a text that no other row has.
LEMMA UpdateTyped ==
    ASSUME rules \in Tables, NEW row, NEW c, Writable(c),
           "text" \in DOMAIN c => \A r \in rules : r.id # row.id => r.text # c["text"]
    PROVE  Updated(c, row) \in Tables
<1> DEFINE net == Net(c, row)
           g == [r \in rules |-> IF r.id = row.id THEN Over(net, r) ELSE r]
<1>1. Writable(net) /\ \A f \in DOMAIN net : f \in DOMAIN c /\ net[f] = c[f]
  BY NetWritable
<1>2. /\ IsFiniteSet(rules) /\ \A r \in rules : r \in RuleRows
      /\ \A r, q \in rules : r.id = q.id \/ r.text = q.text => r = q
  BY DEF Tables
<1> HIDE DEF net
<1>3. ASSUME NEW r \in rules
      PROVE  /\ g[r] \in RuleRows /\ g[r].id = r.id
             /\ g[r].text = r.text \/ (r.id = row.id /\ "text" \in DOMAIN c /\ g[r].text = c["text"])
  <2>1. CASE r.id = row.id
    <3>1. g[r] = Over(net, r)
      BY <2>1
    <3>2. /\ Over(net, r) \in RuleRows /\ Over(net, r).id = r.id
          /\ Over(net, r).text = IF "text" \in DOMAIN net THEN net["text"] ELSE r.text
      BY <1>1, <1>2, OverTyped
    <3> QED BY <1>1, <2>1, <3>1, <3>2
  <2>2. CASE r.id # row.id
    BY <1>2, <2>2
  <2> QED BY <2>1, <2>2
<1> HIDE DEF g
<1>4. \A r, q \in rules : g[r].id = g[q].id \/ g[r].text = g[q].text => r = q
  BY <1>2, <1>3
<1>5. {g[r] : r \in rules} \in Tables
  BY <1>2, <1>3, <1>4, NumberedRows
<1>6. Updated(c, row) = {g[r] : r \in rules}
  BY DEF Updated, g, net
<1> QED BY <1>5, <1>6

\* The lines of a replaced rule list, numbered from 1.
LEMMA SetRulesTyped ==
    ASSUME NEW s \in Seq(Texts), IsInjective(s)
    PROVE  {Row(i, s[i], "never") : i \in DOMAIN s} \in Tables
<1> DEFINE g == [i \in DOMAIN s |-> Row(i, s[i], "never")]
<1>1. DOMAIN s = 1 .. Len(s) /\ Len(s) \in Nat /\ \A i \in DOMAIN s : s[i] \in Texts
  OBVIOUS
<1>2. IsFiniteSet(DOMAIN s)
  BY <1>1, CountedUpTo
<1>3. \A i \in DOMAIN s : g[i] \in RuleRows /\ g[i].id = i /\ g[i].text = s[i]
  BY <1>1 DEF Row, RuleRows
<1>4. {Row(i, s[i], "never") : i \in DOMAIN s} = {g[i] : i \in DOMAIN s}
  OBVIOUS
<1> HIDE DEF g
<1>5. \A i, j \in DOMAIN s : g[i].id = g[j].id \/ g[i].text = g[j].text => i = j
  BY <1>3 DEF IsInjective
<1>6. \A i \in DOMAIN s : g[i] \in RuleRows
  BY <1>3
<1>7. {g[i] : i \in DOMAIN s} \in Tables
  BY <1>2, <1>5, <1>6, NumberedRows
<1> QED BY <1>4, <1>7

\* Two tables that share no id and no text are one.
LEMMA JoinTyped ==
    ASSUME NEW rs \in Tables, NEW more \in Tables,
           \A r \in rs, q \in more : r.id # q.id /\ r.text # q.text
    PROVE  rs \union more \in Tables
<1>1. /\ IsFiniteSet(rs) /\ IsFiniteSet(more) /\ rs \in SUBSET RuleRows /\ more \in SUBSET RuleRows
      /\ \A r, q \in rs : r.id = q.id \/ r.text = q.text => r = q
      /\ \A r, q \in more : r.id = q.id \/ r.text = q.text => r = q
  BY DEF Tables
<1>2. IsFiniteSet(rs \union more)
  BY <1>1, FS_Union
<1>3. \A r, q \in rs \union more : r.id = q.id \/ r.text = q.text => r = q
  BY <1>1
<1> QED BY <1>1, <1>2, <1>3 DEF Tables

\* What an import leaves in the table: ids from the next one on, in the order of the
\* node's rules.
Missing(s) == {i \in DOMAIN s : ~HasText(s[i].text)}

Joined(s) ==
    rules \union {Row(NextId + Cardinality({j \in Missing(s) : j < i}), s[i].text, "never") :
                      i \in Missing(s)}

\* An import joins the rules that are not there, with the ids that follow.
LEMMA ImportTyped ==
    ASSUME rules \in Tables, NEW s \in EntrySeqs
    PROVE  Joined(s) \in Tables
<1> DEFINE missing == Missing(s)
           below(i) == {j \in missing : j < i}
           g == [i \in missing |-> Row(NextId + Cardinality(below(i)), s[i].text, "never")]
<1>1. /\ s \in Seq(Entries) /\ DOMAIN s = 1 .. Len(s) /\ Len(s) \in Nat
      /\ \A i, j \in DOMAIN s : s[i].text = s[j].text => i = j
  BY DEF EntrySeqs
<1>2. missing \in SUBSET (1 .. Len(s)) /\ IsFiniteSet(missing)
  <2>1. missing \in SUBSET (1 .. Len(s)) /\ IsFiniteSet(1 .. Len(s))
    BY <1>1, CountedUpTo DEF Missing
  <2> QED BY <2>1, FS_Subset
<1> HIDE DEF missing
<1>3. \A i : IsFiniteSet(below(i)) /\ Cardinality(below(i)) \in Nat
  <2> TAKE i
  <2>1. below(i) \in SUBSET missing
    OBVIOUS
  <2> QED BY <1>2, <2>1, FS_Subset, FS_CardinalityType
<1>4. ASSUME NEW i \in missing, NEW j \in missing, i < j
      PROVE  Cardinality(below(i)) < Cardinality(below(j))
  <2>1. below(i) \in SUBSET below(j) /\ i \in below(j) /\ i \notin below(i)
    <3>1. \A k \in missing : k \in Nat
      BY <1>2
    <3> QED BY <1>4, <3>1
  <2>2. /\ Cardinality(below(i)) <= Cardinality(below(j))
        /\ Cardinality(below(i)) # Cardinality(below(j))
    <3>1. below(i) # below(j) /\ IsFiniteSet(below(j))
      BY <1>3, <2>1
    <3> HIDE DEF below
    <3> QED BY <2>1, <3>1, FS_Subset
  <2> HIDE DEF below
  <2> QED BY <1>3, <2>2
<1> HIDE DEF below
<1>5. NextId \in Nat \ {0} /\ \A r \in rules : r.id < NextId /\ r.id \in Nat
  BY NextIdFree DEF Tables, RuleRows
<1>6. ASSUME NEW i \in missing
      PROVE  /\ g[i] \in RuleRows /\ g[i].id = NextId + Cardinality(below(i))
             /\ g[i].text = s[i].text
  <2>1. s[i].text \in Texts
    <3>1. s[i] \in Entries
      BY <1>1, <1>2
    <3> QED BY <3>1, EntryShape
  <2>2. NextId + Cardinality(below(i)) \in Nat \ {0}
    BY <1>3, <1>5
  <2> QED BY <2>1, <2>2 DEF Row, RuleRows
<1>7. {Row(NextId + Cardinality(below(i)), s[i].text, "never") : i \in missing}
         = {g[i] : i \in missing}
  OBVIOUS
<1> HIDE DEF g
<1>8. ASSUME NEW i \in missing, NEW j \in missing, g[i].id = g[j].id \/ g[i].text = g[j].text
      PROVE  i = j
  <2>1. CASE g[i].text = g[j].text
    BY <1>1, <1>2, <1>6, <2>1
  <2>2. CASE g[i].id = g[j].id
    <3>1. Cardinality(below(i)) = Cardinality(below(j))
      BY <1>3, <1>5, <1>6, <2>2
    <3>2. i \in Nat /\ j \in Nat
      BY <1>2
    <3>3. ~(i < j) /\ ~(j < i)
      BY <1>3, <1>4, <3>1
    <3> QED BY <3>2, <3>3
  <2> QED BY <1>8, <2>1, <2>2
<1>9. {g[i] : i \in missing} \in Tables
  <2>1. \A i \in missing : g[i] \in RuleRows
    BY <1>6
  <2>2. \A i, j \in missing : g[i].id = g[j].id \/ g[i].text = g[j].text => i = j
    BY <1>8
  <2>3. IsFiniteSet(missing)
    BY <1>2
  <2> QED BY <2>1, <2>2, <2>3, NumberedRows
<1>10. \A r \in rules, q \in {g[i] : i \in missing} : r.id # q.id /\ r.text # q.text
  <2> SUFFICES ASSUME NEW r \in rules, NEW i \in missing
               PROVE  r.id # g[i].id /\ r.text # g[i].text
    OBVIOUS
  <2>1. r.text # s[i].text
    BY DEF HasText, missing, Missing
  <2>2. r.id < NextId /\ r.id \in Nat /\ Cardinality(below(i)) \in Nat
    BY <1>3, <1>5
  <2>3. r.id # NextId + Cardinality(below(i))
    BY <1>5, <2>2
  <2> QED BY <1>6, <2>1, <2>3
<1>11. rules \union {g[i] : i \in missing} \in Tables
  BY <1>9, <1>10, JoinTyped
<1> QED BY <1>7, <1>11 DEF below, missing, Joined

-----------------------------------------------------------------------------

\* Every section comes once in SECTION_NAMES.
LEMMA SectionIndexes ==
    /\ SectionNames \in Seq(Names) /\ Len(SectionNames) \in Nat
    /\ DOMAIN SectionNames = 1 .. Len(SectionNames)
    /\ \A i \in 1 .. Len(SectionNames) : SectionNames[i] \in Names
    /\ \A n \in Names : \E i \in 1 .. Len(SectionNames) : SectionNames[i] = n
    /\ \A i, j \in 1 .. Len(SectionNames) : SectionNames[i] = SectionNames[j] => i = j
<1>1. SectionNames \in Seq(Names)
  BY CentralStateAssumption
<1>2. Len(SectionNames) \in Nat /\ DOMAIN SectionNames = 1 .. Len(SectionNames)
  BY <1>1
<1>3. \A i \in DOMAIN SectionNames : SectionNames[i] \in Names
  BY DEF Names, ToSet
<1>4. \A n \in Names : \E i \in DOMAIN SectionNames : SectionNames[i] = n
  BY DEF Names, ToSet
<1>5. \A i, j \in DOMAIN SectionNames : SectionNames[i] = SectionNames[j] => i = j
  BY CentralStateAssumption DEF IsInjective
<1> QED BY <1>1, <1>2, <1>3, <1>4, <1>5

\* The next section without a row, and those before it.
LEMMA FirstMissingThere ==
    ASSUME NEW i \in Nat, i <= Len(SectionNames)
    PROVE  /\ FirstMissing(i) \in i + 1 .. Len(SectionNames) + 1
           /\ FirstMissing(i) <= Len(SectionNames) =>
                 SectionNames[FirstMissing(i)] \in Names \ DOMAIN sections
           /\ \A j \in i + 1 .. FirstMissing(i) - 1 :
                 j \in 1 .. Len(SectionNames) /\ SectionNames[j] \in DOMAIN sections
<1> DEFINE n == Len(SectionNames)
           open == {j \in i + 1 .. n : SectionNames[j] \notin DOMAIN sections} \union {n + 1}
           first == FirstMissing(i)
<1>1. n \in Nat
  BY SectionIndexes
<1>2. open \in SUBSET Nat /\ open # {} /\ open \in SUBSET (i + 1 .. n + 1)
  BY <1>1
<1>3. PICK m \in open : \A w \in open : m <= w
  BY <1>2, SmallestThere
<1>4. first \in open /\ \A w \in open : first <= w
  BY <1>3 DEF FirstMissing, Min
<1>5. first \in i + 1 .. n + 1
  BY <1>2, <1>4
<1>6. first <= n => SectionNames[first] \in Names \ DOMAIN sections
  <2> SUFFICES ASSUME first <= n PROVE SectionNames[first] \in Names \ DOMAIN sections
    OBVIOUS
  <2>1. first # n + 1 /\ first \in 1 .. n
    BY <1>1, <1>5
  <2>2. first \in {j \in i + 1 .. n : SectionNames[j] \notin DOMAIN sections}
    BY <1>4, <2>1
  <2> QED BY <2>1, <2>2, SectionIndexes
<1>7. ASSUME NEW j \in i + 1 .. first - 1
      PROVE  j \in 1 .. n /\ SectionNames[j] \in DOMAIN sections
  <2>1. j \in i + 1 .. n /\ j < first
    BY <1>1, <1>5
  <2>2. j \notin open
    BY <1>4, <1>5, <2>1
  <2> QED BY <2>1, <2>2
<1> HIDE DEF n, open, first
<1> QED BY <1>5, <1>6, <1>7 DEF n, first

\* Writing over a table, one entry, and a part of a table.
LEMMA TablesOver ==
    /\ \A a, b \in ListTables : Over(a, b) \in ListTables
    /\ \A a, b \in SectionTables : Over(a, b) \in SectionTables
<1>1. ASSUME NEW a \in ListTables, NEW b \in ListTables
      PROVE  Over(a, b) \in ListTables
  <2> DEFINE c == Over(a, b)
  <2>1. c = [u \in DOMAIN c |-> c[u]] /\ DOMAIN c = DOMAIN a \union DOMAIN b
    BY DEF Over
  <2>2. DOMAIN a \subseteq Urls /\ DOMAIN b \subseteq Urls
    BY ListTable
  <2>3. \A u \in DOMAIN c : c[u] \in BOOLEAN
    BY ListTable DEF Over
  <2> HIDE DEF c
  <2> QED BY <2>1, <2>2, <2>3, ListTable DEF c
<1>2. ASSUME NEW a \in SectionTables, NEW b \in SectionTables
      PROVE  Over(a, b) \in SectionTables
  <2> DEFINE c == Over(a, b)
  <2>1. c = [u \in DOMAIN c |-> c[u]] /\ DOMAIN c = DOMAIN a \union DOMAIN b
    BY DEF Over
  <2>2. DOMAIN a \subseteq Names /\ DOMAIN b \subseteq Names
    BY SectionTable
  <2>3. \A u \in DOMAIN c : c[u] \in SectionRows
    BY SectionTable DEF Over
  <2> HIDE DEF c
  <2> QED BY <2>1, <2>2, <2>3, SectionTable DEF c
<1> QED BY <1>1, <1>2

LEMMA TablesOnly ==
    /\ \A u \in Urls, on \in BOOLEAN : Only(u, on) \in ListTables
    /\ \A n \in Names, row \in SectionRows : Only(n, row) \in SectionTables
<1>1. ASSUME NEW u \in Urls, NEW on \in BOOLEAN PROVE Only(u, on) \in ListTables
  <2>1. Only(u, on) \in [{u} -> BOOLEAN]
    BY DEF Only
  <2> QED BY <2>1 DEF ListTables
<1>2. ASSUME NEW n \in Names, NEW row \in SectionRows PROVE Only(n, row) \in SectionTables
  <2>1. Only(n, row) \in [{n} -> SectionRows]
    BY DEF Only
  <2> QED BY <2>1 DEF SectionTables
<1> QED BY <1>1, <1>2

LEMMA TablesRestrict ==
    /\ \A a \in ListTables : \A S \in SUBSET DOMAIN a : Restrict(a, S) \in ListTables
    /\ \A a \in SectionTables : \A S \in SUBSET DOMAIN a : Restrict(a, S) \in SectionTables
<1>1. ASSUME NEW a \in ListTables, NEW S \in SUBSET DOMAIN a PROVE Restrict(a, S) \in ListTables
  <2>1. Restrict(a, S) \in [S -> BOOLEAN] /\ S \in SUBSET Urls
    BY ListTable DEF Restrict
  <2> QED BY <2>1 DEF ListTables
<1>2. ASSUME NEW a \in SectionTables, NEW S \in SUBSET DOMAIN a PROVE Restrict(a, S) \in SectionTables
  <2>1. Restrict(a, S) \in [S -> SectionRows] /\ S \in SUBSET Names
    BY SectionTable DEF Restrict
  <2> QED BY <2>1 DEF SectionTables
<1> QED BY <1>1, <1>2

\* A change of a section, and what of it differs from another row.
LEMMA OverSection ==
    ASSUME NEW row \in SectionRows, NEW old \in SectionRows,
           NEW c \in SectionChanges
    PROVE  Over(c, row) \in SectionRows /\ Over(Net(c, old), row) \in SectionRows
<1>1. ASSUME NEW d, DOMAIN d \subseteq {"managed", "doc"},
             "managed" \in DOMAIN d => d["managed"] \in BOOLEAN,
             "doc" \in DOMAIN d => d["doc"] \in SUBSET Keys
      PROVE  Over(d, row) \in SectionRows
  <2>1. DOMAIN row = {"managed", "doc"}
    BY DEF SectionRows
  <2>2. DOMAIN Over(d, row) = {"managed", "doc"}
    BY <1>1, <2>1 DEF Over
  <2>3. Over(d, row) = [x \in {"managed", "doc"} |-> Over(d, row)[x]]
    BY <2>1, <2>2 DEF Over
  <2>4. Over(d, row).managed \in BOOLEAN
    BY <1>1, <2>1 DEF Over, SectionRows
  <2>5. Over(d, row).doc \in SUBSET Keys
    BY <1>1, <2>1 DEF Over, SectionRows
  <2> QED BY <2>3, <2>4, <2>5 DEF SectionRows
<1>2. /\ DOMAIN c \subseteq {"managed", "doc"}
      /\ "managed" \in DOMAIN c => c["managed"] \in BOOLEAN
      /\ "doc" \in DOMAIN c => c["doc"] \in SUBSET Keys
  BY DEF SectionChanges
<1>3. \A f \in DOMAIN Net(c, old) : f \in DOMAIN c /\ Net(c, old)[f] = c[f]
  BY DEF Net, Restrict
<1> QED BY <1>1, <1>2, <1>3

-----------------------------------------------------------------------------
(* Every step leaves everything typed.                                     *)

TablesTyped == rules \in Tables /\ lists \in ListTables /\ sections \in SectionTables

\* A step that sets one process and leaves the tables, the history and the file typed.
LEMMA StepTyped ==
    ASSUME TypeInv, NEW p \in Procs, NEW new \in Workers, Phase(new),
           proc' = [proc EXCEPT ![p] = new], TablesTyped',
           \A v \in DOMAIN versions' : versions'[v] \in Snapshots, file' \in Snapshots,
           owed' \subseteq Kinds, mishaps' \subseteq {"overlap", "half"}, edits' \in 0 .. MaxEdits
    PROVE  TypeInv'
<1>1. ProcFcn' /\ \A q \in Procs : proc'[q] = proc[q] \/ proc'[q] = new
  BY DEF TypeInv, ProcsTyped, ProcFcn
<1>2. ProcsTyped'
  BY <1>1 DEF TypeInv, ProcsTyped
<1> QED BY <1>2 DEF TypeInv, TablesTyped

\* Where no row changes the tables stay typed.
LEMMA TablesStay ==
    ASSUME TypeInv, UNCHANGED <<rules, lists, sections>>
    PROVE  TablesTyped'
BY DEF TypeInv, TablesTyped

\* A commit changes kinds.
LEMMA ChangedKinds == Changed \subseteq Kinds
BY DEF Changed, Kinds

\* A step about one process that leaves the history, the file and the requests alone.
LEMMA PlainTyped ==
    ASSUME TypeInv, NEW p \in Procs, NEW new \in Workers, Phase(new),
           proc' = [proc EXCEPT ![p] = new], TablesTyped', UNCHANGED <<versions, file, edits>>,
           owed' \subseteq Kinds, mishaps' \subseteq {"overlap", "half"}
    PROVE  TypeInv'
BY StepTyped DEF TypeInv

\* A commit, and an answer, leave everything typed if the tables are.
LEMMA CommitTyped ==
    ASSUME TypeInv, NEW p \in Procs, NEW next \in Workers, Phase(next), Commit(p, next),
           TablesTyped', UNCHANGED <<versions, file, edits>>, mishaps' \subseteq {"overlap", "half"}
    PROVE  TypeInv'
<1>1. owed \subseteq Kinds
  BY DEF TypeInv
<1>2. proc' = [proc EXCEPT ![p] = next] /\ owed' \subseteq Kinds
  BY <1>1, ChangedKinds DEF Commit
<1> QED BY <1>2, PlainTyped

LEMMA EndTyped ==
    ASSUME TypeInv, NEW p \in Procs, Finish(p) \/ Refuse(p),
           UNCHANGED <<rules, lists, sections>>,
           UNCHANGED <<versions, file, edits>>, mishaps' \subseteq {"overlap", "half"}
    PROVE  TypeInv'
<1>1. proc' = [proc EXCEPT ![p] = Idle] /\ owed' \subseteq Kinds
  BY DEF Finish, Refuse, TypeInv
<1> QED BY <1>1, IdleTyped, TablesStay, PlainTyped

\* The record of a process, with how far it can be.
LEMMA WorkerOf ==
    ASSUME TypeInv, NEW p \in Procs
    PROVE  proc[p] \in Workers /\ Phase(proc[p]) /\ proc[p].op \in Ops
BY DEF TypeInv, ProcsTyped, Workers

\* The look-ups leave everything typed.
LEMMA RecordingTyped ==
    ASSUME TypeInv, NEW p \in Procs
    PROVE  Recording(p) \in Workers /\ Phase(Recording(p))
<1>1. proc[p] \in Workers /\ Phase(proc[p])
  BY WorkerOf
<1> QED BY <1>1 DEF Recording, Workers, Phase, Begun

LEMMA LookForTextTyped ==
    ASSUME TypeInv, NEW h \in Procs, LookForText(h)
    PROVE  TypeInv'
<1> DEFINE e == proc[h]
<1>1. /\ UNCHANGED <<rules, lists, sections>> /\ UNCHANGED <<versions, file, edits>>
      /\ mishaps' \subseteq {"overlap", "half"} /\ owed \subseteq Kinds
  BY DEF LookForText, RestUnchanged, TypeInv
<1>2. TablesTyped' /\ e \in Workers /\ Phase(e) /\ e.pc = "look"
  BY <1>1, TablesStay, WorkerOf DEF LookForText
<1>3. CASE Finish(h) \/ Refuse(h)
  BY <1>1, <1>3, EndTyped
<1>4. CASE proc' = [proc EXCEPT ![h] = Recording(h)] /\ UNCHANGED owed
  BY <1>1, <1>2, <1>4, RecordingTyped, PlainTyped
<1>5. ASSUME e.op.do = "bulk_import" => e.left # <<>>, NEW found \in SUBSET rules,
             proc' = [proc EXCEPT ![h].pc = "commit", ![h].rows = found], UNCHANGED owed
      PROVE  TypeInv'
  <2> DEFINE new == [e EXCEPT !.pc = "commit", !.rows = found]
  <2>1. rules \subseteq RuleRows
    BY DEF TypeInv, Tables
  <2>2. new \in Workers
    BY <1>2, <2>1 DEF Workers
  <2>3. Phase(new)
    BY <1>2, <1>5 DEF Workers, Phase, Begun
  <2>4. proc' = [proc EXCEPT ![h] = new]
    BY <1>5
  <2> HIDE DEF new
  <2> QED BY <1>1, <1>2, <1>5, <2>2, <2>3, <2>4, PlainTyped
<1>6. CASE e.op.do = "bulk_import" /\ e.left = <<>>
  BY <1>3, <1>4, <1>6 DEF LookForText
<1>7. CASE ~(e.op.do = "bulk_import" /\ e.left = <<>>)
  <2> DEFINE t == IF e.left = <<>> THEN e.op.text ELSE Head(e.left)
             found == {r \in rules : r.text = t}
  <2>1. proc' = [proc EXCEPT ![h].pc = "commit", ![h].rows = found] /\ UNCHANGED owed
    BY <1>7 DEF LookForText
  <2>2. found \in SUBSET rules
    OBVIOUS
  <2>3. e.op.do = "bulk_import" => e.left # <<>>
    BY <1>7
  <2> HIDE DEF found, e
  <2> QED BY <1>5, <2>1, <2>2, <2>3
<1> QED BY <1>6, <1>7

LEMMA LookForRowTyped ==
    ASSUME TypeInv, NEW h \in Procs, LookForRow(h)
    PROVE  TypeInv'
<1> DEFINE e == proc[h]
           found == {r \in rules : r.id = e.op.id}
<1>1. /\ UNCHANGED <<rules, lists, sections>> /\ UNCHANGED <<versions, file, edits>>
      /\ mishaps' = mishaps /\ mishaps \subseteq {"overlap", "half"} /\ owed \subseteq Kinds
  BY DEF LookForRow, Refuse, Unchanged, TypeInv
<1>2. /\ TablesTyped' /\ e \in Workers /\ Phase(e) /\ e.pc = "look"
      /\ e.op.do \in {"update_rule", "delete_rule"}
  BY <1>1, TablesStay, WorkerOf DEF LookForRow
<1>3. CASE Refuse(h)
  BY <1>1, <1>3, EndTyped
<1>4. CASE proc' = [proc EXCEPT ![h].pc = "commit", ![h].rows = found] /\ UNCHANGED owed
  <2> DEFINE new == [e EXCEPT !.pc = "commit", !.rows = found]
  <2>1. found \subseteq RuleRows
    BY DEF TypeInv, Tables
  <2>2. new \in Workers
    BY <1>2, <2>1 DEF Workers
  <2>3. Phase(new)
    BY <1>2 DEF Workers, Phase, Begun
  <2>4. proc' = [proc EXCEPT ![h] = new]
    BY <1>4
  <2> HIDE DEF new
  <2> QED BY <1>1, <1>2, <1>4, <2>2, <2>3, <2>4, PlainTyped
<1> QED BY <1>3, <1>4 DEF LookForRow

LEMMA LookForSectionTyped ==
    ASSUME TypeInv, NEW h \in Procs, LookForSection(h)
    PROVE  TypeInv'
<1> DEFINE e == proc[h]
           row == sections'[e.op.name]
<1>1. /\ UNCHANGED <<rules, lists, owed>> /\ UNCHANGED <<versions, file, edits>>
      /\ mishaps' = mishaps /\ mishaps \subseteq {"overlap", "half"} /\ owed \subseteq Kinds
  BY DEF LookForSection, Unchanged, TypeInv
<1>2. /\ e \in Workers /\ Phase(e) /\ e.op \in Ops /\ e.pc = "look"
      /\ e.op.do \in {"update_section", "write_section"}
  BY WorkerOf DEF LookForSection
<1>3. e.op.name \in Names
  BY <1>2, OpShapes
<1>4. Only(e.op.name, Bare) \in SectionTables
  BY <1>3, TablesOnly DEF Bare, SectionRows
<1>5. sections' \in SectionTables
  BY <1>4, TablesOver DEF LookForSection, TypeInv
<1>6. row \in SectionRows
  <2>1. e.op.name \in DOMAIN sections'
    BY DEF LookForSection, Over, Only
  <2> QED BY <1>5, <2>1, SectionTable
<1>7. TablesTyped'
  BY <1>1, <1>5 DEF TypeInv, TablesTyped
<1> DEFINE new == [e EXCEPT !.pc = "commit", !.sec = row]
<1>8. proc' = [proc EXCEPT ![h] = new]
  BY DEF LookForSection
<1>9. new \in Workers
  <2> HIDE DEF row
  <2> QED BY <1>2, <1>6 DEF Workers
<1>10. Phase(new)
  <2> HIDE DEF row
  <2> QED BY <1>2 DEF Workers, Phase, Begun
<1> HIDE DEF new
<1> QED BY <1>1, <1>7, <1>8, <1>9, <1>10, PlainTyped

LEMMA LookForStateTyped ==
    ASSUME TypeInv, NEW h \in Procs, LookForState(h)
    PROVE  TypeInv'
<1> DEFINE e == proc[h]
<1>1. /\ UNCHANGED <<rules, lists, sections>> /\ UNCHANGED owed /\ UNCHANGED <<versions, file, edits>>
      /\ mishaps' = mishaps /\ mishaps \subseteq {"overlap", "half"} /\ owed \subseteq Kinds
  BY DEF LookForState, Unchanged, TypeInv
<1>2. /\ TablesTyped' /\ e \in Workers /\ Phase(e) /\ e.pc = "look"
      /\ e.op.do \in {"restore", "restore_version", "import_instance"}
  BY <1>1, TablesStay, WorkerOf DEF LookForState
<1>3. CASE proc' = [proc EXCEPT ![h] = Idle]
  BY <1>1, <1>2, <1>3, IdleTyped, PlainTyped
<1>4. ASSUME NEW snap \in Snapshots, proc' = [proc EXCEPT ![h].pc = "commit", ![h].snap = snap]
      PROVE  TypeInv'
  <2> DEFINE new == [e EXCEPT !.pc = "commit", !.snap = snap]
  <2>1. new \in Workers
    BY <1>2 DEF Workers
  <2>2. Phase(new)
    BY <1>2 DEF Workers, Phase, Begun
  <2>3. proc' = [proc EXCEPT ![h] = new]
    BY <1>4
  <2> HIDE DEF new
  <2> QED BY <1>1, <1>2, <2>1, <2>2, <2>3, PlainTyped
<1>5. file \in Snapshots /\ Master \in Snapshots
      /\ \A v \in DOMAIN versions : versions[v] \in Snapshots
  BY CentralStateAssumption DEF TypeInv
<1> QED BY <1>3, <1>4, <1>5 DEF LookForState

\* What is read for a snapshot is one.
LEMMA SnapshotTyped ==
    ASSUME TypeInv
    PROVE  RuleEntries \in EntrySeqs /\ Snapshot \in Snapshots
<1>1. RuleEntries \in EntrySeqs
  BY EntriesHere, EntriesTyped DEF TypeInv, EntrySeqs
<1> QED BY <1>1, SnapshotShape DEF Snapshot, TypeInv, EntrySeqs

LEMMA ExportTyped ==
    ASSUME TypeInv, NEW h \in Procs, Export(h)
    PROVE  TypeInv'
<1>1. /\ UNCHANGED <<rules, lists, sections>> /\ file' \in Snapshots
      /\ proc' = [proc EXCEPT ![h] = Idle]
      /\ UNCHANGED <<versions, owed, mishaps, edits>>
  BY SnapshotTyped DEF Export
<1> QED BY <1>1, TablesStay, IdleTyped, StepTyped DEF TypeInv

LEMMA ViewSectionsTyped ==
    ASSUME TypeInv, NEW h \in Procs, ViewSections(h)
    PROVE  TypeInv'
<1>1. UNCHANGED <<versions, file, mishaps, edits>>
  BY DEF ViewSections, Unchanged
<1>2. CASE Names \subseteq DOMAIN sections
  <2>1. Refuse(h)
    BY <1>2 DEF ViewSections
  <2>2. UNCHANGED <<rules, lists, sections>>
    BY <2>1 DEF Refuse
  <2> QED BY <1>1, <2>1, <2>2, EndTyped DEF TypeInv
<1>3. CASE ~(Names \subseteq DOMAIN sections)
  <2> DEFINE i == FirstMissing(0)
  <2>1. /\ sections' = Over(sections, Only(SectionNames[i], Bare))
        /\ UNCHANGED <<rules, lists, proc, owed>>
    BY <1>3 DEF ViewSections
  <2>2. PICK n \in Names : n \notin DOMAIN sections
    BY <1>3
  <2>3. /\ i \in 1 .. Len(SectionNames) + 1 /\ Len(SectionNames) \in Nat
        /\ \A j \in 1 .. i - 1 : SectionNames[j] \in DOMAIN sections
    BY FirstMissingThere, SectionIndexes
  <2>4. PICK j \in 1 .. Len(SectionNames) : SectionNames[j] = n
    BY SectionIndexes
  <2> HIDE DEF i
  <2>5. i \in 1 .. Len(SectionNames)
    BY <2>2, <2>3, <2>4
  <2>6. SectionNames[i] \in Names
    BY <2>5, SectionIndexes
  <2>7. sections' \in SectionTables
    BY <2>1, <2>6, TablesOver, TablesOnly DEF TypeInv, Bare, SectionRows
  <2> QED BY <1>1, <2>1, <2>7 DEF TypeInv, ProcsTyped, ProcFcn
<1> QED BY <1>2, <1>3

\* The commits leave everything typed: a rule that is added,
\* A paste after a line that was there.
PassedOver(h) ==
    [proc[h] EXCEPT !.pc = "look", !.left = Tail(@), !.expired = @ \/ proc[h].rows = {}]

LEMMA AddedTyped ==
    ASSUME TypeInv, NEW h \in Procs, proc[h].pc = "commit",
           proc[h].op.do \in {"create_rule", "allow_domain", "bulk_import"}
    PROVE  /\ Added(h) \in Workers /\ Phase(Added(h))
           /\ proc[h].op.do = "bulk_import" =>
                 /\ proc[h].left # <<>> /\ proc[h].left \in Seq(Texts)
                 /\ PassedOver(h) \in Workers /\ Phase(PassedOver(h))
<1> DEFINE e == proc[h]
<1>1. e \in Workers /\ Phase(e)
  BY WorkerOf
<1>2. CASE e.op.do = "bulk_import"
  <2>1. e.left # <<>> /\ e.left \in Seq(Texts) /\ ~e.swapped
    BY <1>1, <1>2 DEF Phase, Workers
  <2>2. Tail(e.left) \in Seq(Texts)
    BY <2>1
  <2> DEFINE rest == PassedOver(h)
             next == [e EXCEPT !.pc = "look", !.left = Tail(@), !.done = @ + 1]
  <2>3. rest \in Workers
    <3>1. (e.expired \/ e.rows = {}) \in BOOLEAN
      OBVIOUS
    <3> QED BY <1>1, <2>2, <3>1 DEF Workers, PassedOver
  <2>4. next \in Workers
    <3>1. e.done \in Nat /\ e.done + 1 \in Nat
      BY <1>1 DEF Workers
    <3> QED BY <1>1, <2>2, <3>1 DEF Workers
  <2>5. Phase(rest)
    BY <1>1, <1>2, <2>1 DEF Workers, Phase, Begun, PassedOver
  <2>6. Phase(next)
    BY <1>1, <1>2, <2>1 DEF Workers, Phase, Begun
  <2>7. Added(h) = next
    BY <1>2 DEF Added
  <2> QED BY <2>1, <2>3, <2>4, <2>5, <2>6, <2>7
<1>3. CASE e.op.do # "bulk_import"
  <2>1. Added(h) = Recording(h)
    BY <1>3 DEF Added
  <2> QED BY <1>3, <2>1, RecordingTyped
<1> QED BY <1>2, <1>3

LEMMA NotAddedTyped ==
    ASSUME TypeInv, NEW h \in Procs, proc[h].pc = "commit",
           proc[h].op.do \in {"create_rule", "allow_domain", "bulk_import"},
           NotAdded(h), UNCHANGED <<versions, file, edits>>,
           mishaps' \subseteq {"overlap", "half"}
    PROVE  TypeInv'
<1>1. CASE proc[h].op.do = "create_rule"
  <2>1. Refuse(h) /\ UNCHANGED <<rules, lists, sections>>
    BY <1>1 DEF NotAdded, Refuse
  <2> QED BY <2>1, EndTyped
<1>2. CASE proc[h].op.do = "allow_domain"
  <2>1. Finish(h) /\ UNCHANGED <<rules, lists, sections>>
    BY <1>2 DEF NotAdded
  <2> QED BY <2>1, EndTyped
<1>3. CASE proc[h].op.do = "bulk_import"
  <2> DEFINE rest == PassedOver(h)
  <2>1. proc' = [proc EXCEPT ![h] = rest] /\ UNCHANGED <<rules, lists, sections, owed>>
    BY <1>3 DEF NotAdded, PassedOver
  <2>2. rest \in Workers /\ Phase(rest)
    BY <1>3, AddedTyped
  <2> HIDE DEF rest
  <2>3. owed' \subseteq Kinds /\ TablesTyped'
    BY <2>1, TablesStay DEF TypeInv
  <2> QED BY <2>1, <2>2, <2>3, PlainTyped
<1> QED BY <1>1, <1>2, <1>3

LEMMA CommitAddTyped ==
    ASSUME TypeInv, NEW h \in Procs, CommitAdd(h)
    PROVE  TypeInv'
<1> DEFINE op == proc[h].op
           t == IF op.do = "bulk_import" THEN Head(proc[h].left) ELSE op.text
           minutes == op.do # "bulk_import" /\ op.minutes
           change == IF minutes THEN [on |-> TRUE, exp |-> "pending"] ELSE [on |-> TRUE]
           exp == IF minutes THEN "pending" ELSE "never"
<1>1. /\ proc[h].pc = "commit" /\ op.do \in {"create_rule", "allow_domain", "bulk_import"}
      /\ UNCHANGED <<versions, file, edits>> /\ mishaps' \subseteq {"overlap", "half"}
  BY DEF CommitAdd, RestUnchanged, TypeInv
<1>2. rules \in Tables
  BY DEF TypeInv
<1>3. t \in Texts
  <2>1. CASE op.do = "bulk_import"
    <3>1. proc[h].left # <<>> /\ proc[h].left \in Seq(Texts)
      BY <1>1, <2>1, AddedTyped
    <3>2. Head(proc[h].left) \in Texts
      BY <3>1
    <3> QED BY <2>1, <3>2
  <2>2. CASE op.do # "bulk_import"
    BY <1>1, <2>2, WorkerOf, OpShapes
  <2> QED BY <2>1, <2>2
<1>4. Added(h) \in Workers /\ Phase(Added(h))
  BY <1>1, AddedTyped
<1>5. CASE NotAdded(h)
  BY <1>1, <1>5, NotAddedTyped
<1>6. CASE Refuse(h)
  <2>1. UNCHANGED <<rules, lists, sections>>
    BY <1>6 DEF Refuse
  <2> QED BY <1>1, <1>6, <2>1, EndTyped
<1>7. CASE /\ ~HasText(t) /\ rules' = rules \union {Row(NextId, t, exp)}
           /\ UNCHANGED <<lists, sections>> /\ Commit(h, Added(h))
  <2>1. NextId \in Nat \ {0} /\ \A r \in rules : r.id # NextId
    BY <1>2, NextIdFree DEF Tables, RuleRows
  <2>2. \A r \in rules : r.text # t
    BY <1>7 DEF HasText
  <2>3. exp \in {"never", "pending"}
    OBVIOUS
  <2> HIDE DEF t, exp
  <2>4. rules' \in Tables
    BY <1>2, <1>3, <1>7, <2>1, <2>2, <2>3, AddTyped
  <2>5. TablesTyped'
    BY <1>7, <2>4 DEF TypeInv, TablesTyped
  <2> QED BY <1>1, <1>4, <1>7, <2>5, CommitTyped
<1>8. ASSUME NEW row, rules' = Updated(change, row), UNCHANGED <<lists, sections>>,
             Commit(h, Added(h))
      PROVE  TypeInv'
  <2>1. Writable(change) /\ "text" \notin DOMAIN change
    BY ChangesWritable
  <2> HIDE DEF change
  <2>2. rules' \in Tables
    BY <1>2, <1>8, <2>1, UpdateTyped
  <2>3. TablesTyped'
    BY <1>8, <2>2 DEF TypeInv, TablesTyped
  <2> QED BY <1>1, <1>4, <1>8, <2>3, CommitTyped
<1> HIDE DEF t, exp, change
<1>9. \/ NotAdded(h) \/ Refuse(h)
      \/ /\ ~HasText(t) /\ rules' = rules \union {Row(NextId, t, exp)}
         /\ UNCHANGED <<lists, sections>> /\ Commit(h, Added(h))
      \/ \E row \in proc[h].rows :
            rules' = Updated(change, row) /\ UNCHANGED <<lists, sections>> /\ Commit(h, Added(h))
  BY DEF CommitAdd, t, exp, change
<1> QED BY <1>5, <1>6, <1>7, <1>8, <1>9

\* one that is changed, one that is deleted, and a list that is replaced;
LEMMA CommitUpdateTyped ==
    ASSUME TypeInv, NEW h \in Procs, CommitUpdate(h)
    PROVE  TypeInv'
<1> DEFINE change == proc[h].op.change
<1>1. UNCHANGED <<versions, file, edits>> /\ mishaps' \subseteq {"overlap", "half"}
  BY DEF CommitUpdate, Unchanged, TypeInv
<1>2. CASE Refuse(h)
  <2>1. UNCHANGED <<rules, lists, sections>>
    BY <1>2 DEF Refuse
  <2> QED BY <1>1, <1>2, <2>1, EndTyped
<1>3. CASE ~Refuse(h)
  <2>1. PICK row \in proc[h].rows :
           /\ ~("text" \in DOMAIN change /\ \E r \in rules : r.id # row.id /\ r.text = change.text)
           /\ rules' = Updated(change, row) /\ UNCHANGED <<lists, sections>>
           /\ Commit(h, Recording(h))
    BY <1>3 DEF CommitUpdate
  <2>2. change \in RuleChanges
    BY WorkerOf, OpShapes DEF CommitUpdate
  <2>3. Writable(change)
    BY <2>2, ChangesWritable
  <2>4. "text" \in DOMAIN change => \A r \in rules : r.id # row.id => r.text # change["text"]
    BY <2>1
  <2>5. rules' \in Tables
    <3> HIDE DEF change
    <3> QED BY <2>1, <2>3, <2>4, UpdateTyped DEF TypeInv
  <2>6. TablesTyped'
    BY <2>1, <2>5 DEF TypeInv, TablesTyped
  <2> QED BY <1>1, <2>1, <2>6, RecordingTyped, CommitTyped
<1> QED BY <1>2, <1>3

LEMMA CommitDeleteTyped ==
    ASSUME TypeInv, NEW p \in Procs, CommitDelete(p)
    PROVE  TypeInv'
<1>1. UNCHANGED <<versions, file, edits>> /\ mishaps' \subseteq {"overlap", "half"}
  BY DEF CommitDelete, Unchanged, TypeInv
<1>2. rules' \in SUBSET rules /\ UNCHANGED <<lists, sections>> /\ Commit(p, Recording(p))
  BY DEF CommitDelete
<1>3. TablesTyped'
  BY <1>2, FewerTyped DEF TypeInv, TablesTyped
<1> QED BY <1>1, <1>2, <1>3, RecordingTyped, CommitTyped

LEMMA SetRulesActionTyped ==
    ASSUME TypeInv, NEW h \in Procs, SetRules(h)
    PROVE  TypeInv'
<1>1. UNCHANGED <<versions, file, edits>> /\ mishaps' \subseteq {"overlap", "half"}
  BY DEF SetRules, Unchanged, TypeInv
<1>2. proc[h].op.texts \in Seq(Texts) /\ IsInjective(proc[h].op.texts)
  BY WorkerOf, OpShapes DEF SetRules
<1>3. rules' \in Tables /\ UNCHANGED <<lists, sections>> /\ Commit(h, Recording(h))
  BY <1>2, SetRulesTyped DEF SetRules
<1>4. TablesTyped'
  BY <1>3 DEF TypeInv, TablesTyped
<1> QED BY <1>1, <1>3, <1>4, RecordingTyped, CommitTyped

\* a subscription;
LEMMA CommitListTyped ==
    ASSUME TypeInv, NEW h \in Procs, CommitList(h)
    PROVE  TypeInv'
<1> DEFINE op == proc[h].op
<1>1. UNCHANGED <<versions, file, edits>> /\ mishaps' \subseteq {"overlap", "half"}
  BY DEF CommitList, Unchanged, TypeInv
<1>2. CASE Refuse(h)
  <2>1. UNCHANGED <<rules, lists, sections>>
    BY <1>2 DEF Refuse
  <2> QED BY <1>1, <1>2, <2>1, EndTyped
<1>3. CASE ~Refuse(h)
  <2>1. /\ UNCHANGED <<rules, sections>> /\ Commit(h, Recording(h))
        /\ \/ op.do \in {"create_filter_list", "add_url"} /\ lists' = Over(lists, Only(op.url, TRUE))
           \/ op.do \in {"update_filter_list", "set_url"} /\ lists' = Over(Only(op.url, op.on), lists)
           \/ lists' = Restrict(lists, DOMAIN lists \ {op.url})
    BY <1>3 DEF CommitList
  <2>2. lists \in ListTables
    BY DEF TypeInv
  <2>3. /\ op.do \in {"create_filter_list", "add_url"} => Only(op.url, TRUE) \in ListTables
        /\ op.do \in {"update_filter_list", "set_url"} => Only(op.url, op.on) \in ListTables
    BY WorkerOf, OpShapes, TablesOnly
  <2>4. Restrict(lists, DOMAIN lists \ {op.url}) \in ListTables
    BY <2>2, TablesRestrict
  <2>5. lists' \in ListTables
    BY <2>1, <2>2, <2>3, <2>4, TablesOver
  <2>6. TablesTyped'
    BY <2>1, <2>5 DEF TypeInv, TablesTyped
  <2> QED BY <1>1, <2>1, <2>6, RecordingTyped, CommitTyped
<1> QED BY <1>2, <1>3

\* a section,
LEMMA CommitSectionTyped ==
    ASSUME TypeInv, NEW h \in Procs, CommitSection(h)
    PROVE  TypeInv'
<1> DEFINE op == proc[h].op
           row == proc[h].sec
           change == IF op.do = "update_section" THEN op.change
                     ELSE [doc |-> IF op.on THEN row.doc \union {op.key} ELSE row.doc \ {op.key}]
           next == [Recording(h) EXCEPT !.sec = Over(change, row)]
<1>1. /\ UNCHANGED <<versions, file, edits>> /\ mishaps' \subseteq {"overlap", "half"}
      /\ op.do \in {"update_section", "write_section"} /\ UNCHANGED <<rules, lists>>
      /\ sections' = [sections EXCEPT ![op.name] = Over(Net(change, row), @)]
      /\ Commit(h, next)
  BY DEF CommitSection, Unchanged, TypeInv
<1>2. /\ row \in SectionRows /\ op.name \in Names
      /\ op.do = "update_section" => op.change \in SectionChanges
      /\ op.do = "write_section" => op.key \in Keys
  BY <1>1, WorkerOf, OpShapes DEF Workers
<1>3. change \in SectionChanges
  <2>1. row.doc \in SUBSET Keys
    BY <1>2 DEF SectionRows
  <2>2. CASE op.do = "write_section"
    <3> DEFINE doc == IF op.on THEN row.doc \union {op.key} ELSE row.doc \ {op.key}
    <3>1. doc \in SUBSET Keys
      BY <1>2, <2>1, <2>2
    <3>2. change = [doc |-> doc]
      BY <2>2
    <3> HIDE DEF doc
    <3> QED BY <3>1, <3>2 DEF SectionChanges
  <2> QED BY <1>1, <1>2, <2>2
<1> HIDE DEF change, row, op
<1>4. next \in Workers /\ Phase(next)
  <2>1. Recording(h) \in Workers /\ Recording(h).pc = "snap" /\ Over(change, row) \in SectionRows
    <3>1. Over(change, row) \in SectionRows
      BY <1>2, <1>3, OverSection
    <3>2. Recording(h).pc = "snap"
      BY WorkerOf DEF Recording, Workers
    <3> QED BY <3>1, <3>2, RecordingTyped
  <2>2. Phase(Recording(h))
    BY RecordingTyped
  <2> DEFINE sec == Over(change, row)
             rec == Recording(h)
  <2>3. sec \in SectionRows /\ rec \in Workers /\ rec.pc = "snap" /\ Phase(rec)
        /\ next = [rec EXCEPT !.sec = sec]
    BY <2>1, <2>2
  <2> HIDE DEF sec, rec, next
  <2>4. [rec EXCEPT !.sec = sec] \in Workers
    BY <2>3 DEF Workers
  <2>5. Phase([rec EXCEPT !.sec = sec])
    BY <2>3 DEF Workers, Phase, Begun
  <2> QED BY <2>3, <2>4, <2>5
<1>5. sections' \in SectionTables
  <2> DEFINE new == sections'
  <2>1. /\ DOMAIN new = DOMAIN sections /\ new = [n \in DOMAIN new |-> new[n]]
        /\ \A n \in DOMAIN sections : new[n] = sections[n] \/ new[n] = Over(Net(change, row), sections[n])
    BY <1>1
  <2>2. DOMAIN sections \subseteq Names /\ \A n \in DOMAIN sections : sections[n] \in SectionRows
    BY SectionTable DEF TypeInv
  <2>3. \A n \in DOMAIN sections : new[n] \in SectionRows
    BY <1>2, <1>3, <2>1, <2>2, OverSection
  <2> HIDE DEF new
  <2> QED BY <2>1, <2>2, <2>3, SectionTable DEF new
<1>6. TablesTyped'
  BY <1>1, <1>5 DEF TypeInv, TablesTyped
<1> HIDE DEF next
<1> QED BY <1>1, <1>4, <1>6, CommitTyped

\* a restored configuration,
LEMMA CommitRestoreTyped ==
    ASSUME TypeInv, NEW h \in Procs, CommitRestore(h)
    PROVE  TypeInv'
<1> DEFINE p == proc[h]
           stop == FirstMissing(p.done)
           last == stop > Len(SectionNames)
           met == {SectionNames[i] : i \in p.done + 1 .. stop - 1}
           taken == Restrict(p.snap.sections, met \intersect DOMAIN p.snap.sections)
           bare == IF last THEN <<>> ELSE Only(SectionNames[stop], Bare)
<1>1. /\ UNCHANGED <<versions, file, edits>> /\ mishaps' \subseteq {"overlap", "half"}
      /\ p.pc = "commit" /\ p.op.do \in {"restore", "restore_version"}
      /\ sections' = Over(taken, Over(bare, sections))
      /\ \/ UNCHANGED <<rules, lists>>
         \/ rules' = RowsOf(p.snap.rules) /\ lists' = p.snap.lists
      /\ Commit(h, IF last THEN Recording(h) ELSE Interrupted(p, stop))
  BY DEF CommitRestore, Unchanged, TypeInv, Replaces
<1>2. p \in Workers /\ Phase(p) /\ p.snap \in Snapshots /\ p.done \in Nat /\ p.done <= Len(SectionNames)
  BY <1>1, WorkerOf DEF Workers, Phase
<1>3. /\ p.snap.rules \in EntrySeqs /\ p.snap.lists \in ListTables
      /\ p.snap.sections \in SectionTables
  BY <1>2, SnapshotShape DEF EntrySeqs
<1>4. /\ stop \in p.done + 1 .. Len(SectionNames) + 1
      /\ stop <= Len(SectionNames) => SectionNames[stop] \in Names
  BY <1>2, FirstMissingThere
<1>5. stop \in Nat /\ Len(SectionNames) \in Nat
  BY <1>2, <1>4, SectionIndexes
<1> HIDE DEF stop
<1>6. bare \in SectionTables
  <2>1. CASE last
    BY <2>1, NoneTyped
  <2>2. CASE ~last
    <3>1. SectionNames[stop] \in Names
      BY <1>4, <1>5, <2>2
    <3> QED BY <2>2, <3>1, TablesOnly DEF Bare, SectionRows
  <2> QED BY <2>1, <2>2
<1>7. taken \in SectionTables
  BY <1>3, TablesRestrict
<1> HIDE DEF taken, bare
<1>8. TablesTyped'
  BY <1>1, <1>3, <1>6, <1>7, TablesOver, RowsOfTyped DEF TypeInv, TablesTyped
<1>9. CASE last
  BY <1>1, <1>8, <1>9, RecordingTyped, CommitTyped
<1>10. CASE ~last
  <2> DEFINE next == Interrupted(p, stop)
  <2>1. stop - 1 \in Nat /\ stop - 1 <= Len(SectionNames)
    BY <1>2, <1>4, <1>5, <1>10
  <2>2. next \in Workers
    BY <1>2, <2>1 DEF Interrupted, Workers
  <2>3. Phase(next)
    BY <1>1, <1>2, <2>1 DEF Interrupted, Workers, Phase, Begun
  <2> HIDE DEF next
  <2>4. Commit(h, next)
    BY <1>1, <1>10 DEF next
  <2> QED BY <1>1, <1>8, <2>2, <2>3, <2>4, CommitTyped
<1> QED BY <1>9, <1>10

\* and an imported one, whose next section is the first that is left.
LEMMA SmallestTodo ==
    ASSUME NEW done \in Nat, NEW S \in SUBSET (done + 1 .. Len(SectionNames)), S # {}
    PROVE  Min(S) \in S /\ \A i \in S : Min(S) <= i
<1>1. S \in SUBSET Nat
  BY SectionIndexes
<1>2. PICK m \in S : \A w \in S : m <= w
  BY <1>1, SmallestThere
<1> QED BY <1>2 DEF Min

LEMMA CommitImportTyped ==
    ASSUME TypeInv, NEW h \in Procs, CommitImport(h)
    PROVE  TypeInv'
<1> DEFINE p == proc[h]
           missing == {i \in DOMAIN p.snap.rules : ~HasText(p.snap.rules[i].text)}
           new == {Row(NextId + Cardinality({j \in missing : j < i}), p.snap.rules[i].text, "never") :
                      i \in missing}
           todo == {i \in p.done + 1 .. Len(SectionNames) :
                        SectionNames[i] \in DOMAIN p.snap.sections}
           i == Min(todo)
           name == SectionNames[i]
           row == [managed |-> name \notin Risky, doc |-> p.snap.sections[name].doc]
<1>1. /\ UNCHANGED <<versions, file, edits>> /\ mishaps' \subseteq {"overlap", "half"}
      /\ p.pc = "commit" /\ p.op.do = "import_instance"
      /\ \/ UNCHANGED <<rules, lists>>
         \/ rules' = RowsOf(p.snap.rules) /\ lists' = p.snap.lists
         \/ rules' = rules \union new /\ lists' = Over(lists, p.snap.lists)
      /\ \/ UNCHANGED sections /\ Commit(h, Recording(h))
         \/ /\ todo # {} /\ sections' = Over(Only(name, Bare), sections)
            /\ Commit(h, [p EXCEPT !.swapped = TRUE])
         \/ /\ todo # {} /\ sections' = Over(Only(name, row), sections)
            /\ Commit(h, [p EXCEPT !.swapped = TRUE, !.done = i])
  BY DEF CommitImport, Unchanged, TypeInv
<1>2. p \in Workers /\ Phase(p) /\ p.snap \in Snapshots /\ p.done \in Nat
  BY <1>1, WorkerOf DEF Workers
<1>3. /\ p.snap.rules \in EntrySeqs /\ p.snap.lists \in ListTables
      /\ p.snap.sections \in SectionTables
  BY <1>2, SnapshotShape DEF EntrySeqs
<1>4. todo # {} => /\ i \in 1 .. Len(SectionNames) /\ name \in Names
                   /\ name \in DOMAIN p.snap.sections
  <2> SUFFICES ASSUME todo # {} PROVE i \in 1 .. Len(SectionNames) /\ name \in Names
                                      /\ name \in DOMAIN p.snap.sections
    OBVIOUS
  <2>1. i \in todo
    <3>1. todo \in SUBSET (p.done + 1 .. Len(SectionNames))
      OBVIOUS
    <3> HIDE DEF todo
    <3> QED BY <1>2, <3>1, SmallestTodo
  <2>2. i \in 1 .. Len(SectionNames)
    BY <1>2, <2>1, SectionIndexes
  <2> QED BY <2>1, <2>2, SectionIndexes
<1>5. todo # {} => row \in SectionRows
  <2> SUFFICES ASSUME todo # {} PROVE row \in SectionRows
    OBVIOUS
  <2>1. p.snap.sections[name] \in SectionRows
    BY <1>3, <1>4, SectionTable
  <2>2. p.snap.sections[name].doc \in SUBSET Keys
    BY <2>1 DEF SectionRows
  <2> HIDE DEF name
  <2> QED BY <2>2 DEF SectionRows
<1>6. rules \union new \in Tables
  <2>1. rules \union new = Joined(p.snap.rules)
    BY DEF Joined, Missing
  <2>2. rules \in Tables
    BY DEF TypeInv
  <2> HIDE DEF new
  <2> QED BY <1>3, <2>1, <2>2, ImportTyped
<1> HIDE DEF todo, i, name, row, new, missing
<1>7. sections' \in SectionTables
  <2>1. Bare \in SectionRows /\ sections \in SectionTables
    BY DEF Bare, SectionRows, TypeInv
  <2>2. todo # {} => Only(name, Bare) \in SectionTables /\ Only(name, row) \in SectionTables
    BY <1>4, <1>5, <2>1, TablesOnly
  <2>3. todo # {} => /\ Over(Only(name, Bare), sections) \in SectionTables
                     /\ Over(Only(name, row), sections) \in SectionTables
    BY <2>1, <2>2, TablesOver
  <2> QED BY <1>1, <2>1, <2>3
<1>8. rules' \in Tables /\ lists' \in ListTables
  <2>1. RowsOf(p.snap.rules) \in Tables /\ lists \in ListTables /\ rules \in Tables
    BY <1>3, RowsOfTyped DEF TypeInv
  <2>2. Over(lists, p.snap.lists) \in ListTables
    BY <1>3, <2>1, TablesOver
  <2> QED BY <1>1, <1>3, <1>6, <2>1, <2>2
<1>9. TablesTyped'
  BY <1>7, <1>8 DEF TablesTyped
<1>10. CASE Commit(h, Recording(h))
  BY <1>1, <1>9, <1>10, RecordingTyped, CommitTyped
<1>11. CASE Commit(h, [p EXCEPT !.swapped = TRUE])
  <2> DEFINE next == [p EXCEPT !.swapped = TRUE]
  <2>1. next \in Workers
    BY <1>2 DEF Workers
  <2>2. Phase(next)
    BY <1>1, <1>2 DEF Workers, Phase, Begun
  <2> HIDE DEF next
  <2>3. Commit(h, next)
    BY <1>11 DEF next
  <2> QED BY <1>1, <1>9, <2>1, <2>2, <2>3, CommitTyped
<1>12. CASE todo # {} /\ Commit(h, [p EXCEPT !.swapped = TRUE, !.done = i])
  <2> DEFINE next == [p EXCEPT !.swapped = TRUE, !.done = i]
  <2>1. i \in Nat /\ i <= Len(SectionNames)
    BY <1>4, <1>12, SectionIndexes
  <2>2. next \in Workers
    BY <1>2, <2>1 DEF Workers
  <2>3. Phase(next)
    BY <1>1, <1>2, <2>1 DEF Workers, Phase, Begun
  <2> HIDE DEF next
  <2>4. Commit(h, next)
    BY <1>12 DEF next
  <2> QED BY <1>1, <1>9, <2>2, <2>3, <2>4, CommitTyped
<1> QED BY <1>1, <1>10, <1>11, <1>12

\* So does recording a version,
LEMMA RecordTyped ==
    ASSUME TypeInv, NEW p \in Procs,
           SnapRules(p) \/ SnapRest(p) \/ Store(p) \/ CountVersions(p) \/ CutVersions(p),
           HistoryInv
    PROVE  TypeInv'
<1> DEFINE e == proc[p]
<1>1. e \in Workers /\ Phase(e)
  BY WorkerOf
<1>2. /\ UNCHANGED <<rules, lists, sections>> /\ UNCHANGED <<file, mishaps, edits>>
      /\ TablesTyped'
  BY TablesStay DEF SnapRules, SnapRest, Store, CountVersions, CutVersions, Unchanged
<1>3. /\ file \in Snapshots /\ mishaps \subseteq {"overlap", "half"} /\ owed \subseteq Kinds
      /\ edits \in 0 .. MaxEdits /\ \A v \in DOMAIN versions : versions[v] \in Snapshots
      /\ lists \in ListTables /\ sections \in SectionTables
  BY DEF TypeInv
<1>4. CASE SnapRules(p)
  <2> DEFINE snap == [Idle.snap EXCEPT !.rules = RuleEntries]
             new == [e EXCEPT !.pc = "snap2", !.snap = snap]
  <2>1. snap = [rules |-> RuleEntries, lists |-> <<>>, sections |-> <<>>]
    BY DEF Idle
  <2>2. snap \in Snapshots
    BY <2>1, SnapshotTyped, NoneTyped, SnapshotShape DEF EntrySeqs
  <2>3. proc' = [proc EXCEPT ![p] = new] /\ UNCHANGED owed /\ UNCHANGED versions
    BY <1>4 DEF SnapRules, Unchanged
  <2> HIDE DEF snap
  <2>4. new \in Workers
    BY <1>1, <2>2 DEF Workers
  <2>5. Phase(new)
    BY <1>1 DEF Workers, Phase, Begun
  <2> HIDE DEF new
  <2> QED BY <1>2, <1>3, <2>3, <2>4, <2>5, PlainTyped
<1>5. CASE SnapRest(p)
  <2> DEFINE snap == [rules |-> e.snap.rules, lists |-> lists, sections |-> sections]
             new == [e EXCEPT !.pc = "store", !.snap = snap]
  <2>1. e.snap \in [rules : EntrySeqs, lists : ListTables, sections : SectionTables]
    BY <1>1, SnapshotShape DEF Workers, EntrySeqs
  <2>2. snap \in Snapshots
    <3>1. snap \in [rules : EntrySeqs, lists : ListTables, sections : SectionTables]
      BY <1>3, <2>1
    <3> QED BY <3>1, SnapshotShape DEF EntrySeqs
  <2>4. proc' = [proc EXCEPT ![p] = new] /\ UNCHANGED owed /\ UNCHANGED versions
    BY <1>5 DEF SnapRest, Unchanged
  <2> HIDE DEF snap
  <2>5. new \in Workers
    BY <1>1, <2>2 DEF Workers
  <2>6. Phase(new)
    BY <1>1 DEF Workers, Phase, Begun
  <2> HIDE DEF new
  <2> QED BY <1>2, <1>3, <2>4, <2>5, <2>6, PlainTyped
<1>6. CASE Store(p)
  <2>1. CASE Identical(p)
    <3>1. Finish(p) /\ UNCHANGED versions
      BY <1>6, <2>1 DEF Store
    <3> QED BY <1>2, <1>3, <3>1, EndTyped
  <2>2. CASE ~Identical(p)
    <3> DEFINE new == [e EXCEPT !.pc = "prune"]
    <3>1. /\ proc' = [proc EXCEPT ![p] = new] /\ UNCHANGED owed
          /\ versions' = [v \in DOMAIN versions \union {NextVersion} |->
                            IF v \in DOMAIN versions THEN versions[v] ELSE e.snap]
      BY <1>6, <2>2 DEF Store
    <3>2. new \in Workers /\ Phase(new) /\ e.snap \in Snapshots
      BY <1>1 DEF Workers, Phase, Begun
    <3>3. \A v \in DOMAIN versions' : versions'[v] \in Snapshots
      BY <1>3, <3>1, <3>2
    <3> HIDE DEF new
    <3> QED BY <1>2, <1>3, <3>1, <3>2, <3>3, StepTyped
  <2> QED BY <2>1, <2>2
<1>7. CASE CountVersions(p)
  <2>1. UNCHANGED versions
    BY <1>7 DEF CountVersions, Unchanged
  <2>2. CASE SmallEnough
    <3>1. Finish(p)
      BY <1>7, <2>2 DEF CountVersions
    <3> QED BY <1>2, <1>3, <2>1, <3>1, EndTyped
  <2>3. CASE ~SmallEnough
    <3> DEFINE cut == Cutoff
               new == [e EXCEPT !.pc = "cut", !.cut = cut]
    <3>1. proc' = [proc EXCEPT ![p] = new] /\ UNCHANGED owed
      BY <1>7, <2>3 DEF CountVersions
    <3>2. cut \in Nat
      BY <2>3, CutoffExact
    <3> HIDE DEF cut
    <3>3. new \in Workers
      BY <1>1, <3>2 DEF Workers
    <3>4. Phase(new)
      BY <1>1 DEF Workers, Phase, Begun
    <3> HIDE DEF new
    <3> QED BY <1>2, <1>3, <2>1, <3>1, <3>3, <3>4, PlainTyped
  <2> QED BY <2>2, <2>3
<1>8. CASE CutVersions(p)
  <2>1. /\ proc' = [proc EXCEPT ![p] = Idle] /\ owed' \subseteq Kinds
        /\ \A v \in DOMAIN versions' : versions'[v] \in Snapshots
    BY <1>3, <1>8 DEF CutVersions, Finish, Restrict
  <2> QED BY <1>2, <1>3, <2>1, IdleTyped, StepTyped
<1> QED BY <1>4, <1>5, <1>6, <1>7, <1>8

\* what is asked next,
LEMMA BeginTyped ==
    ASSUME TypeInv, HistoryInv, NEW h \in Procs, Begin(h)
    PROVE  TypeInv'
<1>1. PICK op \in Requests :
         proc' = [proc EXCEPT ![h] =
                    [Idle EXCEPT !.pc = "look", !.op = op,
                                 !.left = IF op.do = "bulk_import" THEN op.texts ELSE <<>>]]
  BY DEF Begin
<1>2. op \in Ops
  BY RequestsTyped DEF HistoryInv, VersionIds
<1> DEFINE left == IF op.do = "bulk_import" THEN op.texts ELSE <<>>
           new == [Idle EXCEPT !.pc = "look", !.op = op, !.left = left]
<1>3. left \in Seq(Texts)
  <2>1. CASE op.do = "bulk_import"
    BY <1>2, <2>1, OpShapes
  <2>2. CASE op.do # "bulk_import"
    BY <2>2
  <2> QED BY <2>1, <2>2
<1>4. proc' = [proc EXCEPT ![h] = new]
  BY <1>1
<1> HIDE DEF left
<1>5. new \in Workers
  <2>1. Idle \in Workers
    BY IdleTyped
  <2> QED BY <1>2, <1>3, <2>1 DEF Workers
<1>6. Phase(new)
  <2>1. Idle.swapped = FALSE /\ Idle.done = 0 /\ Idle \in Workers
    BY IdleTyped DEF Idle
  <2> QED BY <2>1, SectionIndexes DEF Workers, Phase, Begun
<1> HIDE DEF new
<1>7. edits \in Nat /\ edits < MaxEdits /\ edits' = edits + 1
  BY DEF Begin, TypeInv
<1>8. edits' \in 0 .. MaxEdits
  BY <1>7, CentralStateAssumption
<1>9. /\ UNCHANGED <<rules, lists, sections>> /\ UNCHANGED <<versions, file, owed>>
      /\ mishaps' \subseteq {"overlap", "half"} /\ TablesTyped'
  BY TablesStay DEF Begin, Meeting, TypeInv
<1>10. /\ \A v \in DOMAIN versions' : versions'[v] \in Snapshots
       /\ file' \in Snapshots /\ owed' \subseteq Kinds
  BY <1>9 DEF TypeInv
<1> QED BY <1>4, <1>5, <1>6, <1>8, <1>9, <1>10, StepTyped

LEMMA SweepLookTyped ==
    ASSUME TypeInv, SweepLook
    PROVE  TypeInv'
<1> DEFINE due == {r \in rules : r.exp = "due"}
           op == [do |-> "sweep"]
           new == [Idle EXCEPT !.pc = "commit", !.op = op, !.rows = due]
<1>1. Sweeper \in Procs /\ proc' = [proc EXCEPT ![Sweeper] = new]
  BY DEF SweepLook, Procs
<1>2. due \subseteq RuleRows /\ op \in Ops /\ op.do = "sweep"
  BY DEF TypeInv, Tables, Ops
<1> HIDE DEF due, op
<1>3. new \in Workers
  <2>1. Idle \in Workers
    BY IdleTyped
  <2> QED BY <1>2, <2>1 DEF Workers
<1>4. Phase(new)
  <2>1. Idle.swapped = FALSE /\ Idle.done = 0 /\ Idle \in Workers
    BY IdleTyped DEF Idle
  <2> QED BY <1>2, <2>1 DEF Workers, Phase, Begun
<1> HIDE DEF new
<1>5. /\ UNCHANGED <<rules, lists, sections>> /\ UNCHANGED <<versions, file, owed, edits>>
      /\ mishaps' \subseteq {"overlap", "half"} /\ TablesTyped'
  BY TablesStay DEF SweepLook, Meeting, TypeInv
<1>6. owed' \subseteq Kinds
  BY <1>5 DEF TypeInv
<1> QED BY <1>1, <1>3, <1>4, <1>5, <1>6, PlainTyped

\* and a deadline that passes.
LEMMA FallDueTables ==
    ASSUME NEW rs \in Tables, NEW r \in rs
    PROVE  (rs \ {r}) \union {[r EXCEPT !.exp = "due"]} \in Tables
<1> DEFINE new == [r EXCEPT !.exp = "due"]
           g == [q \in rs |-> IF q = r THEN new ELSE q]
<1>1. /\ IsFiniteSet(rs) /\ \A q \in rs : q \in RuleRows
      /\ \A q, s \in rs : q.id = s.id \/ q.text = s.text => q = s
  BY DEF Tables
<1>2. new \in RuleRows /\ new.id = r.id /\ new.text = r.text
  BY <1>1 DEF RuleRows
<1> HIDE DEF new
<1>3. \A q \in rs : g[q] \in RuleRows /\ g[q].id = q.id /\ g[q].text = q.text
  BY <1>1, <1>2
<1>4. {g[q] : q \in rs} = (rs \ {r}) \union {new}
  OBVIOUS
<1> HIDE DEF g
<1>5. \A q, s \in rs : g[q].id = g[s].id \/ g[q].text = g[s].text => q = s
  BY <1>1, <1>3
<1>6. \A q \in rs : g[q] \in RuleRows
  BY <1>3
<1>7. IsFiniteSet(rs)
  BY <1>1
<1>8. {g[q] : q \in rs} \in Tables
  BY <1>5, <1>6, <1>7, NumberedRows
<1> QED BY <1>4, <1>8 DEF new

LEMMA FallDueTyped ==
    ASSUME TypeInv, FallDue
    PROVE  TypeInv'
<1>1. PICK r \in rules : rules' = (rules \ {r}) \union {[r EXCEPT !.exp = "due"]}
  BY DEF FallDue
<1>2. rules' \in Tables
  BY <1>1, FallDueTables DEF TypeInv
<1>3. owed' \subseteq Kinds
  BY DEF FallDue, TypeInv, Kinds
<1> QED BY <1>2, <1>3 DEF FallDue, TypeInv, ProcsTyped, ProcFcn

\* Every step leaves everything typed.
LEMMA TypeStep ==
    ASSUME TypeInv, HistoryInv, [Next]_vars
    PROVE  TypeInv'
<1>1. ASSUME NEW h \in Handlers, Begin(h) \/ Work(h) PROVE TypeInv'
  <2>1. h \in Procs
    BY DEF Procs
  <2>2. CASE Begin(h)
    BY <2>1, <2>2, BeginTyped
  <2>3. CASE Work(h)
    BY <2>1, <2>3, LookForTextTyped, LookForRowTyped, LookForSectionTyped, LookForStateTyped,
       ExportTyped, ViewSectionsTyped, CommitAddTyped, CommitUpdateTyped, SetRulesActionTyped,
       CommitListTyped, CommitSectionTyped, CommitRestoreTyped, CommitImportTyped DEF Work
  <2> QED BY <1>1, <2>2, <2>3
<1>2. ASSUME NEW p \in Procs, RecordAndPush(p) PROVE TypeInv'
  BY <1>2, CommitDeleteTyped, RecordTyped DEF RecordAndPush
<1>3. CASE SweepLook
  BY <1>3, SweepLookTyped
<1>4. CASE FallDue
  BY <1>4, FallDueTyped
<1>5. CASE UNCHANGED vars
  BY <1>5 DEF vars, TypeInv, ProcsTyped, ProcFcn
<1> QED BY <1>1, <1>2, <1>3, <1>4, <1>5 DEF Next

\* It is so at the start.
LEMMA TypeInitHolds == Init => TypeInv
<1> SUFFICES ASSUME Init PROVE TypeInv
  OBVIOUS
<1>1. PICK start \in Starts :
         /\ rules = RowsOf(start.rules) /\ lists = start.lists /\ sections = start.sections
         /\ versions = IF start = Idle.snap THEN <<>> ELSE <<start>>
  BY DEF Init
<1>2. start \in Snapshots /\ Backup \in Snapshots
  BY CentralStateAssumption
<1>3. start.rules \in EntrySeqs /\ lists \in ListTables /\ sections \in SectionTables
  BY <1>1, <1>2, SnapshotShape DEF EntrySeqs
<1>4. rules \in Tables
  BY <1>1, <1>3, RowsOfTyped
<1>5. \A v \in DOMAIN versions : versions[v] \in Snapshots
  BY <1>1, <1>2
<1>6. ProcsTyped
  BY IdleTyped DEF Init, ProcsTyped, ProcFcn
<1> QED BY <1>2, <1>3, <1>4, <1>5, <1>6, CentralStateAssumption DEF Init, TypeInv

\* TypeOK says it of the state the properties talk about.
LEMMA TypedIsOK == TypeInv /\ HistoryInv => TypeOK
<1> SUFFICES ASSUME TypeInv, HistoryInv PROVE TypeOK
  OBVIOUS
<1>1. /\ \A r \in rules : r \in [id : Nat \ {0}, text : Texts, on : BOOLEAN,
                                  exp : {"never", "pending", "due"}]
      /\ \A r, q \in rules : r.id = q.id \/ r.text = q.text => r = q
  BY DEF TypeInv, Tables, RuleRows
<1>2. /\ DOMAIN lists \subseteq Urls /\ \A u \in DOMAIN lists : lists[u] \in BOOLEAN
      /\ DOMAIN sections \subseteq Names
      /\ \A n \in DOMAIN sections : sections[n] \in SectionRows
  BY ListTable, SectionTable DEF TypeInv
<1>3. DOMAIN versions \subseteq Nat \ {0} /\ DOMAIN proc = Procs
  BY DEF HistoryInv, VersionIds, ProcFcn
<1> QED BY <1>1, <1>2, <1>3 DEF TypeOK, TypeInv, Kinds

\* Every row, version and process record has its shape, and no interleaving of handlers gives
\* two rules one id or one text: not the reuse of a freed id, a stale row that is written, the
\* ids an import hands out, nor a restore that starts them again.
THEOREM TypesKept == Spec => []TypeOK
<1>1. HistoryInv /\ TypeInv /\ [Next]_vars => HistoryInv' /\ TypeInv'
  BY HistoryStep, TypeStep
<1> QED BY <1>1, HistoryInitHolds, TypeInitHolds, TypedIsOK, PTL DEF Spec
=============================================================================

------------------------------ MODULE DriftLog ------------------------------
(***************************************************************************)
(* What a reconciliation pass leaves behind: the drift log's rows with     *)
(* their counts of repeated refusals, and the streaks of reconcile_runs.   *)
(* The timer's pass and the operator's run at the same time, and the       *)
(* operator clears the log.                                                *)
(*                                                                         *)
(* One instance and one payload kind: rows of others share neither look-up *)
(* nor count.  A finding stands for its summary and details, NoFinding for *)
(* a pass that found nothing.                                              *)
(***************************************************************************)
EXTENDS Integers, Sequences, SequencesExt, FiniteSets, FiniteSetsExt

CONSTANTS
    Passes,         \* passes under way at once
    Refusals,       \* findings that repeat: the node does not keep, or refuses, the correction
    Corrections,    \* findings whose correction held
    NoFinding,
    MaxDriftEvents,     \* 500 in the code
    MaxReconcileRuns,   \* 500 in the code
    MaxFound        \* bound: how many passes are made

ASSUME DriftLogAssumption ==
    /\ MaxDriftEvents \in Nat \ {0} /\ MaxReconcileRuns \in Nat \ {0}
    /\ MaxFound \in Nat
    /\ IsFiniteSet(Passes)

VARIABLES
    drift,      \* DriftEvent rows, oldest first
    recorded,   \* ReconcileRun rows, oldest first
    finder,     \* finder[p]: where pass p is, and the row it loaded
    sightings,  \* sightings[f]: how often finding f was archived
    completed,  \* passes recorded, and those whose streak was pruned, by outcome
    mishaps,    \* what of {"overlap", "cleared"} has happened
    found

driftVars ==
    <<drift, recorded, finder, sightings, completed, mishaps, found>>

Findings == Refusals \union Corrections

NoPassYet == [pc |-> "rest", what |-> NoFinding, row |-> <<>>, cutoff |-> 0]

LastId(rows) == IF rows = <<>> THEN 0 ELSE Last(rows).id

\* The row as it is now, or none: deleted, or another one under its id.
RowsWith(rows, id) == {i \in DOMAIN rows : rows[i].id = id}

-----------------------------------------------------------------------------
(* A pass's entry.                                                          *)

PassUnderway(p) == finder[p].pc # "rest"

\* Mutant: archived with the new entries only.
ArchivedIfNew(what) ==
    IF what = NoFinding \/ (drift # <<>> /\ Last(drift).what = what) THEN sightings
    ELSE [sightings EXCEPT ![what] = @ + 1]

Archived(what) == IF what = NoFinding THEN sightings ELSE [sightings EXCEPT ![what] = @ + 1]

\* Archived before anything else is done with it.
Find(p) ==
    /\ ~PassUnderway(p) /\ found < MaxFound
    /\ found' = found + 1
    /\ \E what \in Findings \union {NoFinding} :
          /\ finder' = [finder EXCEPT ![p] = [NoPassYet EXCEPT
                !.pc = IF what = NoFinding THEN "streak" ELSE "look", !.what = what]]
          /\ sightings' = Archived(what)
    /\ mishaps' = IF \E q \in Passes : PassUnderway(q) THEN mishaps \union {"overlap"} ELSE mishaps
    /\ UNCHANGED <<drift, recorded, completed>>

Standing(what) == IF drift # <<>> /\ Last(drift).what = what THEN <<Last(drift)>> ELSE <<>>

\* _count_again for a refusal, a new entry for a correction that held.
LookForStanding(p) ==
    /\ finder[p].pc = "look"
    /\ finder' = [finder EXCEPT ![p].pc = "enter",
                                ![p].row = IF finder[p].what \in Refusals
                                           THEN Standing(finder[p].what) ELSE <<>>]
    /\ UNCHANGED <<drift, recorded, sightings, completed, mishaps, found>>

\* The commit.  A counted row that is gone meanwhile fails it, and the pass with it.
EnterFinding(p) ==
    /\ finder[p].pc = "enter"
    /\ LET row == finder[p].row IN
       \/ /\ row = <<>>
          /\ drift' = Append(drift, [id |-> LastId(drift) + 1, what |-> finder[p].what, seen |-> 1])
          /\ finder' = [finder EXCEPT ![p].pc = "prune", ![p].row = <<>>]
       \/ /\ row # <<>> /\ RowsWith(drift, row[1].id) # {}
          /\ drift' = [i \in DOMAIN drift |->
                         IF drift[i].id = row[1].id
                         THEN [drift[i] EXCEPT !.seen = row[1].seen + 1] ELSE drift[i]]
          /\ finder' = [finder EXCEPT ![p].pc = "prune", ![p].row = <<>>]
       \/ /\ row # <<>> /\ RowsWith(drift, row[1].id) = {}
          /\ finder' = [finder EXCEPT ![p] = NoPassYet]
          /\ UNCHANGED drift
    /\ UNCHANGED <<recorded, sightings, completed, mishaps, found>>

\* _prune: the newest of those beyond the cap.
CutoffOf(rows, cap) == rows[Len(rows) - cap].id

RowsUpTo(rows, id) == {i \in DOMAIN rows : rows[i].id <= id}

\* The oldest rows deleted; ids ascend.
OldestGone(rows, n) == SubSeq(rows, n + 1, Len(rows))

LookForExcess(p) ==
    /\ finder[p].pc = "prune"
    /\ finder' = [finder EXCEPT
          ![p].pc = IF Len(drift) > MaxDriftEvents THEN "cut" ELSE "streak",
          ![p].cutoff = IF Len(drift) > MaxDriftEvents THEN CutoffOf(drift, MaxDriftEvents) ELSE 0]
    /\ UNCHANGED <<drift, recorded, sightings, completed, mishaps, found>>

CutExcess(p) ==
    /\ finder[p].pc = "cut"
    /\ drift' = OldestGone(drift, Cardinality(RowsUpTo(drift, finder[p].cutoff)))
    /\ finder' = [finder EXCEPT ![p].pc = "streak", ![p].cutoff = 0]
    /\ UNCHANGED <<recorded, sightings, completed, mishaps, found>>

\* clear_drift
ClearDrift ==
    /\ drift # <<>>
    /\ drift' = <<>>
    /\ mishaps' = IF \E p \in Passes : finder[p].pc \in {"enter", "cut"} THEN mishaps \union {"cleared"}
                  ELSE mishaps
    /\ UNCHANGED <<recorded, finder, sightings, completed, found>>

-----------------------------------------------------------------------------
(* record_pass.  The cut of the runs is one step with it.                   *)

Shapes == {"quiet", "refused", "corrected"}

Shape(what) == IF what = NoFinding THEN "quiet" ELSE IF what \in Refusals THEN "refused" ELSE "corrected"

LookForStreak(p) ==
    /\ finder[p].pc = "streak"
    /\ finder' = [finder EXCEPT ![p].pc = "record",
                                ![p].row = IF recorded = <<>> THEN <<>> ELSE <<Last(recorded)>>]
    /\ UNCHANGED <<drift, recorded, sightings, completed, mishaps, found>>

PassesOf(rows, shape) ==
    LET upTo[i \in 0 .. Len(rows)] ==
          IF i = 0 THEN 0
          ELSE upTo[i - 1] + (IF rows[i].shape = shape THEN rows[i].passes ELSE 0)
    IN  upTo[Len(rows)]

\* Mutant: whatever the outcome was.
SameStreakAlways(row, what) == row # <<>>

SameStreak(row, what) == row # <<>> /\ row[1].shape = Shape(what)

Folded(row, what) ==
    IF SameStreak(row, what)
    THEN [i \in DOMAIN recorded |->
            IF recorded[i].id = row[1].id
            THEN [recorded[i] EXCEPT !.passes = row[1].passes + 1] ELSE recorded[i]]
    ELSE Append(recorded, [id |-> LastId(recorded) + 1, shape |-> Shape(what), passes |-> 1])

RecordStreak(p) ==
    /\ finder[p].pc = "record"
    /\ LET rows == Folded(finder[p].row, finder[p].what)
           excess == IF Len(rows) > MaxReconcileRuns THEN Len(rows) - MaxReconcileRuns ELSE 0
       IN /\ recorded' = OldestGone(rows, excess)
          /\ completed' = [completed EXCEPT
                !.made[Shape(finder[p].what)] = @ + 1,
                !.pruned = [shape \in Shapes |-> @[shape] + PassesOf(SubSeq(rows, 1, excess), shape)]]
    /\ finder' = [finder EXCEPT ![p] = NoPassYet]
    /\ UNCHANGED <<drift, sightings, mishaps, found>>

DriftInit ==
    /\ drift = <<>> /\ recorded = <<>>
    /\ finder = [p \in Passes |-> NoPassYet]
    /\ sightings = [f \in Findings |-> 0]
    /\ completed = [made |-> [shape \in Shapes |-> 0], pruned |-> [shape \in Shapes |-> 0]]
    /\ mishaps = {}
    /\ found = 0

DriftNext ==
    \/ \E p \in Passes :
          \/ Find(p) \/ LookForStanding(p) \/ EnterFinding(p) \/ LookForExcess(p) \/ CutExcess(p)
          \/ LookForStreak(p) \/ RecordStreak(p)
    \/ ClearDrift

DriftSpec == DriftInit /\ [][DriftNext]_driftVars

-----------------------------------------------------------------------------
(* Properties.                                                              *)

\* An entry never claims more sightings than the archive has lines for it - passes that
\* overlap lose a sighting, they do not make one up - as long as the log is not cleared
\* between a pass's look-up and its commit, when the id may be another entry's.
NeverOvercounted ==
    "cleared" \notin mishaps =>
        \A i \in DOMAIN drift : drift[i].seen <= sightings[drift[i].what]

\* The streaks account for every pass by its outcome, and each ends where the outcome
\* changed; passes that overlap may lose one, and none is ever counted that was not made.
StreaksTrue ==
    /\ \A shape \in Shapes :
          LET told == PassesOf(recorded, shape) + completed.pruned[shape] IN
          /\ told <= completed.made[shape]
          /\ "overlap" \notin mishaps => told = completed.made[shape]
    /\ "overlap" \notin mishaps =>
          \A i \in 2 .. Len(recorded) : recorded[i].shape # recorded[i - 1].shape
=============================================================================

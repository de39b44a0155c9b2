----------------------- MODULE CentralState_promises ------------------------
(***************************************************************************)
(* Proofs of what CentralState promises its operator.  Whatever the        *)
(* handlers commit, somebody is under way to schedule the push of it       *)
(* (Covered).  A restore that met nobody is as far as it says (Restored),  *)
(* and what is in no version belongs to somebody who is about to record it *)
(* (UndoInv): both rest on the fact that, as long as nobody met anybody,   *)
(* all the others are idle (Alone).                                        *)
(***************************************************************************)
EXTENDS CentralState_proofs

\* Nobody but p is under way.
Solo(p) == \A q \in Procs : q # p => proc[q].pc = "idle"

Alone == "overlap" \notin mishaps => \A p \in Procs : proc[p].pc # "idle" => Solo(p)

OthersStay(p) == \A q \in Procs : q # p => proc'[q] = proc[q]

Starting(p) == proc[p].pc = "idle" /\ (Begin(p) \/ (p = Sweeper /\ SweepLook))

Going(p) == Work(p) \/ RecordAndPush(p)

\* A step that sets one record leaves the others.
LEMMA ExceptStays ==
    ASSUME ProcFcn, NEW p, NEW new, proc' = [proc EXCEPT ![p] = new]
    PROVE  OthersStay(p)
BY DEF ProcFcn, OthersStay

\* A handler or the worker acts, and nobody else's record changes.
LEMMA OneSteps ==
    ASSUME TypeInv, HistoryInv, [Next]_vars
    PROVE  \/ \E p \in Procs : (Starting(p) \/ (Going(p) /\ proc[p].pc # "idle")) /\ OthersStay(p)
           \/ UNCHANGED <<proc, mishaps>> /\ (FallDue \/ UNCHANGED vars)
<1>0. ProcFcn
  BY DEF HistoryInv
<1>1. ASSUME NEW p \in Procs, Moves(p) PROVE OthersStay(p)
  BY <1>0, <1>1 DEF Moves, OthersStay, ProcFcn
<1>2. ASSUME NEW h \in Handlers, Work(h)
      PROVE  h \in Procs /\ Going(h) /\ proc[h].pc # "idle" /\ OthersStay(h)
  <2>1. h \in Procs
    BY DEF Procs
  <2>2. proc[h].pc # "idle"
    BY <1>2 DEF Work, LookForText, LookForRow, LookForSection, LookForState, Export, ViewSections,
       CommitAdd, CommitUpdate, SetRules, CommitList, CommitSection, CommitRestore, CommitImport
  <2>3. Moves(h)
    BY <1>2, <2>1, LookMoves, WriteMoves, AddMoves, ReplaceMoves DEF Work
  <2> QED BY <1>1, <1>2, <2>1, <2>2, <2>3 DEF Going
<1>3. ASSUME NEW p \in Procs, RecordAndPush(p)
      PROVE  Going(p) /\ proc[p].pc # "idle" /\ OthersStay(p)
  <2>1. proc[p].pc # "idle"
    BY <1>3 DEF RecordAndPush, CommitDelete, SnapRules, SnapRest, Store, CountVersions, CutVersions
  <2>2. CASE CommitDelete(p) \/ SnapRules(p) \/ SnapRest(p)
    BY <1>1, <1>3, <2>1, <2>2, WriteMoves, SnapMoves DEF Going
  <2>3. CASE Store(p) \/ CountVersions(p) \/ CutVersions(p)
    <3>1. PICK new : proc' = [proc EXCEPT ![p] = new]
      BY <2>3 DEF Store, CountVersions, CutVersions, Finish
    <3>2. OthersStay(p)
      BY <1>0, <3>1, ExceptStays
    <3> QED BY <1>3, <2>1, <3>2 DEF Going
  <2> QED BY <1>3, <2>2, <2>3 DEF RecordAndPush
<1>4. ASSUME NEW h \in Handlers, Begin(h)
      PROVE  h \in Procs /\ Starting(h) /\ OthersStay(h)
  <2>1. h \in Procs /\ Starting(h)
    BY <1>4 DEF Procs, Starting, Begin
  <2>2. OthersStay(h)
    BY <1>0, <1>4, ExceptStays DEF Begin
  <2> QED BY <2>1, <2>2
<1>5. ASSUME SweepLook
      PROVE  Sweeper \in Procs /\ Starting(Sweeper) /\ OthersStay(Sweeper)
  <2>1. Sweeper \in Procs /\ Starting(Sweeper)
    BY <1>5 DEF Procs, Starting, SweepLook
  <2>2. OthersStay(Sweeper)
    BY <1>0, <1>5, ExceptStays DEF SweepLook
  <2> QED BY <2>1, <2>2
<1>6. ASSUME FallDue \/ UNCHANGED vars PROVE UNCHANGED <<proc, mishaps>>
  BY <1>6 DEF FallDue, vars
<1>7. \/ \E h \in Handlers : Begin(h) \/ Work(h)
      \/ \E p \in Procs : RecordAndPush(p)
      \/ SweepLook
      \/ FallDue \/ UNCHANGED vars
  BY DEF Next
<1> QED BY <1>2, <1>3, <1>4, <1>5, <1>6, <1>7

\* What went wrong is not forgotten.
LEMMA MishapsStay ==
    ASSUME NEW p \in Procs, Starting(p) \/ Going(p)
    PROVE  mishaps \subseteq mishaps'
BY DEF Starting, Begin, SweepLook, Going, Work, RecordAndPush, LookForText, LookForRow, LookForSection,
   LookForState, Export, ViewSections, CommitAdd, CommitUpdate, SetRules, CommitList, CommitSection,
   CommitRestore, CommitImport, CommitDelete, SnapRules, SnapRest, Store, CountVersions, CutVersions,
   Unchanged

\* Who starts while another is under way meets it, and that is recorded.
LEMMA StartsSolo ==
    ASSUME NEW p \in Procs, Starting(p), "overlap" \notin mishaps'
    PROVE  Solo(p)
<1>1. Meeting(p) = {}
  BY DEF Starting, Begin, SweepLook, Meeting
<1> QED BY <1>1 DEF Meeting, Solo

\* Two that are under way at once have met.
LEMMA AloneStep ==
    ASSUME TypeInv, HistoryInv, Alone, [Next]_vars
    PROVE  Alone'
<1>1. CASE UNCHANGED <<proc, mishaps>>
  BY <1>1 DEF Alone, Solo
<1>2. ASSUME NEW p \in Procs, Starting(p) \/ (Going(p) /\ proc[p].pc # "idle"), OthersStay(p)
      PROVE  Alone'
  <2> SUFFICES ASSUME "overlap" \notin mishaps' PROVE \A q \in Procs : q # p => proc'[q].pc = "idle"
    BY DEF Alone, Solo
  <2>1. "overlap" \notin mishaps
    BY <1>2, MishapsStay
  <2>2. Solo(p)
    BY <1>2, <2>1, StartsSolo DEF Alone
  <2> QED BY <1>2, <2>2 DEF Solo, OthersStay
<1> QED BY <1>1, <1>2, OneSteps

-----------------------------------------------------------------------------
(* Every commit is followed by a push.                                     *)

SecFresh(e) ==
    e.pc = "commit" /\ e.op.do \in {"update_section", "write_section"} =>
        e.op.name \in DOMAIN sections /\ sections[e.op.name] = e.sec

\* A handler that is alone holds the section's row as it is.
SectionsFresh == "overlap" \notin mishaps => \A p \in Procs : SecFresh(proc[p])

\* Scheduled of CentralState, for a process record.
ScheduledBy(e) ==
    CASE e.op.do \in {"create_rule", "allow_domain", "bulk_import", "set_rules", "delete_rule",
                      "update_rule", "sweep"} -> {"rules"}
      [] e.op.do \in {"create_filter_list", "add_url", "remove_url", "update_filter_list",
                      "set_url", "delete_filter_list"} -> {"filters"}
      [] e.op.do = "write_section" -> {"settings"}
      [] e.op.do = "update_section" -> IF e.sec.managed THEN {"settings"} ELSE {}
      [] e.op.do \in {"restore_version", "restore", "import_instance"} ->
            IF e.op.push THEN {"rules", "filters", "settings"} ELSE {}
      [] OTHER -> {}

\* It has committed, and so will schedule a push when it is through.
Owing(e) == e.pc \in {"snap", "snap2", "store", "prune", "cut"} \/ Begun(e)

Due(e) == IF Owing(e) THEN ScheduledBy(e) ELSE {}

OverdueRule == \E r \in rules : r.exp = "due" /\ r.on

\* The kinds that EverythingScheduled lets wait.
Excused(k) ==
    \/ k = "rules" /\ (OverdueRule \/ "half" \in mishaps)
    \/ k = "settings" /\ mishaps # {}

\* Whatever is owed, somebody is under way to schedule it.
Covered == \A k \in owed : Excused(k) \/ \E q \in Procs : k \in Due(proc[q])

\* The two agree.
LEMMA ScheduledIs ==
    ASSUME NEW p
    PROVE  Scheduled(p) = ScheduledBy(proc[p])
BY DEF Scheduled, ScheduledBy

\* A step about one process that changes no rule.
LEMMA QuietCovers ==
    ASSUME TypeInv, Covered, NEW p \in Procs, NEW f, proc' = [proc EXCEPT ![p] = f],
           UNCHANGED rules, mishaps \subseteq mishaps',
           \A k \in owed' : k \in owed \/ k \in Due(f) \/ Excused(k)',
           \A k \in owed' : k \in Due(proc[p]) => k \in Due(f) \/ Excused(k)'
    PROVE  Covered'
<1>1. \A k : Excused(k) => Excused(k)'
  BY DEF Excused, OverdueRule
<1>2. proc'[p] = f /\ \A q \in Procs : q # p => proc'[q] = proc[q]
  BY DEF TypeInv, ProcsTyped, ProcFcn
<1>3. ASSUME NEW k \in owed' PROVE Excused(k)' \/ \E q \in Procs : k \in Due(proc'[q])
  <2>1. CASE k \in Due(f) \/ Excused(k)'
    BY <1>2, <2>1
  <2>2. CASE k \in owed
    BY <1>1, <1>2, <2>2 DEF Covered
  <2> QED BY <2>1, <2>2
<1>4. \A q : Due(proc[q])' = Due(proc'[q])
  BY DEF Due, Owing, ScheduledBy, Begun
<1> QED BY <1>3, <1>4 DEF Covered

\* A commit whose process goes on, and schedules what it changed.
LEMMA CommitCovers ==
    ASSUME TypeInv, Covered, NEW p \in Procs, NEW f, proc' = [proc EXCEPT ![p] = f],
           mishaps \subseteq mishaps',
           \A k \in owed' : k \in owed \/ k \in Due(f) \/ Excused(k)',
           Due(proc[p]) \subseteq Due(f),
           UNCHANGED rules \/ "rules" \in Due(f)
    PROVE  Covered'
<1>1. CASE UNCHANGED rules
  BY <1>1, QuietCovers
<1>2. CASE "rules" \in Due(f)
  <2>1. \A k : Excused(k) => Excused(k)' \/ k \in Due(f)
    BY <1>2 DEF Excused
  <2>2. proc'[p] = f /\ \A q \in Procs : q # p => proc'[q] = proc[q]
    BY DEF TypeInv, ProcsTyped, ProcFcn
  <2>3. ASSUME NEW k \in owed' PROVE Excused(k)' \/ \E q \in Procs : k \in Due(proc'[q])
    <3>1. CASE k \in Due(f) \/ Excused(k)'
      BY <2>2, <3>1
    <3>2. CASE k \in owed
      BY <2>1, <2>2, <3>2 DEF Covered
    <3> QED BY <3>1, <3>2
  <2>4. \A q : Due(proc[q])' = Due(proc'[q])
    BY DEF Due, Owing, ScheduledBy, Begun
  <2> QED BY <2>3, <2>4 DEF Covered
<1> QED BY <1>1, <1>2

\* The handler is through: what it has to schedule it schedules.
LEMMA FinishCovers ==
    ASSUME TypeInv, Covered, NEW p \in Procs, Finish(p), UNCHANGED rules, mishaps \subseteq mishaps'
    PROVE  Covered'
<1>1. proc' = [proc EXCEPT ![p] = Idle] /\ owed' = owed \ ScheduledBy(proc[p])
  BY ScheduledIs DEF Finish
<1>2. \A k \in owed' : k \in owed /\ k \notin Due(proc[p])
  BY <1>1 DEF Due
<1> QED BY <1>1, <1>2, QuietCovers

\* It gives up with nothing committed, or is recorded to have done so half way.
LEMMA RefuseCovers ==
    ASSUME TypeInv, Covered, NEW p \in Procs, proc' = [proc EXCEPT ![p] = Idle],
           UNCHANGED <<rules, owed>>, mishaps \subseteq mishaps',
           Due(proc[p]) = {} \/ (Due(proc[p]) \subseteq {"rules"} /\ "half" \in mishaps')
    PROVE  Covered'
<1>1. \A k \in Due(proc[p]) : Excused(k)'
  BY DEF Excused
<1> QED BY <1>1, QuietCovers

\* A step on the way that changes neither what is done nor what is owed.
LEMMA OnwardCovers ==
    ASSUME TypeInv, Covered, NEW p \in Procs, NEW f, proc' = [proc EXCEPT ![p] = f],
           UNCHANGED <<rules, owed>>, mishaps \subseteq mishaps', Due(proc[p]) \subseteq Due(f)
    PROVE  Covered'
BY QuietCovers

\* What a process has to schedule does not change on its way.
LEMMA DueStays ==
    ASSUME NEW e, NEW f, f.op = e.op, f.sec = e.sec, Owing(e) => Owing(f)
    PROVE  Due(e) \subseteq Due(f)
BY DEF Due, ScheduledBy

\* Who has committed nothing has nothing to schedule.
LEMMA NothingDue ==
    ASSUME TypeInv, NEW p \in Procs
    PROVE  /\ proc[p].pc = "idle" => Due(proc[p]) = {}
           /\ proc[p].pc = "look" /\ proc[p].op.do # "bulk_import" => Due(proc[p]) = {}
           /\ proc[p].pc = "commit" /\ proc[p].op.do \notin
                 {"bulk_import", "restore", "restore_version", "import_instance"} =>
                 Due(proc[p]) = {}
<1>1. proc[p] \in Workers /\ Phase(proc[p])
  BY WorkerOf
<1>2. proc[p].pc = "idle" => ~Owing(proc[p])
  BY <1>1 DEF Phase, Owing, Begun, Idle
<1>3. proc[p].pc = "look" /\ proc[p].op.do # "bulk_import" => ~Owing(proc[p])
  BY <1>1 DEF Phase, Owing, Begun
<1>4. proc[p].pc = "commit" /\ proc[p].op.do \notin
                 {"bulk_import", "restore", "restore_version", "import_instance"} => ~Owing(proc[p])
  BY <1>1 DEF Phase, Owing, Begun
<1> QED BY <1>2, <1>3, <1>4 DEF Due

\* A commit, but where the operator asked that the nodes stay as they are.
LEMMA CommitDue ==
    ASSUME TypeInv, Covered, NEW p \in Procs, NEW f, Commit(p, f), mishaps \subseteq mishaps',
           \/ "push" \in DOMAIN proc[p].op /\ ~proc[p].op.push
           \/ /\ \A k \in Changed : k \in Due(f) \/ Excused(k)'
              /\ Due(proc[p]) \subseteq Due(f)
              /\ UNCHANGED rules \/ "rules" \in Due(f)
    PROVE  Covered'
<1>1. CASE "push" \in DOMAIN proc[p].op /\ ~proc[p].op.push
  BY <1>1 DEF Commit, Covered
<1>2. CASE ~("push" \in DOMAIN proc[p].op /\ ~proc[p].op.push)
  <2>1. proc' = [proc EXCEPT ![p] = f] /\ owed' = owed \union Changed
    BY <1>2 DEF Commit
  <2> QED BY <1>2, <2>1, CommitCovers
<1> QED BY <1>1, <1>2

\* A commit changes the kind whose table it writes.
LEMMA OnlyRulesChange == ASSUME UNCHANGED <<lists, sections>> PROVE Changed \subseteq {"rules"}
BY DEF Changed, Carried

LEMMA OnlyListsChange == ASSUME UNCHANGED <<rules, sections>> PROVE Changed \subseteq {"filters"}
BY DEF Changed, Carried

LEMMA OnlySectionsChange ==
    ASSUME UNCHANGED <<rules, lists>>
    PROVE  /\ Changed \subseteq {"settings"}
           /\ Carried("settings", rules, lists, sections)'
                 \subseteq Carried("settings", rules, lists, sections) => Changed = {}
BY DEF Changed, Carried

\* Requests about rules.
RuleOps ==
    {"create_rule", "allow_domain", "bulk_import", "set_rules", "delete_rule", "update_rule",
     "sweep"}

\* They schedule the rules.
LEMMA RuleOpsDue ==
    ASSUME NEW e, e.op.do \in RuleOps, NEW f, f.op = e.op, Owing(f)
    PROVE  Due(f) = {"rules"} /\ Due(e) \subseteq {"rules"}
BY DEF RuleOps, Due, ScheduledBy

\* Going on to record a version changes nothing else.
LEMMA RecordingOf ==
    ASSUME TypeInv, NEW p \in Procs
    PROVE  /\ Recording(p).op = proc[p].op /\ Recording(p).sec = proc[p].sec
           /\ Recording(p).pc = "snap" /\ Owing(Recording(p))
<1>1. proc[p] \in Workers
  BY WorkerOf
<1> QED BY <1>1 DEF Workers, Recording, Owing

\* A commit of rules, and which they are.
LEMMA RulesCovers ==
    ASSUME TypeInv, Covered, NEW p \in Procs, proc[p].op.do \in RuleOps,
           NEW f, f.op = proc[p].op, Owing(f), Commit(p, f), UNCHANGED <<lists, sections>>,
           mishaps \subseteq mishaps'
    PROVE  Covered'
<1>1. Due(f) = {"rules"} /\ Due(proc[p]) \subseteq {"rules"}
  BY RuleOpsDue
<1> QED BY <1>1, OnlyRulesChange, CommitDue

LEMMA AddedOf ==
    ASSUME TypeInv, NEW h \in Procs, proc[h].pc = "commit",
           proc[h].op.do \in {"create_rule", "allow_domain", "bulk_import"}
    PROVE  Added(h).op = proc[h].op /\ Owing(Added(h))
<1>1. proc[h] \in Workers /\ proc[h].done \in Nat
  BY WorkerOf DEF Workers
<1>2. CASE proc[h].op.do = "bulk_import"
  BY <1>1, <1>2 DEF Added, Workers, Owing, Begun
<1>3. CASE proc[h].op.do # "bulk_import"
  BY <1>3, RecordingOf DEF Added
<1> QED BY <1>2, <1>3

LEMMA CommitAddCovers ==
    ASSUME TypeInv, Covered, NEW h \in Procs, CommitAdd(h)
    PROVE  Covered'
<1> DEFINE op == proc[h].op
<1>1. /\ proc[h].pc = "commit" /\ op.do \in {"create_rule", "allow_domain", "bulk_import"}
      /\ mishaps' = IF proc'[h].pc = "idle" /\ proc[h].done > 0 THEN mishaps \union {"half"}
                    ELSE mishaps
  BY DEF CommitAdd
<1>2. mishaps \subseteq mishaps' /\ proc[h] \in Workers /\ Phase(proc[h])
  BY <1>1, WorkerOf
<1>3. CASE Refuse(h)
  <2>1. proc'[h].pc = "idle" /\ proc' = [proc EXCEPT ![h] = Idle] /\ UNCHANGED <<rules, owed>>
    BY <1>3 DEF Refuse, Idle, TypeInv, ProcsTyped, ProcFcn
  <2>2. CASE op.do = "bulk_import" /\ proc[h].done > 0
    <3>1. "half" \in mishaps'
      BY <1>1, <2>1, <2>2
    <3>2. Due(proc[h]) \subseteq {"rules"}
      BY <2>2 DEF Due, ScheduledBy
    <3> QED BY <1>2, <2>1, <3>1, <3>2, RefuseCovers
  <2>3. CASE ~(op.do = "bulk_import" /\ proc[h].done > 0)
    <3>1. Due(proc[h]) = {}
      <4>1. CASE op.do = "bulk_import"
        BY <1>1, <1>2, <2>3, <4>1 DEF Due, Owing, Begun, Phase
      <4>2. CASE op.do # "bulk_import"
        BY <1>1, <4>2, NothingDue
      <4> QED BY <4>1, <4>2
    <3> QED BY <1>2, <2>1, <3>1, RefuseCovers
  <2> QED BY <2>2, <2>3
<1>4. CASE NotAdded(h)
  <2>1. CASE op.do = "create_rule"
    BY <1>3, <1>4, <2>1 DEF NotAdded
  <2>2. CASE op.do = "allow_domain"
    <3>1. Finish(h) /\ UNCHANGED rules
      BY <1>4, <2>2 DEF NotAdded
    <3>2. mishaps \subseteq mishaps'
      BY <1>2
    <3> QED BY <3>1, <3>2, FinishCovers
  <2>3. CASE op.do = "bulk_import"
    <3> DEFINE rest == PassedOver(h)
    <3>1. proc' = [proc EXCEPT ![h] = rest] /\ UNCHANGED <<rules, owed>>
      BY <1>4, <2>3 DEF NotAdded, PassedOver
    <3>2. rest.op = op /\ rest.sec = proc[h].sec /\ (Owing(proc[h]) => Owing(rest))
      BY <1>1, <1>2 DEF Workers, Owing, Begun, PassedOver
    <3>3. Due(proc[h]) \subseteq Due(rest)
      <4> HIDE DEF rest
      <4> QED BY <3>2, DueStays
    <3> HIDE DEF rest
    <3> QED BY <1>2, <3>1, <3>3, OnwardCovers
  <2> QED BY <1>1, <2>1, <2>2, <2>3
<1>5. CASE UNCHANGED <<lists, sections>> /\ Commit(h, Added(h))
  BY <1>1, <1>2, <1>5, AddedOf, RulesCovers DEF RuleOps
<1>6. NotAdded(h) \/ Refuse(h) \/ (UNCHANGED <<lists, sections>> /\ Commit(h, Added(h)))
  BY DEF CommitAdd
<1> QED BY <1>3, <1>4, <1>5, <1>6

LEMMA RuleCommitsCover ==
    ASSUME TypeInv, Covered, NEW p \in Procs, CommitUpdate(p) \/ CommitDelete(p) \/ SetRules(p)
    PROVE  Covered'
<1>1. mishaps' = mishaps /\ proc[p].op.do \in RuleOps
  BY DEF CommitUpdate, CommitDelete, SetRules, Unchanged, RuleOps
<1>2. CASE UNCHANGED <<lists, sections>> /\ Commit(p, Recording(p))
  BY <1>1, <1>2, RecordingOf, RulesCovers
<1>3. CASE Refuse(p) /\ CommitUpdate(p)
  <2>1. Due(proc[p]) = {}
    BY <1>3, NothingDue DEF CommitUpdate
  <2> QED BY <1>1, <1>3, <2>1, RefuseCovers DEF Refuse
<1>4. (Refuse(p) /\ CommitUpdate(p)) \/ (UNCHANGED <<lists, sections>> /\ Commit(p, Recording(p)))
  BY DEF CommitUpdate, CommitDelete, SetRules
<1> QED BY <1>2, <1>3, <1>4

\* A commit of a subscription.
LEMMA CommitListCovers ==
    ASSUME TypeInv, Covered, NEW p \in Procs, CommitList(p)
    PROVE  Covered'
<1> DEFINE urlOps == {"create_filter_list", "add_url", "remove_url", "update_filter_list",
                      "set_url", "delete_filter_list"}
<1>1. mishaps' = mishaps /\ proc[p].pc = "look" /\ proc[p].op.do \in urlOps
  BY DEF CommitList, Unchanged
<1>2. Due(proc[p]) = {}
  BY <1>1, NothingDue
<1>3. CASE Refuse(p)
  BY <1>1, <1>2, <1>3, RefuseCovers DEF Refuse
<1>4. CASE UNCHANGED <<rules, sections>> /\ Commit(p, Recording(p))
  <2>1. Due(Recording(p)) = {"filters"}
    BY <1>1, RecordingOf DEF Due, ScheduledBy
  <2> QED BY <1>1, <1>2, <1>4, <2>1, OnlyListsChange, CommitDue
<1>5. Refuse(p) \/ (UNCHANGED <<rules, sections>> /\ Commit(p, Recording(p)))
  BY DEF CommitList
<1> QED BY <1>3, <1>4, <1>5

\* What a section is written with is what the handler goes by.
LEMMA NetManaged ==
    ASSUME NEW c, NEW row \in SectionRows
    PROVE  Over(Net(c, row), row).managed = Over(c, row).managed
<1>1. "managed" \in DOMAIN row
  BY DEF SectionRows
<1>2. DOMAIN Net(c, row) = {f \in DOMAIN c : c[f] # row[f] \/ (f = "exp" /\ c[f] = "pending")}
      /\ \A f \in DOMAIN Net(c, row) : Net(c, row)[f] = c[f]
  BY DEF Net, Restrict
<1>3. Over(c, row).managed = IF "managed" \in DOMAIN c THEN c["managed"] ELSE row["managed"]
  BY <1>1 DEF Over
<1> DEFINE net == Net(c, row)
<1> HIDE DEF net
<1>4. Over(net, row).managed = IF "managed" \in DOMAIN net THEN net["managed"] ELSE row["managed"]
  BY <1>1 DEF Over
<1>5. IF "managed" \in DOMAIN net THEN net["managed"] = c["managed"] /\ "managed" \in DOMAIN c
      ELSE "managed" \in DOMAIN c => c["managed"] = row["managed"]
  BY <1>2 DEF net
<1> QED BY <1>3, <1>4, <1>5 DEF net

\* A section that is switched off takes nothing along.
LEMMA SwitchedOff ==
    ASSUME NEW name, NEW new, sections' = [sections EXCEPT ![name] = new], new.managed = FALSE
    PROVE  Carried("settings", rules, lists, sections)'
              \subseteq Carried("settings", rules, lists, sections)
<1>1. DOMAIN sections' = DOMAIN sections
      /\ \A n \in DOMAIN sections : sections'[n] = IF n = name THEN new ELSE sections[n]
  OBVIOUS
<1>2. \A n \in DOMAIN sections' : sections'[n].managed => n # name /\ sections'[n] = sections[n]
  BY <1>1
<1>3. {<<n, sections'[n].doc>> : n \in {m \in DOMAIN sections' :
                                   sections'[m].managed /\ sections'[m].doc # {}}}
         \subseteq {<<n, sections[n].doc>> : n \in {m \in DOMAIN sections :
                                   sections[m].managed /\ sections[m].doc # {}}}
  BY <1>1, <1>2
<1> QED BY <1>3 DEF Carried

\* A section.  The push is left out by the row as the handler has it.
LEMMA CommitSectionCovers ==
    ASSUME TypeInv, Covered, SectionsFresh, NEW h \in Procs, CommitSection(h)
    PROVE  Covered'
<1> DEFINE op == proc[h].op
           row == proc[h].sec
           change == IF op.do = "update_section" THEN op.change
                     ELSE [doc |-> IF op.on THEN row.doc \union {op.key} ELSE row.doc \ {op.key}]
           f == [Recording(h) EXCEPT !.sec = Over(change, row)]
           new == Over(Net(change, row), sections[op.name])
<1>1. /\ proc[h].pc = "commit" /\ op.do \in {"update_section", "write_section"}
      /\ sections' = [sections EXCEPT ![op.name] = new]
      /\ UNCHANGED <<rules, lists>> /\ Commit(h, f) /\ mishaps' = mishaps
  BY DEF CommitSection, Unchanged
<1>2. proc[h] \in Workers /\ row \in SectionRows
  BY WorkerOf DEF Workers
<1> HIDE DEF change
<1>3. f.op = op /\ f.sec = Over(change, row) /\ f.pc = "snap"
  BY <1>2 DEF Recording, Workers
<1>4. Due(proc[h]) = {}
  BY <1>1, NothingDue
<1>5. ASSUME NEW k \in Changed PROVE k \in Due(f) \/ Excused(k)'
  <2>1. k = "settings"
    BY <1>1, <1>5, OnlySectionsChange
  <2>2. CASE op.do = "write_section" \/ Over(change, row).managed
    BY <1>1, <1>3, <2>1, <2>2 DEF Due, Owing, ScheduledBy
  <2>3. CASE mishaps # {}
    BY <1>1, <2>1, <2>3 DEF Excused
  <2>4. CASE op.do = "update_section" /\ ~Over(change, row).managed /\ mishaps = {}
    <3>1. sections[op.name] = row
      BY <1>1, <2>4 DEF SectionsFresh, SecFresh
    <3>2. new.managed = Over(change, row).managed
      BY <1>2, <3>1, NetManaged
    <3>3. new.managed \in BOOLEAN
      <4>1. op.change \in SectionChanges
        BY <2>4, WorkerOf, OpShapes
      <4>2. change = op.change
        BY <2>4 DEF change
      <4>3. Over(change, row).managed \in BOOLEAN
        BY <1>2, <4>1, <4>2 DEF Over, SectionChanges, SectionRows
      <4> QED BY <3>2, <4>3
    <3>4. new.managed = FALSE
      BY <2>4, <3>2, <3>3
    <3> HIDE DEF new
    <3>5. Changed = {}
      BY <1>1, <3>4, SwitchedOff, OnlySectionsChange
    <3> QED BY <1>5, <3>5
  <2> QED BY <1>1, <2>2, <2>3, <2>4
<1> HIDE DEF f, new
<1> QED BY <1>1, <1>4, <1>5, CommitDue

\* A configuration that is replaced, with or without a push.
LEMMA ReplaceCovers ==
    ASSUME TypeInv, Covered, NEW p \in Procs,
           proc[p].op.do \in {"restore", "restore_version", "import_instance"},
           NEW f, f.op = proc[p].op, Owing(f), Commit(p, f), mishaps \subseteq mishaps'
    PROVE  Covered'
<1>1. proc[p].op.push \in BOOLEAN /\ "push" \in DOMAIN proc[p].op
  BY WorkerOf, OpShapes
<1>2. CASE proc[p].op.push
  <2>1. Due(f) = Kinds
    BY <1>2 DEF Due, ScheduledBy, Kinds
  <2>2. Due(proc[p]) \subseteq Kinds
    BY <1>2 DEF Due, ScheduledBy, Kinds
  <2>3. "rules" \in Kinds
    BY DEF Kinds
  <2> QED BY <2>1, <2>2, <2>3, ChangedKinds, CommitDue
<1>3. CASE ~proc[p].op.push
  BY <1>1, <1>3, CommitDue
<1> QED BY <1>1, <1>2, <1>3

LEMMA CommitRestoreCovers ==
    ASSUME TypeInv, Covered, NEW h \in Procs, CommitRestore(h)
    PROVE  Covered'
<1>1. proc[h].op.do \in {"restore", "restore_version"} /\ mishaps' = mishaps
  BY DEF CommitRestore, Unchanged, Replaces
<1>2. PICK stop : Commit(h, Recording(h)) \/ Commit(h, Interrupted(proc[h], stop))
  BY DEF CommitRestore
<1>3. proc[h] \in Workers
  BY WorkerOf
<1>4. Interrupted(proc[h], stop).op = proc[h].op /\ Owing(Interrupted(proc[h], stop))
  BY <1>3 DEF Interrupted, Workers, Owing, Begun
<1> QED BY <1>1, <1>2, <1>4, RecordingOf, ReplaceCovers

LEMMA CommitImportCovers ==
    ASSUME TypeInv, Covered, NEW h \in Procs, CommitImport(h)
    PROVE  Covered'
<1>1. proc[h].op.do = "import_instance" /\ mishaps' = mishaps
  BY DEF CommitImport, Unchanged
<1>2. PICK i : \/ Commit(h, Recording(h)) \/ Commit(h, [proc[h] EXCEPT !.swapped = TRUE])
               \/ Commit(h, [proc[h] EXCEPT !.swapped = TRUE, !.done = i])
  BY DEF CommitImport
<1>3. proc[h] \in Workers
  BY WorkerOf
<1>4. /\ [proc[h] EXCEPT !.swapped = TRUE].op = proc[h].op
      /\ Owing([proc[h] EXCEPT !.swapped = TRUE])
      /\ [proc[h] EXCEPT !.swapped = TRUE, !.done = i].op = proc[h].op
      /\ Owing([proc[h] EXCEPT !.swapped = TRUE, !.done = i])
  BY <1>3 DEF Workers, Owing, Begun
<1> QED BY <1>1, <1>2, <1>4, RecordingOf, ReplaceCovers

\* Looking up owes nothing; a paste that is through goes on to record.
LEMMA LookCovers ==
    ASSUME TypeInv, Covered, NEW h \in Procs,
           LookForText(h) \/ LookForRow(h) \/ LookForSection(h) \/ LookForState(h)
           \/ Export(h) \/ ViewSections(h)
    PROVE  Covered'
<1>1. proc[h].pc = "look" /\ proc[h] \in Workers /\ Phase(proc[h])
  BY WorkerOf DEF LookForText, LookForRow, LookForSection, LookForState, Export, ViewSections
<1>2. mishaps \subseteq mishaps' /\ UNCHANGED rules
  BY DEF LookForText, LookForRow, LookForSection, LookForState, Export, ViewSections, Unchanged,
     Refuse
<1>3. CASE LookForText(h)
  <2>1. CASE Finish(h)
    BY <1>2, <2>1, FinishCovers
  <2>2. CASE Refuse(h) /\ proc[h].op.do = "bulk_import" /\ proc[h].done > 0
    <3>1. proc'[h].pc = "idle" /\ proc' = [proc EXCEPT ![h] = Idle] /\ UNCHANGED <<rules, owed>>
      BY <2>2 DEF Refuse, Idle, TypeInv, ProcsTyped, ProcFcn
    <3>2. "half" \in mishaps'
      BY <1>3, <2>2, <3>1 DEF LookForText
    <3>3. Due(proc[h]) \subseteq {"rules"}
      BY <2>2 DEF Due, ScheduledBy
    <3> QED BY <1>2, <3>1, <3>2, <3>3, RefuseCovers
  <2>3. CASE proc' = [proc EXCEPT ![h] = Recording(h)] /\ UNCHANGED owed
    <3>1. Due(proc[h]) \subseteq Due(Recording(h))
      BY RecordingOf, DueStays
    <3> QED BY <1>2, <2>3, <3>1, OnwardCovers
  <2>4. ASSUME NEW found, proc' = [proc EXCEPT ![h].pc = "commit", ![h].rows = found],
               UNCHANGED owed
        PROVE  Covered'
    <3> DEFINE f == [proc[h] EXCEPT !.pc = "commit", !.rows = found]
    <3>1. f.op = proc[h].op /\ f.sec = proc[h].sec /\ (Owing(proc[h]) => Owing(f))
      BY <1>1 DEF Workers, Owing, Begun
    <3>2. proc' = [proc EXCEPT ![h] = f]
      BY <2>4
    <3> HIDE DEF f
    <3>3. Due(proc[h]) \subseteq Due(f)
      BY <3>1, DueStays
    <3> QED BY <1>2, <2>4, <3>2, <3>3, OnwardCovers
  <2>5. proc[h].done \in Nat
    BY <1>1 DEF Workers
  <2>6. PICK found : \/ Finish(h) \/ (proc' = [proc EXCEPT ![h] = Recording(h)] /\ UNCHANGED owed)
                     \/ Refuse(h) /\ proc[h].op.do = "bulk_import" /\ proc[h].done > 0
                     \/ /\ proc' = [proc EXCEPT ![h].pc = "commit", ![h].rows = found]
                        /\ UNCHANGED owed
    BY <1>3, <2>5 DEF LookForText
  <2> QED BY <2>1, <2>2, <2>3, <2>4, <2>6
<1>4. CASE ~LookForText(h)
  <2>1. proc[h].op.do # "bulk_import" /\ UNCHANGED owed
    BY <1>4 DEF LookForRow, LookForSection, LookForState, Export, ViewSections, Refuse
  <2>2. Due(proc[h]) = {}
    BY <1>1, <2>1, NothingDue
  <2>3. CASE UNCHANGED proc
    BY <1>2, <2>1, <2>3 DEF Covered, Excused, OverdueRule, Due, Owing, Begun, ScheduledBy
  <2>4. ASSUME NEW f, proc' = [proc EXCEPT ![h] = f] PROVE Covered'
    BY <1>2, <2>1, <2>2, <2>4, OnwardCovers
  <2>5. UNCHANGED proc \/ \E f : proc' = [proc EXCEPT ![h] = f]
    BY <1>4 DEF LookForRow, LookForSection, LookForState, Export, ViewSections, Refuse
  <2> QED BY <2>3, <2>4, <2>5
<1> QED BY <1>3, <1>4

\* Recording a version goes on until the push is scheduled.
LEMMA RecordCovers ==
    ASSUME TypeInv, Covered, NEW p \in Procs,
           SnapRules(p) \/ SnapRest(p) \/ Store(p) \/ CountVersions(p) \/ CutVersions(p)
    PROVE  Covered'
<1>1. proc[p] \in Workers /\ mishaps \subseteq mishaps' /\ UNCHANGED rules
  BY WorkerOf DEF SnapRules, SnapRest, Store, CountVersions, CutVersions, Unchanged
<1>2. CASE Finish(p)
  BY <1>1, <1>2, FinishCovers
<1>3. ASSUME NEW f, proc' = [proc EXCEPT ![p] = f], UNCHANGED owed,
             f.op = proc[p].op, f.sec = proc[p].sec, Owing(f)
      PROVE  Covered'
  <2>1. Due(proc[p]) \subseteq Due(f)
    BY <1>3, DueStays
  <2> QED BY <1>1, <1>3, <2>1, OnwardCovers
<1>4. CASE SnapRules(p)
  <2> DEFINE f == [proc[p] EXCEPT !.pc = "snap2", !.snap = [Idle.snap EXCEPT !.rules = RuleEntries]]
  <2>1. proc' = [proc EXCEPT ![p] = f] /\ UNCHANGED owed
    BY <1>4 DEF SnapRules
  <2>2. f.op = proc[p].op /\ f.sec = proc[p].sec /\ Owing(f)
    BY <1>1 DEF Workers, Owing
  <2> HIDE DEF f
  <2> QED BY <1>3, <2>1, <2>2
<1>5. CASE SnapRest(p)
  <2> DEFINE f == [proc[p] EXCEPT !.pc = "store",
                                  !.snap = [rules |-> @.rules, lists |-> lists, sections |-> sections]]
  <2>1. proc' = [proc EXCEPT ![p] = f] /\ UNCHANGED owed
    BY <1>5 DEF SnapRest
  <2>2. f.op = proc[p].op /\ f.sec = proc[p].sec /\ Owing(f)
    BY <1>1 DEF Workers, Owing
  <2> HIDE DEF f
  <2> QED BY <1>3, <2>1, <2>2
<1>6. CASE Store(p)
  <2> DEFINE f == [proc[p] EXCEPT !.pc = "prune"]
  <2>1. Finish(p) \/ (proc' = [proc EXCEPT ![p] = f] /\ UNCHANGED owed)
    BY <1>6 DEF Store
  <2>2. f.op = proc[p].op /\ f.sec = proc[p].sec /\ Owing(f)
    BY <1>1 DEF Workers, Owing
  <2> HIDE DEF f
  <2> QED BY <1>2, <1>3, <2>1, <2>2
<1>7. CASE CountVersions(p)
  <2> DEFINE f == [proc[p] EXCEPT !.pc = "cut", !.cut = Cutoff]
  <2>1. Finish(p) \/ (proc' = [proc EXCEPT ![p] = f] /\ UNCHANGED owed)
    BY <1>7 DEF CountVersions
  <2>2. f.op = proc[p].op /\ f.sec = proc[p].sec /\ Owing(f)
    BY <1>1 DEF Workers, Owing
  <2> HIDE DEF f
  <2> QED BY <1>2, <1>3, <2>1, <2>2
<1>8. CASE CutVersions(p)
  BY <1>2, <1>8 DEF CutVersions
<1> QED BY <1>4, <1>5, <1>6, <1>7, <1>8

\* Who starts owes nothing.
LEMMA StartCovers ==
    ASSUME TypeInv, Covered, NEW p \in Procs, Starting(p)
    PROVE  Covered'
<1>1. PICK f : proc' = [proc EXCEPT ![p] = f]
  BY DEF Starting, Begin, SweepLook
<1>2. proc[p].pc = "idle" /\ UNCHANGED <<rules, owed>> /\ mishaps \subseteq mishaps'
  BY DEF Starting, Begin, SweepLook
<1>3. Due(proc[p]) = {}
  BY <1>2, NothingDue
<1> QED BY <1>1, <1>2, <1>3, OnwardCovers

\* A rule that falls due is excused until the sweep has looked.
LEMMA FallDueCovers ==
    ASSUME TypeInv, Covered, FallDue
    PROVE  Covered'
<1>1. PICK r \in rules : /\ r.exp = "pending"
                         /\ rules' = (rules \ {r}) \union {[r EXCEPT !.exp = "due"]}
                         /\ owed' = IF r.on THEN owed \union {"rules"} ELSE owed
  BY DEF FallDue
<1>2. r \in RuleRows /\ UNCHANGED <<proc, mishaps>>
  BY DEF FallDue, TypeInv, Tables
<1>3. [r EXCEPT !.exp = "due"].exp = "due" /\ [r EXCEPT !.exp = "due"].on = r.on
  BY <1>2 DEF RuleRows
<1>4. OverdueRule => OverdueRule'
  BY <1>1 DEF OverdueRule
<1>5. r.on => OverdueRule'
  BY <1>1, <1>3 DEF OverdueRule
<1>6. \A k \in owed' : k \in owed \/ (k = "rules" /\ r.on)
  BY <1>1
<1>7. \A k : Excused(k) => Excused(k)'
  BY <1>2, <1>4 DEF Excused
<1>8. \A q : Due(proc[q])' = Due(proc[q])
  BY <1>2 DEF Due, Owing, Begun, ScheduledBy
<1>9. ASSUME NEW k \in owed' PROVE Excused(k)' \/ \E q \in Procs : k \in Due(proc[q])
  BY <1>5, <1>6, <1>7 DEF Covered, Excused
<1> QED BY <1>8, <1>9 DEF Covered

\* Nothing is owed that nobody will schedule.
LEMMA CoveredStep ==
    ASSUME TypeInv, SectionsFresh, Covered, [Next]_vars
    PROVE  Covered'
<1>1. ASSUME NEW h \in Handlers, Begin(h) \/ Work(h) PROVE Covered'
  <2>1. h \in Procs
    BY DEF Procs
  <2>2. CASE Begin(h)
    <3>1. Starting(h)
      BY <2>2 DEF Starting, Begin
    <3> QED BY <2>1, <3>1, StartCovers
  <2>3. CASE Work(h)
    BY <2>1, <2>3, LookCovers, CommitAddCovers, RuleCommitsCover, CommitListCovers,
       CommitSectionCovers, CommitRestoreCovers, CommitImportCovers DEF Work
  <2> QED BY <1>1, <2>2, <2>3
<1>2. ASSUME NEW p \in Procs, RecordAndPush(p) PROVE Covered'
  BY <1>2, RuleCommitsCover, RecordCovers DEF RecordAndPush
<1>3. CASE SweepLook
  <2>1. Sweeper \in Procs /\ Starting(Sweeper)
    BY <1>3 DEF Procs, Starting, SweepLook
  <2> QED BY <2>1, StartCovers
<1>4. CASE FallDue
  BY <1>4, FallDueCovers
<1>5. CASE UNCHANGED vars
  BY <1>5 DEF vars, Covered, Excused, OverdueRule, Due, Owing, Begun, ScheduledBy
<1> QED BY <1>1, <1>2, <1>3, <1>4, <1>5 DEF Next

\* A process goes on with what it was asked, or is through.
LEMMA OpStays ==
    ASSUME TypeInv, NEW p \in Procs, Going(p)
    PROVE  proc'[p] = Idle \/ proc'[p].op = proc[p].op
<1>1. proc[p] \in Workers /\ ProcFcn
  BY WorkerOf DEF TypeInv, ProcsTyped
<1>2. ASSUME NEW f, proc' = [proc EXCEPT ![p] = f], f = Idle \/ f.op = proc[p].op
      PROVE  proc'[p] = Idle \/ proc'[p].op = proc[p].op
  BY <1>1, <1>2 DEF ProcFcn
<1>3. CASE Finish(p) \/ Refuse(p)
  BY <1>2, <1>3 DEF Finish, Refuse
<1>4. ASSUME NEW f, Commit(p, f), f = Idle \/ f.op = proc[p].op
      PROVE  proc'[p] = Idle \/ proc'[p].op = proc[p].op
  BY <1>2, <1>4 DEF Commit
<1>5. Recording(p).op = proc[p].op
  BY RecordingOf
<1>6. CASE LookForText(p) \/ LookForRow(p) \/ LookForSection(p) \/ LookForState(p)
           \/ Export(p) \/ ViewSections(p)
  BY <1>1, <1>3, <1>5, <1>6 DEF LookForText, LookForRow, LookForSection, LookForState, Export,
     ViewSections, ProcFcn, Workers
<1>7. CASE CommitAdd(p)
  <2>1. proc[p].pc = "commit" /\ proc[p].op.do \in {"create_rule", "allow_domain", "bulk_import"}
    BY <1>7 DEF CommitAdd
  <2>2. CASE Commit(p, Added(p))
    BY <1>4, <2>1, <2>2, AddedOf
  <2>3. CASE NotAdded(p)
    <3>1. CASE proc[p].op.do \in {"create_rule", "allow_domain"}
      BY <1>3, <2>3, <3>1 DEF NotAdded
    <3>2. CASE proc[p].op.do = "bulk_import"
      <4>1. proc' = [proc EXCEPT ![p] = PassedOver(p)]
        BY <2>3, <3>2 DEF NotAdded, PassedOver
      <4> QED BY <1>1, <4>1 DEF ProcFcn, Workers, PassedOver
    <3> QED BY <2>1, <3>1, <3>2
  <2>4. Commit(p, Added(p)) \/ NotAdded(p) \/ Refuse(p)
    BY <1>7 DEF CommitAdd
  <2> QED BY <1>3, <2>2, <2>3, <2>4
<1>8. CASE CommitUpdate(p) \/ CommitDelete(p) \/ SetRules(p) \/ CommitList(p)
  <2>1. Refuse(p) \/ Commit(p, Recording(p))
    BY <1>8 DEF CommitUpdate, CommitDelete, SetRules, CommitList
  <2> QED BY <1>3, <1>4, <1>5, <2>1
<1>9. CASE CommitSection(p)
  <2>1. PICK s : Commit(p, [Recording(p) EXCEPT !.sec = s])
    BY <1>9 DEF CommitSection
  <2>2. [Recording(p) EXCEPT !.sec = s].op = proc[p].op
    BY <1>1 DEF Recording, Workers
  <2> QED BY <1>4, <2>1, <2>2
<1>10. CASE CommitRestore(p)
  <2>1. PICK stop : Commit(p, Recording(p)) \/ Commit(p, Interrupted(proc[p], stop))
    BY <1>10 DEF CommitRestore
  <2>2. Interrupted(proc[p], stop).op = proc[p].op
    BY <1>1 DEF Interrupted, Workers
  <2> QED BY <1>4, <1>5, <2>1, <2>2
<1>11. CASE CommitImport(p)
  <2>1. PICK i : \/ Commit(p, Recording(p)) \/ Commit(p, [proc[p] EXCEPT !.swapped = TRUE])
                 \/ Commit(p, [proc[p] EXCEPT !.swapped = TRUE, !.done = i])
    BY <1>11 DEF CommitImport
  <2>2. /\ [proc[p] EXCEPT !.swapped = TRUE].op = proc[p].op
        /\ [proc[p] EXCEPT !.swapped = TRUE, !.done = i].op = proc[p].op
    BY <1>1 DEF Workers
  <2> QED BY <1>4, <1>5, <2>1, <2>2
<1>12. CASE SnapRules(p) \/ SnapRest(p) \/ Store(p) \/ CountVersions(p) \/ CutVersions(p)
  BY <1>1, <1>3, <1>12 DEF SnapRules, SnapRest, Store, CountVersions, CutVersions, ProcFcn, Workers
<1> QED BY <1>6, <1>7, <1>8, <1>9, <1>10, <1>11, <1>12 DEF Going, Work, RecordAndPush

\* One that is to write a section has just looked it up.
LEMMA FreshStep ==
    ASSUME TypeInv, NEW p \in Procs, Going(p), NEW f, f = proc'[p]
    PROVE  SecFresh(f)'
<1>1. proc[p] \in Workers /\ ProcFcn
  BY WorkerOf DEF TypeInv, ProcsTyped
<1> SUFFICES ASSUME proc'[p].pc = "commit",
                    proc'[p].op.do \in {"update_section", "write_section"}
             PROVE  proc'[p].op.name \in DOMAIN sections'
                    /\ sections'[proc'[p].op.name] = proc'[p].sec
  BY DEF SecFresh
<1>2. proc'[p].op = proc[p].op
  BY OpStays DEF Idle
<1>3. proc[p].op.do \in {"update_section", "write_section"}
  BY <1>2
<1>4. ASSUME NEW g, proc' = [proc EXCEPT ![p] = g], g.pc # "commit" PROVE FALSE
  BY <1>1, <1>4 DEF ProcFcn
<1>5. LookForSection(p)
  <2>1. ~Finish(p) /\ ~Refuse(p)
    <3>1. Idle.pc # "commit"
      BY DEF Idle
    <3> QED BY <1>4, <3>1 DEF Finish, Refuse
  <2>2. ASSUME CommitSection(p) PROVE FALSE
    <3>1. PICK s : Commit(p, [Recording(p) EXCEPT !.sec = s])
      BY <2>2 DEF CommitSection
    <3>2. [Recording(p) EXCEPT !.sec = s].pc = "snap"
      BY <1>1 DEF Recording, Workers
    <3> QED BY <1>4, <3>1, <3>2 DEF Commit
  <2>3. ASSUME SnapRules(p) \/ SnapRest(p) \/ Store(p) \/ CountVersions(p) \/ CutVersions(p)
        PROVE  FALSE
    BY <1>1, <2>1, <2>3 DEF SnapRules, SnapRest, Store, CountVersions, CutVersions, ProcFcn, Workers
  <2> QED BY <1>3, <2>2, <2>3 DEF Going, Work, RecordAndPush, LookForText, LookForRow, LookForState,
             Export, ViewSections, CommitAdd, CommitUpdate, CommitDelete, SetRules, CommitList,
             CommitRestore, CommitImport, Replaces
<1> DEFINE name == proc[p].op.name
<1>6. sections' = Over(sections, Only(name, Bare))
      /\ proc' = [proc EXCEPT ![p].pc = "commit", ![p].sec = sections'[name]]
  BY <1>5 DEF LookForSection
<1>7. name \in DOMAIN sections'
  BY <1>6 DEF Over, Only
<1>8. proc'[p].sec = sections'[name]
  BY <1>1, <1>6 DEF ProcFcn, Workers
<1> QED BY <1>2, <1>7, <1>8

\* A process that starts is to look something up, or is the sweep.
LEMMA StartShape ==
    ASSUME TypeInv, NEW p \in Procs, Starting(p), NEW f, f = proc'[p]
    PROVE  f.pc = "look" \/ f.op.do = "sweep"
<1>1. ProcFcn
  BY DEF TypeInv, ProcsTyped
<1>2. CASE Begin(p)
  <2>1. PICK op, left : proc' = [proc EXCEPT ![p] = [Idle EXCEPT !.pc = "look", !.op = op,
                                                               !.left = left]]
    BY <1>2 DEF Begin
  <2> QED BY <1>1, <2>1 DEF Idle, ProcFcn
<1>3. CASE p = Sweeper /\ SweepLook
  <2>1. PICK due : proc' = [proc EXCEPT ![p] = [Idle EXCEPT !.pc = "commit",
                                                          !.op = [do |-> "sweep"], !.rows = due]]
    BY <1>3 DEF SweepLook
  <2> QED BY <1>1, <2>1 DEF Idle, ProcFcn
<1> QED BY <1>2, <1>3 DEF Starting

\* It is not writing a section yet.
LEMMA StartFresh ==
    ASSUME TypeInv, NEW p \in Procs, Starting(p), NEW f, f = proc'[p]
    PROVE  SecFresh(f)'
BY StartShape DEF SecFresh

\* Nor is who is idle.
LEMMA IdleFresh ==
    ASSUME NEW e, e.pc = "idle"
    PROVE  SecFresh(e)
BY DEF SecFresh

\* As long as nobody met anybody, sections are written on the row as it is.
LEMMA SectionsFreshStep ==
    ASSUME TypeInv, HistoryInv, Alone, SectionsFresh, [Next]_vars
    PROVE  SectionsFresh'
<1>1. CASE UNCHANGED <<proc, mishaps>> /\ (FallDue \/ UNCHANGED vars)
  BY <1>1 DEF FallDue, vars, SectionsFresh, SecFresh
<1>2. ASSUME NEW p \in Procs, Starting(p) \/ (Going(p) /\ proc[p].pc # "idle"), OthersStay(p)
      PROVE  SectionsFresh'
  <2> SUFFICES ASSUME "overlap" \notin mishaps', NEW q \in Procs, NEW f, f = proc'[q]
               PROVE  SecFresh(f)'
    BY DEF SectionsFresh, SecFresh
  <2>1. "overlap" \notin mishaps
    BY <1>2, MishapsStay
  <2>2. Solo(p)
    BY <1>2, <2>1, StartsSolo DEF Alone
  <2>3. CASE q = p
    BY <1>2, <2>3, StartFresh, FreshStep
  <2>4. CASE q # p
    <3>1. proc'[q].pc = "idle"
      BY <1>2, <2>2, <2>4 DEF Solo, OthersStay
    <3> QED BY <3>1 DEF SecFresh
  <2> QED BY <2>3, <2>4
<1> QED BY <1>1, <1>2, OneSteps

\* With nobody under way, what is owed is excused.
LEMMA QuietIsScheduled ==
    ASSUME TypeInv, Covered
    PROVE  EverythingScheduled
<1> SUFFICES ASSUME AllIdle, NEW k \in owed
             PROVE  k \in {"rules" : r \in {x \in rules : x.exp = "due" /\ x.on}}
                          \union (IF mishaps # {} THEN {"settings"} ELSE {})
                          \union (IF "half" \in mishaps THEN {"rules"} ELSE {})
  BY DEF EverythingScheduled
<1>1. \A q \in Procs : Due(proc[q]) = {}
  BY NothingDue DEF AllIdle
<1>2. Excused(k)
  BY <1>1 DEF Covered
<1> QED BY <1>2 DEF Excused, OverdueRule

SchedulingInv == Alone /\ SectionsFresh /\ Covered

\* Nothing is owed at the start.
LEMMA SchedulingInit ==
    ASSUME Init
    PROVE  SchedulingInv
<1>1. \A p \in Procs : proc[p].pc = "idle"
  BY DEF Init, Idle
<1>2. owed = {}
  BY DEF Init
<1> QED BY <1>1, <1>2, IdleFresh DEF SchedulingInv, Alone, SectionsFresh, Covered, SecFresh

\* Once every handler has answered, a push has been scheduled that reads what was committed
\* last, whatever the interleaving of handlers and the expiry worker: but for a rule past its
\* deadline, a paste that gave up half way, and a section two requests met at.
THEOREM PushesScheduled == Spec => []EverythingScheduled
<1>1. Init => TypeInv /\ HistoryInv /\ SchedulingInv
  BY TypeInitHolds, SchedulingInit, HistoryInitHolds
<1>2. TypeInv /\ HistoryInv /\ SchedulingInv /\ [Next]_vars => (TypeInv /\ HistoryInv /\ SchedulingInv)'
  BY TypeStep, HistoryStep, AloneStep, SectionsFreshStep, CoveredStep DEF SchedulingInv
<1>3. TypeInv /\ SchedulingInv => EverythingScheduled
  BY QuietIsScheduled DEF SchedulingInv
<1> QED BY <1>1, <1>2, <1>3, PTL DEF Spec

-----------------------------------------------------------------------------
(* A restore leaves what it restored.                                      *)

\* What the rows say, whatever their ids and deadlines.
Contents(rs) == {[text |-> r.text, on |-> r.on] : r \in rs}

\* A configuration that was put back says what it said.
LEMMA RowsContent ==
    ASSUME NEW s \in EntrySeqs
    PROVE  Contents(RowsOf(s)) = ToSet(s)
<1>1. \A i \in DOMAIN s : s[i] \in Entries
  BY DEF EntrySeqs
<1>2. \A i \in DOMAIN s : [text |-> s[i].text, on |-> s[i].on] = s[i]
  BY <1>1 DEF Entries
<1> DEFINE row(i) == [id |-> i, text |-> s[i].text, on |-> s[i].on, exp |-> "never"]
<1>3. RowsOf(s) = {row(i) : i \in DOMAIN s}
  BY DEF RowsOf
<1>4. \A i \in DOMAIN s : [text |-> row(i).text, on |-> row(i).on] = s[i]
  BY <1>2
<1> HIDE DEF row
<1>5. \A c \in Contents(RowsOf(s)) : c \in ToSet(s)
  BY <1>3, <1>4 DEF Contents, ToSet
<1>6. \A c \in ToSet(s) : c \in Contents(RowsOf(s))
  BY <1>3, <1>4 DEF Contents, ToSet
<1> QED BY <1>5, <1>6

SectionTaken(e, n) ==
    /\ n \in DOMAIN sections
    /\ n \in DOMAIN e.snap.sections => sections[n] = e.snap.sections[n]

\* How far a restore has come: the rows first, then the sections in their order.
Restored(e) ==
    Replaces(e.op) =>
        /\ e.pc = "snap" \/ (e.pc = "commit" /\ e.swapped) =>
              lists = e.snap.lists /\ Contents(rules) = ToSet(e.snap.rules)
        /\ e.pc = "commit" => \A i \in 1 .. e.done : SectionTaken(e, SectionNames[i])
        /\ e.pc = "snap" => \A n \in Names : SectionTaken(e, n)

RestoresHold == "overlap" \notin mishaps => \A p \in Procs : Restored(proc[p])

\* Who is not restoring has nothing to show.
LEMMA IdleRestored ==
    ASSUME NEW e, e.pc \notin {"commit", "snap"}
    PROVE  Restored(e)
BY DEF Restored

Met(done, stop) == {SectionNames[i] : i \in done + 1 .. stop - 1}

\* The sections up to the next one without a row.
LEMMA RestoreSections ==
    ASSUME NEW done \in Nat, done <= Len(SectionNames), NEW snap \in SectionTables,
           NEW stop, stop = FirstMissing(done),
           NEW met, met = Met(done, stop),
           NEW taken, taken = Restrict(snap, met \intersect DOMAIN snap),
           NEW bare, bare = IF stop > Len(SectionNames) THEN <<>> ELSE Only(SectionNames[stop], Bare),
           \A i \in 1 .. done : /\ SectionNames[i] \in DOMAIN sections
                                /\ SectionNames[i] \in DOMAIN snap =>
                                      sections[SectionNames[i]] = snap[SectionNames[i]],
           NEW new, new = Over(taken, Over(bare, sections)),
           NEW i \in 1 .. stop - 1
    PROVE  /\ SectionNames[i] \in DOMAIN new
           /\ SectionNames[i] \in DOMAIN snap => new[SectionNames[i]] = snap[SectionNames[i]]
<1> DEFINE n == SectionNames[i]
           len == Len(SectionNames)
<1>1. /\ stop \in done + 1 .. len + 1 /\ len \in Nat
      /\ \A j \in done + 1 .. stop - 1 : SectionNames[j] \in DOMAIN sections
  BY FirstMissingThere, SectionIndexes
<1>2. i \in 1 .. len /\ i # stop
  BY <1>1
<1>3. n \in DOMAIN sections
  BY <1>1
<1>4. n \in met <=> i > done
  <2>1. CASE i > done
    <3>1. i \in done + 1 .. stop - 1
      BY <1>1, <2>1
    <3> QED BY <2>1, <3>1 DEF Met
  <2>2. CASE i <= done
    <3>1. ASSUME NEW j \in done + 1 .. stop - 1, SectionNames[j] = n PROVE FALSE
      <4>1. j \in 1 .. len /\ j # i
        BY <1>1, <2>2
      <4> QED BY <1>2, <3>1, <4>1, SectionIndexes
    <3>2. i > done <=> FALSE
      BY <1>1, <2>2
    <3> QED BY <3>1, <3>2 DEF Met
  <2> QED BY <1>1, <2>1, <2>2
<1>5. n \notin DOMAIN bare
  <2>1. CASE stop > len
    BY <2>1
  <2>2. CASE ~(stop > len)
    <3>1. stop \in 1 .. len
      BY <1>1, <2>2
    <3>2. SectionNames[stop] # n
      BY <1>2, <3>1, SectionIndexes
    <3> QED BY <2>2, <3>2 DEF Only
  <2> QED BY <2>1, <2>2
<1>6. DOMAIN taken = met \intersect DOMAIN snap /\ \A x \in DOMAIN taken : taken[x] = snap[x]
  BY DEF Restrict
<1>7. Over(bare, sections)[n] = sections[n] /\ n \in DOMAIN Over(bare, sections)
  BY <1>3, <1>5 DEF Over
<1>8. /\ n \in DOMAIN new
      /\ new[n] = IF n \in DOMAIN taken THEN snap[n] ELSE sections[n]
  BY <1>6, <1>7 DEF Over
<1>9. i <= done /\ n \in DOMAIN snap => sections[n] = snap[n]
  BY <1>1
<1> HIDE DEF n, len
<1>10. n \in DOMAIN snap => new[n] = snap[n]
  <2>1. CASE i > done
    BY <1>4, <1>6, <1>8, <2>1
  <2>2. CASE i <= done
    BY <1>4, <1>6, <1>8, <1>9, <2>2
  <2> QED BY <1>1, <2>1, <2>2
<1> QED BY <1>8, <1>10 DEF n

\* A commit of a restore takes the sections it met, and the rows the first time.
LEMMA CommitRestoreRestores ==
    ASSUME TypeInv, NEW h \in Procs, CommitRestore(h), Restored(proc[h]), NEW f, f = proc'[h]
    PROVE  Restored(f)'
<1> DEFINE p == proc[h]
           stop == FirstMissing(p.done)
           last == stop > Len(SectionNames)
           met == Met(p.done, stop)
           taken == Restrict(p.snap.sections, met \intersect DOMAIN p.snap.sections)
           bare == IF last THEN <<>> ELSE Only(SectionNames[stop], Bare)
<1>1. /\ p.pc = "commit" /\ Replaces(p.op)
      /\ sections' = Over(taken, Over(bare, sections))
      /\ IF p.swapped THEN UNCHANGED <<rules, lists>>
         ELSE rules' = RowsOf(p.snap.rules) /\ lists' = p.snap.lists
      /\ proc' = [proc EXCEPT ![h] = IF last THEN Recording(h) ELSE Interrupted(p, stop)]
  BY DEF CommitRestore, Commit, Met
<1>2. p \in Workers /\ p.snap \in Snapshots /\ p.done \in Nat /\ p.done <= Len(SectionNames)
  BY <1>1, WorkerOf DEF Workers, Phase, Replaces
<1>3. p.snap.rules \in EntrySeqs /\ p.snap.sections \in SectionTables
  BY <1>2, SnapshotShape DEF EntrySeqs
<1>4. stop \in Nat /\ Len(SectionNames) \in Nat /\ stop \in p.done + 1 .. Len(SectionNames) + 1
  BY <1>2, FirstMissingThere, SectionIndexes
<1>5. f = IF last THEN Recording(h) ELSE Interrupted(p, stop)
  BY <1>1 DEF TypeInv, ProcsTyped, ProcFcn
<1>6. lists' = p.snap.lists /\ Contents(rules') = ToSet(p.snap.rules)
  <2>1. CASE p.swapped
    BY <1>1, <2>1 DEF Restored
  <2>2. CASE ~p.swapped
    BY <1>1, <1>3, <2>2, RowsContent
  <2> QED BY <2>1, <2>2
<1>7. ASSUME NEW i \in 1 .. stop - 1
      PROVE  /\ SectionNames[i] \in DOMAIN sections'
             /\ SectionNames[i] \in DOMAIN p.snap.sections =>
                    sections'[SectionNames[i]] = p.snap.sections[SectionNames[i]]
  <2>1. \A j \in 1 .. p.done : /\ SectionNames[j] \in DOMAIN sections
                               /\ SectionNames[j] \in DOMAIN p.snap.sections =>
                                     sections[SectionNames[j]] = p.snap.sections[SectionNames[j]]
    BY <1>1 DEF Restored, SectionTaken
  <2> QED BY <1>1, <1>2, <1>3, <2>1, RestoreSections
<1> HIDE DEF stop
<1>8. f.snap = p.snap /\ f.op = p.op
  BY <1>2, <1>5 DEF Recording, Interrupted, Workers
<1>9. CASE last
  <2>1. f.pc = "snap"
    BY <1>2, <1>5, <1>9 DEF Recording, Workers
  <2>2. ASSUME NEW n \in Names PROVE SectionTaken(f, n)'
    <3>1. PICK i \in 1 .. Len(SectionNames) : SectionNames[i] = n
      BY SectionIndexes
    <3>2. i \in 1 .. stop - 1
      BY <1>4, <1>9
    <3> QED BY <1>7, <1>8, <3>1, <3>2 DEF SectionTaken
  <2> QED BY <1>6, <1>8, <2>1, <2>2 DEF Restored
<1>10. CASE ~last
  <2>1. f.pc = "commit" /\ f.done = stop - 1
    BY <1>1, <1>2, <1>5, <1>10 DEF Interrupted, Workers
  <2>2. ASSUME NEW i \in 1 .. f.done PROVE SectionTaken(f, SectionNames[i])'
    BY <1>7, <1>8, <2>1 DEF SectionTaken
  <2> QED BY <1>6, <1>8, <2>1, <2>2 DEF Restored
<1> QED BY <1>9, <1>10

\* Whatever a handler does, its restore stays true.
LEMMA GoingRestored ==
    ASSUME TypeInv, NEW p \in Procs, Going(p), Restored(proc[p]), NEW f, f = proc'[p]
    PROVE  Restored(f)'
<1>1. proc[p] \in Workers /\ Phase(proc[p]) /\ ProcFcn
  BY WorkerOf DEF TypeInv, ProcsTyped
<1> SUFFICES ASSUME f.pc \in {"commit", "snap"}, Replaces(f.op)
             PROVE  Restored(f)'
  BY DEF Restored
<1>2. f.op = proc[p].op
  BY OpStays DEF Idle
<1>3. proc[p].op.do \in {"restore", "restore_version"}
  BY <1>2 DEF Replaces
<1>4. CASE CommitRestore(p)
  BY <1>4, CommitRestoreRestores
<1>5. CASE LookForState(p)
  <2>1. proc'[p] # Idle
    BY DEF Idle
  <2>2. proc[p].pc = "look"
    BY <1>5 DEF LookForState
  <2>3. PICK snap : proc' = [proc EXCEPT ![p].pc = "commit", ![p].snap = snap]
    BY <1>1, <1>5, <2>1 DEF LookForState, ProcFcn
  <2>4. f.pc = "commit" /\ f.done = proc[p].done /\ f.swapped = proc[p].swapped
    BY <1>1, <2>3 DEF ProcFcn, Workers
  <2>5. ~proc[p].swapped /\ proc[p].done = 0
    BY <1>1, <1>3, <2>2 DEF Phase, Workers
  <2>6. 1 .. f.done = {}
    BY <2>4, <2>5
  <2> QED BY <2>4, <2>5, <2>6 DEF Restored
<1>6. CASE SnapRules(p) \/ SnapRest(p) \/ Store(p) \/ CountVersions(p) \/ CutVersions(p)
  <2>1. Idle.pc \notin {"commit", "snap"}
    BY DEF Idle
  <2>2. f.pc \notin {"commit", "snap"}
    BY <1>1, <1>6, <2>1 DEF SnapRules, SnapRest, Store, CountVersions, CutVersions, Finish, ProcFcn,
       Workers
  <2> QED BY <2>2
<1> QED BY <1>3, <1>4, <1>5, <1>6 DEF Going, Work, RecordAndPush, LookForText, LookForRow,
           LookForSection, Export, ViewSections, CommitAdd, CommitUpdate, CommitDelete, SetRules,
           CommitList, CommitSection, CommitImport

\* A deadline that passes changes nothing that a snapshot says.
LEMMA FallDueContent ==
    ASSUME TypeInv, FallDue
    PROVE  Contents(rules') = Contents(rules)
<1>1. PICK r \in rules : rules' = (rules \ {r}) \union {[r EXCEPT !.exp = "due"]}
  BY DEF FallDue
<1> DEFINE new == [r EXCEPT !.exp = "due"]
<1>2. new.text = r.text /\ new.on = r.on
  BY DEF TypeInv, Tables, RuleRows
<1>3. rules' = (rules \ {r}) \union {new}
  BY <1>1
<1> HIDE DEF new
<1>4. \A c : (\E q \in rules' : c = [text |-> q.text, on |-> q.on])
             <=> \E q \in rules : c = [text |-> q.text, on |-> q.on]
  BY <1>2, <1>3
<1> QED BY <1>4 DEF Contents

\* As long as nobody met anybody, a restore is as far as it says.
LEMMA RestoresHoldStep ==
    ASSUME TypeInv, HistoryInv, Alone, RestoresHold, [Next]_vars
    PROVE  RestoresHold'
<1>1. CASE UNCHANGED <<proc, mishaps>> /\ (FallDue \/ UNCHANGED vars)
  <2>1. Contents(rules') = Contents(rules) /\ UNCHANGED <<lists, sections>>
    BY <1>1, FallDueContent DEF FallDue, vars
  <2> QED BY <1>1, <2>1 DEF RestoresHold, Restored, SectionTaken
<1>2. ASSUME NEW p \in Procs, Starting(p) \/ (Going(p) /\ proc[p].pc # "idle"), OthersStay(p)
      PROVE  RestoresHold'
  <2> SUFFICES ASSUME "overlap" \notin mishaps', NEW q \in Procs, NEW f, f = proc'[q]
               PROVE  Restored(f)'
    BY DEF RestoresHold, Restored, SectionTaken
  <2>1. "overlap" \notin mishaps
    BY <1>2, MishapsStay
  <2>2. Solo(p)
    BY <1>2, <2>1, StartsSolo DEF Alone
  <2>3. CASE q = p /\ Starting(p)
    <3>1. f.pc = "look" \/ f.op.do = "sweep"
      BY <2>3, StartShape
    <3> QED BY <3>1 DEF Restored, Replaces
  <2>4. CASE q = p /\ Going(p)
    BY <2>1, <2>4, GoingRestored DEF RestoresHold
  <2>5. CASE q # p
    <3>1. f.pc = "idle"
      BY <1>2, <2>2, <2>5 DEF Solo, OthersStay
    <3> QED BY <3>1 DEF Restored
  <2> QED BY <1>2, <2>3, <2>4, <2>5
<1> QED BY <1>1, <1>2, OneSteps

\* It is through when it goes on to record.
LEMMA RestoredIsFaithful ==
    ASSUME TypeInv, RestoresHold
    PROVE  RestoreFaithful
<1> SUFFICES ASSUME NEW h \in Handlers, proc[h].pc = "snap", Replaces(proc[h].op), mishaps = {}
             PROVE  /\ lists = proc[h].snap.lists
                    /\ {[text |-> r.text, on |-> r.on] : r \in rules} = ToSet(proc[h].snap.rules)
                    /\ \A n \in DOMAIN proc[h].snap.sections :
                          sections[n] = proc[h].snap.sections[n]
                    /\ DOMAIN sections = Names
  BY DEF RestoreFaithful
<1>1. h \in Procs
  BY DEF Procs
<1>2. Restored(proc[h])
  BY <1>1 DEF RestoresHold
<1>3. lists = proc[h].snap.lists /\ Contents(rules) = ToSet(proc[h].snap.rules)
  BY <1>2 DEF Restored
<1>4. \A n \in Names : SectionTaken(proc[h], n)
  BY <1>2 DEF Restored
<1>5. proc[h].snap.sections \in SectionTables /\ sections \in SectionTables
  BY <1>1, WorkerOf, SnapshotShape DEF Workers, TypeInv
<1>6. DOMAIN proc[h].snap.sections \subseteq Names /\ DOMAIN sections \subseteq Names
  BY <1>5, SectionTable
<1> QED BY <1>3, <1>4, <1>6 DEF SectionTaken, Contents

\* A handler that has restored a version or a backup file, and was alone, left exactly its
\* rules, subscriptions and sections, whichever sections had no row and however often
\* get_section committed in between.
THEOREM RestoresExact == Spec => []RestoreFaithful
<1> DEFINE I == TypeInv /\ HistoryInv /\ Alone /\ RestoresHold
<1>1. Init => I
  <2>1. Init => \A p \in Procs : proc[p].pc = "idle"
    BY DEF Init, Idle
  <2>2. Init => Alone /\ RestoresHold
    BY <2>1 DEF Alone, RestoresHold, Restored
  <2> QED BY <2>2, TypeInitHolds, HistoryInitHolds
<1>2. I /\ [Next]_vars => I'
  BY TypeStep, HistoryStep, AloneStep, RestoresHoldStep
<1>3. I => RestoreFaithful
  BY RestoredIsFaithful
<1> QED BY <1>1, <1>2, <1>3, PTL DEF Spec

-----------------------------------------------------------------------------
(* What is replaced can be had back.                                       *)

\* It has changed the configuration and stored no version since.
Dirty(e) == e.pc \in {"snap", "snap2", "store"} \/ (e.pc \in {"look", "commit"} /\ Begun(e))

LastState == IF versions = <<>> THEN Idle.snap ELSE versions[Newest]

Recorded == Same(LastState, Snapshot)

\* The half that was read, or both, is how it is.
Snapped(e) ==
    /\ e.pc = "snap2" => e.snap.rules = RuleEntries
    /\ e.pc = "store" => e.snap = Snapshot

UndoInv ==
    mishaps = {} =>
        /\ (\A p \in Procs : ~Dirty(proc[p])) => Recorded
        /\ \A p \in Procs : Snapped(proc[p])

\* Who is idle owes no version.
LEMMA IdleClean ==
    ASSUME NEW e, e.pc = "idle"
    PROVE  ~Dirty(e) /\ Snapped(e)
BY DEF Dirty, Snapped

\* What keeps the rows and the meaning of the sections keeps the last version true.
LEMMA RecordedStays ==
    ASSUME Recorded, UNCHANGED <<rules, lists, versions>>, Filled(sections') = Filled(sections)
    PROVE  Recorded'
BY DEF Recorded, LastState, Newest, Same, Snapshot, RuleEntries, Place

\* The row that get_section inserts says what no row says.
LEMMA BareFills ==
    ASSUME NEW n, sections' = Over(sections, Only(n, Bare)) \/ sections' = sections
    PROVE  Filled(sections') = Filled(sections)
<1>1. CASE sections' = Over(sections, Only(n, Bare))
  <2>1. \A m \in Names : (IF m \in DOMAIN sections' THEN sections'[m] ELSE Bare)
                         = (IF m \in DOMAIN sections THEN sections[m] ELSE Bare)
    BY <1>1 DEF Over, Only
  <2> QED BY <2>1 DEF Filled
<1>2. CASE sections' = sections
  BY <1>2
<1> QED BY <1>1, <1>2

\* What a process that is alone must leave behind.
LEMMA UndoBy ==
    ASSUME NEW p \in Procs, Solo(p), OthersStay(p), mishaps' = {},
           NEW f, f = proc'[p], Snapped(f)', Dirty(f) \/ Recorded'
    PROVE  UndoInv'
<1>1. \A q \in Procs : q # p => proc'[q].pc = "idle"
  BY DEF Solo, OthersStay
<1>2. ASSUME NEW q \in Procs, NEW g, g = proc'[q] PROVE Snapped(g)'
  <2>1. CASE q = p
    BY <1>2, <2>1
  <2>2. CASE q # p
    BY <1>1, <1>2, <2>2 DEF Snapped
  <2> QED BY <2>1, <2>2
<1>3. ASSUME \A q \in Procs : ~Dirty(proc'[q]) PROVE Recorded'
  BY <1>3
<1> QED BY <1>2, <1>3 DEF UndoInv, Snapped, Dirty, Begun

\* While the process that is under way has changed nothing, the last version is true.
LEMMA CleanBefore ==
    ASSUME UndoInv, mishaps = {}, NEW p \in Procs, Solo(p), ~Dirty(proc[p])
    PROVE  Recorded
<1>1. \A q \in Procs : q # p => ~Dirty(proc[q])
  BY IdleClean DEF Solo
<1> QED BY <1>1 DEF UndoInv

\* A look-up.
LEMMA LookUndo ==
    ASSUME TypeInv, UndoInv, mishaps = {}, mishaps' = {}, NEW p \in Procs, Solo(p),
           \/ LookForText(p) \/ LookForRow(p) \/ LookForSection(p) \/ LookForState(p)
           \/ Export(p) \/ ViewSections(p),
           NEW f, f = proc'[p]
    PROVE  Snapped(f)' /\ (Dirty(f) \/ Recorded')
<1>1. proc[p] \in Workers /\ Phase(proc[p]) /\ ProcFcn /\ proc[p].pc = "look"
  BY WorkerOf DEF TypeInv, ProcsTyped, LookForText, LookForRow, LookForSection, LookForState, Export,
     ViewSections
<1>2. UNCHANGED <<rules, lists, versions>>
  BY DEF LookForText, LookForRow, LookForSection, LookForState, Export, ViewSections, Refuse,
     Unchanged, RestUnchanged
<1>3. Filled(sections') = Filled(sections)
  <2>1. \/ \E n : sections' = Over(sections, Only(n, Bare))
        \/ sections' = sections
    BY DEF LookForText, LookForRow, LookForSection, LookForState, Export, ViewSections, Refuse
  <2> QED BY <2>1, BareFills
<1>4. ASSUME ~Dirty(proc[p]) PROVE Recorded'
  BY <1>2, <1>3, <1>4, CleanBefore, RecordedStays
<1>5. Idle.pc = "idle" /\ ~Begun(Idle)
  BY DEF Idle, Begun
<1>6. f = Idle \/ f.pc \in {"look", "commit", "snap"}
  BY <1>1 DEF LookForText, LookForRow, LookForSection, LookForState, Export, ViewSections, Refuse,
     Finish, Recording, ProcFcn, Workers
<1>7. Dirty(proc[p]) => Dirty(f)
  <2> SUFFICES ASSUME Begun(proc[p]) PROVE Dirty(f)
    BY <1>1 DEF Dirty
  <2>1. proc[p].op.do = "bulk_import" /\ proc[p].done > 0
    BY <1>1 DEF Phase, Begun
  <2>2. LookForText(p)
    BY <2>1 DEF LookForRow, LookForSection, LookForState, Export, ViewSections
  <2>3. CASE proc' = [proc EXCEPT ![p] = Recording(p)]
    BY <1>1, <2>3, RecordingOf DEF ProcFcn, Dirty
  <2>4. ASSUME NEW found, proc' = [proc EXCEPT ![p].pc = "commit", ![p].rows = found]
        PROVE  Dirty(f)
    BY <1>1, <2>1, <2>4 DEF ProcFcn, Workers, Dirty, Begun
  <2>5. ~Refuse(p)
    <3>1. ASSUME Refuse(p) PROVE proc'[p].pc = "idle"
      BY <1>1, <3>1 DEF Refuse, Idle, ProcFcn
    <3> QED BY <2>1, <2>2, <3>1 DEF LookForText
  <2> QED BY <2>1, <2>2, <2>3, <2>4, <2>5 DEF LookForText
<1>8. Snapped(f)'
  <2>1. f.pc \notin {"snap2", "store"}
    BY <1>5, <1>6
  <2> QED BY <2>1 DEF Snapped
<1> QED BY <1>4, <1>7, <1>8

\* Who commits owes a version.
LEMMA CommitUndo ==
    ASSUME TypeInv, NEW p \in Procs, NEW next, Commit(p, next), Dirty(next),
           next.pc \notin {"snap2", "store"}, NEW f, f = proc'[p]
    PROVE  Snapped(f)' /\ (Dirty(f) \/ Recorded')
<1>1. f = next
  BY DEF Commit, TypeInv, ProcsTyped, ProcFcn
<1> QED BY <1>1 DEF Snapped

\* So does who is through with it.
LEMMA RecordingUndo ==
    ASSUME TypeInv, NEW p \in Procs, Commit(p, Recording(p)), NEW f, f = proc'[p]
    PROVE  Snapped(f)' /\ (Dirty(f) \/ Recorded')
<1>1. Dirty(Recording(p)) /\ Recording(p).pc \notin {"snap2", "store"}
  BY RecordingOf DEF Dirty
<1> QED BY <1>1, CommitUndo

\* A handler that leaves the configuration alone.
LEMMA PassUndo ==
    ASSUME UndoInv, mishaps = {}, NEW p \in Procs, Solo(p), NEW f,
           UNCHANGED <<rules, lists, sections, versions>>,
           f.pc \notin {"snap2", "store"}, Dirty(proc[p]) => Dirty(f)
    PROVE  Snapped(f)' /\ (Dirty(f) \/ Recorded')
<1>1. ~Dirty(proc[p]) => Recorded'
  BY CleanBefore, RecordedStays
<1> QED BY <1>1 DEF Snapped

\* A handler that answers having changed nothing.
LEMMA EndUndo ==
    ASSUME TypeInv, UndoInv, mishaps = {}, NEW p \in Procs, Solo(p), Finish(p) \/ Refuse(p),
           ~Dirty(proc[p]), UNCHANGED <<rules, lists, sections, versions>>, NEW f, f = proc'[p]
    PROVE  Snapped(f)' /\ (Dirty(f) \/ Recorded')
<1>1. f = Idle
  BY DEF Finish, Refuse, TypeInv, ProcsTyped, ProcFcn
<1>2. f.pc \notin {"snap2", "store"}
  BY <1>1 DEF Idle
<1> QED BY <1>2, PassUndo

\* Whose work is one commit has changed nothing before it.
LEMMA CleanCommit ==
    ASSUME TypeInv, NEW p \in Procs, proc[p].pc \in {"look", "commit"},
           proc[p].op.do \notin {"bulk_import", "restore", "restore_version", "import_instance"}
    PROVE  ~Dirty(proc[p])
<1>1. proc[p] \in Workers /\ Phase(proc[p])
  BY WorkerOf
<1> QED BY <1>1 DEF Phase, Dirty, Begun

\* A paste that gives up half way is a mishap; else nothing was committed.
LEMMA CommitAddUndo ==
    ASSUME TypeInv, UndoInv, mishaps = {}, mishaps' = {}, NEW p \in Procs, Solo(p), CommitAdd(p),
           NEW f, f = proc'[p]
    PROVE  Snapped(f)' /\ (Dirty(f) \/ Recorded')
<1>1. /\ proc[p].pc = "commit" /\ proc[p].op.do \in {"create_rule", "allow_domain", "bulk_import"}
      /\ proc'[p].pc = "idle" => ~(proc[p].done > 0)
      /\ UNCHANGED versions
  BY DEF CommitAdd, RestUnchanged
<1>2. proc[p] \in Workers /\ Phase(proc[p]) /\ ProcFcn
  BY WorkerOf DEF TypeInv, ProcsTyped
<1>3. CASE Refuse(p)
  <2>1. proc'[p].pc = "idle"
    BY <1>2, <1>3 DEF Refuse, Idle, ProcFcn
  <2>2. ~Dirty(proc[p])
    <3>1. CASE proc[p].op.do = "bulk_import"
      BY <1>1, <1>2, <2>1, <3>1 DEF Phase, Dirty, Begun
    <3>2. CASE proc[p].op.do # "bulk_import"
      BY <1>1, <3>2, CleanCommit
    <3> QED BY <3>1, <3>2
  <2> QED BY <1>1, <1>3, <2>2, EndUndo DEF Refuse
<1>4. CASE NotAdded(p)
  <2>1. CASE proc[p].op.do = "create_rule"
    BY <1>3, <1>4, <2>1 DEF NotAdded
  <2>2. CASE proc[p].op.do = "allow_domain"
    <3>1. Finish(p) /\ UNCHANGED <<rules, lists, sections>>
      BY <1>4, <2>2 DEF NotAdded
    <3>2. ~Dirty(proc[p])
      BY <1>1, <2>2, CleanCommit
    <3> QED BY <1>1, <3>1, <3>2, EndUndo
  <2>3. CASE proc[p].op.do = "bulk_import"
    <3>1. proc' = [proc EXCEPT ![p] = PassedOver(p)] /\ UNCHANGED <<rules, lists, sections>>
      BY <1>4, <2>3 DEF NotAdded, PassedOver
    <3>2. f.pc = "look" /\ f.swapped = proc[p].swapped /\ f.done = proc[p].done
      BY <1>2, <3>1 DEF ProcFcn, Workers, PassedOver
    <3>3. Dirty(proc[p]) => Dirty(f)
      BY <1>1, <3>2 DEF Dirty, Begun
    <3> QED BY <1>1, <3>1, <3>2, <3>3, PassUndo
  <2> QED BY <1>1, <2>1, <2>2, <2>3
<1>5. CASE Commit(p, Added(p))
  <2>1. CASE proc[p].op.do = "bulk_import"
    <3>1. Added(p).pc = "look" /\ Added(p).done = proc[p].done + 1 /\ proc[p].done \in Nat
      BY <1>2, <2>1 DEF Added, Workers
    <3>2. Dirty(Added(p)) /\ Added(p).pc \notin {"snap2", "store"}
      BY <3>1 DEF Dirty, Begun
    <3> QED BY <1>5, <3>2, CommitUndo
  <2>2. CASE proc[p].op.do # "bulk_import"
    BY <1>5, <2>2, RecordingUndo DEF Added
  <2> QED BY <2>1, <2>2
<1>6. Refuse(p) \/ NotAdded(p) \/ Commit(p, Added(p))
  BY DEF CommitAdd
<1> QED BY <1>3, <1>4, <1>5, <1>6

\* The other commits.
LEMMA WriteUndo ==
    ASSUME TypeInv, UndoInv, mishaps = {}, NEW p \in Procs, Solo(p),
           CommitUpdate(p) \/ CommitDelete(p) \/ SetRules(p) \/ CommitList(p),
           NEW f, f = proc'[p]
    PROVE  Snapped(f)' /\ (Dirty(f) \/ Recorded')
<1>1. /\ proc[p].pc \in {"look", "commit"} /\ UNCHANGED versions
      /\ proc[p].op.do \notin {"bulk_import", "restore", "restore_version", "import_instance"}
      /\ Refuse(p) \/ Commit(p, Recording(p))
  BY DEF CommitUpdate, CommitDelete, SetRules, CommitList, Unchanged
<1>2. ~Dirty(proc[p])
  BY <1>1, CleanCommit
<1>3. CASE Refuse(p)
  BY <1>1, <1>2, <1>3, EndUndo DEF Refuse
<1>4. CASE Commit(p, Recording(p))
  BY <1>4, RecordingUndo
<1> QED BY <1>1, <1>3, <1>4

LEMMA ReplaceUndo ==
    ASSUME TypeInv, NEW p \in Procs, CommitSection(p) \/ CommitRestore(p) \/ CommitImport(p),
           NEW f, f = proc'[p]
    PROVE  Snapped(f)' /\ (Dirty(f) \/ Recorded')
<1>1. proc[p] \in Workers /\ proc[p].pc = "commit"
  BY WorkerOf DEF CommitSection, CommitRestore, CommitImport
<1>2. CASE CommitSection(p)
  <2>1. PICK s : Commit(p, [Recording(p) EXCEPT !.sec = s])
    BY <1>2 DEF CommitSection
  <2> DEFINE next == [Recording(p) EXCEPT !.sec = s]
  <2>2. next.pc = "snap"
    BY <1>1 DEF Recording, Workers
  <2>3. Commit(p, next)
    BY <2>1
  <2> HIDE DEF next
  <2> QED BY <2>2, <2>3, CommitUndo DEF Dirty
<1>3. CASE CommitRestore(p)
  <2>1. PICK stop : Commit(p, Recording(p)) \/ Commit(p, Interrupted(proc[p], stop))
    BY <1>3 DEF CommitRestore
  <2>2. Interrupted(proc[p], stop).pc = "commit" /\ Interrupted(proc[p], stop).swapped
    BY <1>1 DEF Interrupted, Workers
  <2> QED BY <2>1, <2>2, CommitUndo, RecordingUndo DEF Dirty, Begun
<1>4. CASE CommitImport(p)
  <2>1. PICK i : \/ Commit(p, Recording(p)) \/ Commit(p, [proc[p] EXCEPT !.swapped = TRUE])
                 \/ Commit(p, [proc[p] EXCEPT !.swapped = TRUE, !.done = i])
    BY <1>4 DEF CommitImport
  <2> DEFINE first == [proc[p] EXCEPT !.swapped = TRUE]
             next == [proc[p] EXCEPT !.swapped = TRUE, !.done = i]
  <2>2. /\ first.pc = "commit" /\ first.swapped
        /\ next.pc = "commit" /\ next.swapped
    BY <1>1 DEF Workers
  <2>3. Commit(p, Recording(p)) \/ Commit(p, first) \/ Commit(p, next)
    BY <2>1
  <2> HIDE DEF first, next
  <2> QED BY <2>2, <2>3, CommitUndo, RecordingUndo DEF Dirty, Begun
<1> QED BY <1>2, <1>3, <1>4

\* The largest is the largest.
LEMMA MaxIs ==
    ASSUME NEW D \in SUBSET Nat, NEW m \in D, \A w \in D : w <= m
    PROVE  Max(D) = m
<1>1. Max(D) \in D /\ \A w \in D : w <= Max(D)
  BY MaxOfBounded
<1>2. Max(D) \in Nat /\ m \in Nat /\ Max(D) <= m /\ m <= Max(D)
  BY <1>1
<1> QED BY <1>2

\* The two halves of a snapshot agree when nobody writes in between.
LEMMA SnapUndo ==
    ASSUME TypeInv, UndoInv, mishaps = {}, NEW p \in Procs, SnapRules(p) \/ SnapRest(p),
           NEW f, f = proc'[p]
    PROVE  Snapped(f)' /\ (Dirty(f) \/ Recorded')
<1>1. proc[p] \in Workers /\ ProcFcn /\ Snapped(proc[p])
  BY WorkerOf DEF TypeInv, ProcsTyped, UndoInv
<1>2. CASE SnapRules(p)
  <2> DEFINE snap == [Idle.snap EXCEPT !.rules = RuleEntries]
  <2>1. f.pc = "snap2" /\ f.snap = snap
    BY <1>1, <1>2 DEF SnapRules, ProcFcn, Workers
  <2>2. snap.rules = RuleEntries
    BY DEF Idle
  <2>3. RuleEntries' = RuleEntries
    BY <1>2 DEF SnapRules, RuleEntries, Place
  <2> QED BY <2>1, <2>2, <2>3 DEF Snapped, Dirty
<1>3. CASE SnapRest(p)
  <2>1. f.pc = "store"
        /\ f.snap = [rules |-> proc[p].snap.rules, lists |-> lists, sections |-> sections]
    BY <1>1, <1>3 DEF SnapRest, ProcFcn, Workers
  <2>2. proc[p].snap.rules = RuleEntries
    BY <1>1, <1>3 DEF SnapRest, Snapped
  <2>3. Snapshot' = Snapshot
    BY <1>3 DEF SnapRest, Snapshot, RuleEntries, Place
  <2> QED BY <2>1, <2>2, <2>3 DEF Snapped, Dirty, Snapshot
<1> QED BY <1>2, <1>3

\* The version that is stored, or the one found identical, is the newest and true.
LEMMA StoreUndo ==
    ASSUME TypeInv, HistoryInv, UndoInv, mishaps = {}, NEW p \in Procs, Store(p),
           NEW f, f = proc'[p]
    PROVE  Snapped(f)' /\ (Dirty(f) \/ Recorded')
<1>1. proc[p] \in Workers /\ ProcFcn /\ proc[p].pc = "store" /\ proc[p].snap = Snapshot
  BY WorkerOf DEF TypeInv, ProcsTyped, UndoInv, Snapped, Store
<1>2. Snapshot' = Snapshot
  BY DEF Store, Snapshot, RuleEntries, Place
<1>3. f.pc \notin {"snap2", "store"}
  BY <1>1 DEF Store, Finish, Idle, ProcFcn, Workers
<1>4. LastState' = Snapshot
  <2>1. CASE Identical(p)
    <3>1. versions' = versions /\ versions # <<>> /\ versions[Newest] = Snapshot
      BY <1>1, <2>1 DEF Store, Identical
    <3> QED BY <3>1 DEF LastState, Newest
  <2>2. CASE ~Identical(p)
    <3> DEFINE D == DOMAIN versions
               next == NextVersion
    <3>1. /\ DOMAIN versions' = D \union {next}
          /\ versions'[next] = IF next \in D THEN versions[next] ELSE Snapshot
      BY <1>1, <2>2 DEF Store
    <3>2. next \in Nat \ {0} /\ \A w \in D : w < next
      BY NextIsNewest
    <3>3. D \in SUBSET Nat
      BY DEF HistoryInv, VersionIds
    <3> HIDE DEF D, next
    <3>4. next \notin D /\ D \union {next} \in SUBSET Nat /\ \A w \in D \union {next} : w <= next
      BY <3>2, <3>3
    <3>5. Max(D \union {next}) = next
      BY <3>4, MaxIs
    <3>6. DOMAIN versions' # {}
      BY <3>1
    <3>7. versions' # <<>>
      BY <3>6
    <3> QED BY <3>1, <3>4, <3>5, <3>7 DEF LastState, Newest
  <2> QED BY <2>1, <2>2
<1>5. Recorded'
  BY <1>2, <1>4 DEF Recorded, Same
<1> QED BY <1>3, <1>5 DEF Snapped

\* Pruning spares the newest version.
LEMMA PruneUndo ==
    ASSUME TypeInv, HistoryInv, UndoInv, mishaps = {}, NEW p \in Procs, Solo(p),
           CountVersions(p) \/ CutVersions(p), NEW f, f = proc'[p]
    PROVE  Snapped(f)' /\ (Dirty(f) \/ Recorded')
<1>1. proc[p] \in Workers /\ ProcFcn /\ proc[p].pc \in {"prune", "cut"}
  BY WorkerOf DEF TypeInv, ProcsTyped, CountVersions, CutVersions
<1>2. ~Dirty(proc[p])
  BY <1>1 DEF Dirty
<1>3. f.pc \notin {"snap2", "store"}
  BY <1>1 DEF CountVersions, CutVersions, Finish, Idle, ProcFcn, Workers
<1>4. Recorded
  BY <1>2, CleanBefore
<1>5. CASE CountVersions(p)
  BY <1>2, <1>3, <1>5, PassUndo DEF CountVersions, Unchanged
<1>6. CASE CutVersions(p)
  <2> DEFINE D == DOMAIN versions
             cut == proc[p].cut
             kept == {w \in D : w > cut}
  <2>1. cut \in Nat \ {0} /\ Cardinality(kept) >= MaxVersions
    BY <1>6 DEF HistoryInv, CutsSpare, CutVersions, Newer
  <2>2. DOMAIN versions' = kept /\ \A v \in kept : versions'[v] = versions[v]
    BY <1>6 DEF CutVersions, Restrict
  <2>3. D \in SUBSET Nat /\ kept \in SUBSET Nat
    BY DEF HistoryInv, VersionIds
  <2>4. kept # {}
    <3>1. Cardinality(kept) # 0
      BY <2>1, BoundPositive
    <3> QED BY <3>1, FS_EmptySet
  <2>5. PICK m \in D : \A w \in D : w <= m
    BY <2>4 DEF HistoryInv, VersionIds
  <2>6. m \in kept
    BY <2>1, <2>3, <2>4, <2>5, LargestKept
  <2>7. Max(D) = m
    BY <2>3, <2>5, MaxIs
  <2>8. Max(kept) = m
    BY <2>3, <2>5, <2>6, MaxIs
  <2>9. DOMAIN versions # {} /\ DOMAIN versions' # {}
    BY <2>2, <2>4
  <2>10. versions # <<>> /\ versions' # <<>>
    BY <2>9
  <2> HIDE DEF kept
  <2>11. LastState' = LastState
    BY <2>2, <2>6, <2>7, <2>8, <2>10 DEF LastState, Newest
  <2>12. Snapshot' = Snapshot
    BY <1>6 DEF CutVersions, Snapshot, RuleEntries, Place
  <2>13. Recorded'
    BY <1>4, <2>11, <2>12 DEF Recorded, Same
  <2> QED BY <1>3, <2>13 DEF Snapped
<1> QED BY <1>5, <1>6

\* A snapshot does not hold what else is in a row.
LEMMA EntriesAlike ==
    ASSUME NEW rs \in Tables, NEW g,
           \A q \in rs : /\ g[q] \in RuleRows /\ g[q].id = q.id
                         /\ g[q].text = q.text /\ g[q].on = q.on
    PROVE  EntriesOf({g[q] : q \in rs}) = EntriesOf(rs)
<1> DEFINE new == {g[q] : q \in rs}
           n == Cardinality(rs)
<1>1. /\ IsFiniteSet(rs) /\ \A q \in rs : q \in RuleRows
      /\ \A q, r \in rs : q.id = r.id \/ q.text = r.text => q = r
  BY DEF Tables
<1>2. \A q, r \in rs : g[q].id = g[r].id \/ g[q].text = g[r].text => q = r
  BY <1>1
<1>3. new \in Tables
  BY <1>1, <1>2, NumberedRows
<1>4. \A q, r \in rs : g[q] = g[r] => q = r
  BY <1>2
<1>5. Cardinality(new) = n
  BY <1>1, <1>4, CountedApart
<1>6. ASSUME NEW q \in rs PROVE PlaceIn(new, g[q]) = PlaceIn(rs, q)
  <2>1. Lower(new, g[q]) = {g[x] : x \in Lower(rs, q)}
    BY DEF Lower
  <2>2. Lower(rs, q) \in SUBSET rs
    BY DEF Lower
  <2>3. IsFiniteSet(Lower(rs, q)) /\ \A x, y \in Lower(rs, q) : g[x] = g[y] => x = y
    BY <1>1, <1>4, <2>2, FS_Subset
  <2>4. Cardinality({g[x] : x \in Lower(rs, q)}) = Cardinality(Lower(rs, q))
    BY <2>3, CountedApart
  <2> QED BY <2>1, <2>4 DEF PlaceIn
<1>7. DOMAIN EntriesOf(new) = 1 .. n /\ DOMAIN EntriesOf(rs) = 1 .. n
  BY <1>5 DEF EntriesOf
<1>8. ASSUME NEW i \in 1 .. n PROVE EntriesOf(new)[i] = EntriesOf(rs)[i]
  <2>1. PICK q \in rs : PlaceIn(rs, q) = i /\ EntriesOf(rs)[i] = [text |-> q.text, on |-> q.on]
    <3>1. i \in DOMAIN EntriesOf(rs)
      BY <1>7
    <3> QED BY <3>1, EntryOf, Zenon
  <2>2. g[q] \in new /\ PlaceIn(new, g[q]) = i
    BY <1>6, <2>1
  <2>3. EntriesOf(new)[i] = [text |-> g[q].text, on |-> g[q].on]
    <3> HIDE DEF new
    <3> QED BY <1>3, <2>2, EntryAt
  <2>4. g[q].text = q.text /\ g[q].on = q.on
    BY <2>1
  <2> QED BY <2>1, <2>3, <2>4, Zenon
<1>9. EntriesOf(new) \in Seq(Entries) /\ EntriesOf(rs) \in Seq(Entries)
  <2> HIDE DEF new
  <2> QED BY <1>3, EntriesTyped
<1> DEFINE a == EntriesOf(new)
           b == EntriesOf(rs)
<1>10. a \in Seq(Entries) /\ b \in Seq(Entries) /\ DOMAIN a = DOMAIN b /\ \A i \in DOMAIN b : a[i] = b[i]
  BY <1>7, <1>8, <1>9
<1>11. a = b
  <2> HIDE DEF a, b
  <2> QED BY <1>10
<1> QED BY <1>11

\* A deadline is not in a snapshot.
LEMMA FallDueEntries ==
    ASSUME TypeInv, FallDue
    PROVE  RuleEntries' = RuleEntries
<1>1. PICK r \in rules : rules' = (rules \ {r}) \union {[r EXCEPT !.exp = "due"]}
  BY DEF FallDue
<1> DEFINE due == [r EXCEPT !.exp = "due"]
           g == [q \in rules |-> IF q = r THEN due ELSE q]
<1>2. rules \in Tables /\ \A q \in rules : q \in RuleRows
  BY DEF TypeInv, Tables
<1>3. due \in RuleRows /\ due.id = r.id /\ due.text = r.text /\ due.on = r.on
  BY <1>2 DEF RuleRows
<1> HIDE DEF due
<1>4. rules' = {g[q] : q \in rules}
  BY <1>1 DEF due
<1>5. \A q \in rules : /\ g[q] \in RuleRows /\ g[q].id = q.id
                       /\ g[q].text = q.text /\ g[q].on = q.on
  BY <1>2, <1>3
<1> HIDE DEF g
<1>6. EntriesOf({g[q] : q \in rules}) = EntriesOf(rules)
  BY <1>2, <1>5, EntriesAlike
<1> QED BY <1>4, <1>6, EntriesHere

\* As long as nothing went wrong, a quiet hub has its configuration in its newest version.
LEMMA UndoStep ==
    ASSUME TypeInv, HistoryInv, Alone, UndoInv, [Next]_vars
    PROVE  UndoInv'
<1>1. CASE UNCHANGED <<proc, mishaps>> /\ (FallDue \/ UNCHANGED vars)
  <2>1. UNCHANGED <<lists, sections, versions>>
    BY <1>1 DEF FallDue, vars
  <2>2. RuleEntries' = RuleEntries
    BY <1>1, FallDueEntries DEF vars, RuleEntries, Place
  <2>3. Snapshot' = Snapshot /\ LastState' = LastState
    BY <2>1, <2>2 DEF Snapshot, LastState, Newest
  <2>4. Recorded' = Recorded
    BY <2>3 DEF Recorded, Same
  <2> QED BY <1>1, <2>2, <2>3, <2>4 DEF UndoInv, Snapped, Dirty, Begun
<1>2. ASSUME NEW p \in Procs, Starting(p) \/ (Going(p) /\ proc[p].pc # "idle"), OthersStay(p)
      PROVE  UndoInv'
  <2> SUFFICES ASSUME mishaps' = {} PROVE UndoInv'
    BY DEF UndoInv
  <2>1. mishaps = {}
    BY <1>2, MishapsStay
  <2>2. Solo(p)
    BY <1>2, <2>1, StartsSolo DEF Alone
  <2> SUFFICES ASSUME NEW f, f = proc'[p] PROVE Snapped(f)' /\ (Dirty(f) \/ Recorded')
    BY <1>2, <2>2, UndoBy
  <2>3. CASE Starting(p)
    <3>1. proc[p].pc = "idle" /\ UNCHANGED <<rules, lists, sections, versions>>
      BY <2>3 DEF Starting, Begin, SweepLook
    <3>2. f.pc \in {"look", "commit"}
      <4>1. ProcFcn
        BY DEF TypeInv, ProcsTyped
      <4>2. CASE Begin(p)
        BY <4>1, <4>2 DEF Begin, Idle, ProcFcn
      <4>3. CASE p = Sweeper /\ SweepLook
        BY <4>1, <4>3 DEF SweepLook, Idle, ProcFcn
      <4> QED BY <2>3, <4>2, <4>3 DEF Starting
    <3>3. ~Dirty(proc[p])
      BY <3>1, IdleClean
    <3> QED BY <2>1, <2>2, <3>1, <3>2, <3>3, PassUndo
  <2>4. CASE Going(p)
    BY <2>1, <2>2, <2>4, LookUndo, CommitAddUndo, WriteUndo, ReplaceUndo, SnapUndo, StoreUndo,
       PruneUndo DEF Going, Work, RecordAndPush
  <2> QED BY <1>2, <2>3, <2>4
<1> QED BY <1>1, <1>2, OneSteps

\* It starts so.
LEMMA UndoInit ==
    ASSUME Init
    PROVE  UndoInv
<1>1. PICK start \in Starts :
         /\ rules = RowsOf(start.rules) /\ lists = start.lists /\ sections = start.sections
         /\ versions = IF start = Idle.snap THEN <<>> ELSE <<start>>
  BY DEF Init
<1>2. start \in Snapshots
  BY CentralStateAssumption
<1>3. start.rules \in EntrySeqs
  BY <1>2, SnapshotShape DEF EntrySeqs
<1>4. RuleEntries = start.rules
  BY <1>1, <1>3, EntriesHere, EntriesBack
<1>5. LastState = start
  <2>1. CASE start = Idle.snap
    BY <1>1, <2>1 DEF LastState
  <2>2. CASE start # Idle.snap
    <3>1. versions = <<start>> /\ DOMAIN versions = {1}
      BY <1>1, <2>2
    <3>2. {1} \in SUBSET Nat /\ \A w \in {1} : w <= 1
      OBVIOUS
    <3>3. Max({1}) = 1
      BY <3>2, MaxIs
    <3>4. versions # <<>> /\ versions[1] = start
      BY <3>1
    <3> QED BY <3>1, <3>3, <3>4 DEF LastState, Newest
  <2> QED BY <2>1, <2>2
<1>6. Recorded
  BY <1>1, <1>4, <1>5 DEF Recorded, Same, Snapshot
<1>7. \A p \in Procs : proc[p].pc = "idle"
  BY DEF Init, Idle
<1> QED BY <1>6, <1>7, IdleClean DEF UndoInv

\* Whatever a restore replaces can be had back: with every request and sweep through, and
\* none that met another or gave up half way, the newest version is the configuration, also
\* after the history was pruned or a restored configuration was found recorded already.
THEOREM NothingLostByRestore == Spec => []Undoable
<1> DEFINE I == TypeInv /\ HistoryInv /\ Alone /\ UndoInv
<1>1. Init => I
  <2>1. Init => Alone
    BY DEF Init, Idle, Alone
  <2> QED BY <2>1, TypeInitHolds, HistoryInitHolds, UndoInit
<1>2. I /\ [Next]_vars => I'
  BY TypeStep, HistoryStep, AloneStep, UndoStep
<1>3. I => Undoable
  <2> SUFFICES ASSUME I, AllIdle, mishaps = {} PROVE Recorded
    BY DEF Undoable, Recorded, LastState
  <2>1. \A p \in Procs : ~Dirty(proc[p])
    BY IdleClean DEF AllIdle
  <2> QED BY <2>1 DEF UndoInv
<1> QED BY <1>1, <1>2, <1>3, PTL DEF Spec
=============================================================================

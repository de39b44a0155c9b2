--------------------------- MODULE CentralState ---------------------------
(***************************************************************************)
(* The configuration the hub replicates - rules, subscriptions, settings   *)
(* sections - and its version history, as the handlers of the API, of the  *)
(* AdGuard-compatible API and the expiry worker change them.               *)
(*                                                                         *)
(* A handler looks rows up, commits its change, takes a snapshot, stores   *)
(* it as a version, prunes the history and schedules a push, with awaits   *)
(* in between.  SQLite reads outside a transaction, so what was looked up, *)
(* the two halves of a snapshot and the ids to prune can be old when they  *)
(* are used.  How a scheduled push reaches the nodes is HubSync's subject. *)
(***************************************************************************)
EXTENDS Integers, Sequences, SequencesExt, FiniteSets

CONSTANTS
    Texts,         \* the texts a rule can have
    Urls,          \* the subscriptions: a url together with its kind
    SectionNames,  \* the settings sections in the order of SECTION_NAMES
    Risky,         \* those an import does not switch on
    Keys,          \* the settings a section's document can hold
    Master,        \* what the node that is imported from answers
    Backup,        \* the backup file the operator starts with
    Starts,        \* the configurations the hub can start with
    Asked,         \* bound: the operations that are asked for
    Handlers,      \* request handlers that can be under way at once
    Sweeper,       \* the expiry worker
    MaxEdits,      \* bound: how many requests are made
    MaxVersions    \* versions.MAX_VERSIONS, 200 in the code

Names == ToSet(SectionNames)

Entries == [text : Texts, on : BOOLEAN]

SectionRows == [managed : BOOLEAN, doc : SUBSET Keys]

\* Configurations as a snapshot holds them.  A text comes once: restores and imports pass
\* over one that they have met before.
Snapshots ==
    [rules : {s \in Seq(Entries) : \A i, j \in DOMAIN s : s[i].text = s[j].text => i = j},
     lists : UNION {[urls -> BOOLEAN] : urls \in SUBSET Urls},
     sections : UNION {[names -> SectionRows] : names \in SUBSET Names}]

Procs == Handlers \union {Sweeper}

ASSUME CentralStateAssumption ==
    /\ Sweeper \notin Handlers /\ IsFiniteSet(Handlers)
    /\ SectionNames \in Seq(Names) /\ IsInjective(SectionNames) /\ Risky \subseteq Names
    /\ {Master, Backup} \union Starts \subseteq Snapshots
    /\ \A i \in DOMAIN Master.rules : Master.rules[i].on
    /\ MaxEdits \in Nat
    /\ MaxVersions \in Nat \ {0}

VARIABLES
    rules,     \* the rows of the rules table
    lists,     \* lists[u]: whether subscription u is enabled, for those there are
    sections,  \* sections[n]: the row of section n, for those that have one
    versions,  \* versions[i]: the snapshot of version i, for those kept
    file,      \* the backup file the operator holds
    proc,      \* proc[p]: what process p is doing
    owed,      \* kinds changed by a commit with no push scheduled since
    mishaps,   \* "overlap": two processes were under way at once; "half": one gave up
               \* with part of its work committed
    edits      \* how many requests were made

state == <<rules, lists, sections>>

vars == <<rules, lists, sections, versions, file, proc, owed, mishaps, edits>>

-----------------------------------------------------------------------------
(* Rows and snapshots.                                                      *)

\* What is in new, and what is only in old.
Over(new, old) ==
    [x \in DOMAIN new \union DOMAIN old |-> IF x \in DOMAIN new THEN new[x] ELSE old[x]]

Only(key, value) == [x \in {key} |-> value]

Bare == [managed |-> FALSE, doc |-> {}]

HasText(t) == \E r \in rules : r.text = t

\* SQLite hands out the largest id in use plus one, and so a freed last id again.
Row(i, t, exp) == [id |-> i, text |-> t, on |-> TRUE, exp |-> exp]

\* Mutant: the rows are counted.
NextIdByCount == 1 + Cardinality(rules)

NextId == 1 + Max({r.id : r \in rules} \union {0})

Place(row) == Cardinality({r \in rules : r.id <= row.id})

\* build_snapshot: rows in the order of their ids, and no expiry.
RuleEntries ==
    [i \in 1 .. Cardinality(rules) |->
        LET row == CHOOSE r \in rules : Place(r) = i IN [text |-> row.text, on |-> row.on]]

Snapshot == [rules |-> RuleEntries, lists |-> lists, sections |-> sections]

\* restore_snapshot: the tables are emptied first, so the ids start again.
RowsOf(entries) ==
    {[id |-> i, text |-> entries[i].text, on |-> entries[i].on, exp |-> "never"] :
        i \in DOMAIN entries}

\* What a push carries: desired_rules leaves out what is due, managed_sections what is
\* switched off or empty.
Carried(k, rs, ls, ss) ==
    CASE k = "rules"    -> {r.text : r \in {x \in rs : x.on /\ x.exp # "due"}}
      [] k = "filters"  -> ls
      [] k = "settings" -> {<<n, ss[n].doc>> : n \in {m \in DOMAIN ss :
                                                      ss[m].managed /\ ss[m].doc # {}}}

\* A section that is no longer carried is left as it is on the nodes.
Changed ==
    {k \in {"rules", "filters"} :
        Carried(k, rules, lists, sections)' # Carried(k, rules, lists, sections)}
    \union
    {k \in {"settings"} :
        ~(Carried(k, rules, lists, sections)' \subseteq Carried(k, rules, lists, sections))}

-----------------------------------------------------------------------------
(* Requests.  A row is named by the id the page showed.                     *)

RuleRequests ==
    [do : {"create_rule", "allow_domain"}, text : Texts, minutes : BOOLEAN]
    \union [do : {"bulk_import", "set_rules"}, texts : {s \in SeqOf(Texts, 2) : IsInjective(s)}]
    \union [do : {"delete_rule"}, id : {r.id : r \in rules}]
    \union [do : {"update_rule"}, id : {r.id : r \in rules},
             change : [on : BOOLEAN] \union [exp : {"never", "pending"}] \union [text : Texts]]

ListRequests ==
    [do : {"create_filter_list", "add_url", "remove_url"}, url : Urls]
    \union [do : {"update_filter_list", "set_url"}, url : Urls, on : BOOLEAN]
    \union [do : {"delete_filter_list"}, url : Urls]

SectionRequests ==
    [do : {"list_sections"}]
    \union [do : {"update_section"}, name : Names,
             change : [managed : BOOLEAN] \union [doc : SUBSET Keys]]
    \union [do : {"write_section"}, name : Names, key : Keys, on : BOOLEAN]

StateRequests ==
    [do : {"export"}]
    \union [do : {"restore_version"}, version : DOMAIN versions, push : BOOLEAN]
    \union [do : {"restore"}, push : BOOLEAN]
    \union [do : {"import_instance"}, replace : BOOLEAN, push : BOOLEAN]

Requests ==
    {op \in RuleRequests \union ListRequests \union SectionRequests \union StateRequests :
        op.do \in Asked}

Idle == [pc |-> "idle", op |-> [do |-> "none"], rows |-> {}, sec |-> Bare, left |-> <<>>,
         snap |-> [rules |-> <<>>, lists |-> <<>>, sections |-> <<>>],
         swapped |-> FALSE, expired |-> FALSE, done |-> 0, cut |-> 0]

Meeting(p) == IF \E q \in Procs \ {p} : proc[q].pc # "idle" THEN {"overlap"} ELSE {}

\* Mutants: settings are never scheduled; the sweep leaves the push to the next edit.
ScheduledTables(p) == {"rules", "filters"}

ScheduledByRequest(p) == IF p = Sweeper THEN {} ELSE {"rules", "filters", "settings"}

\* schedule_sync's kinds.  update_section leaves the push out for a section switched off.
Scheduled(p) ==
    LET op == proc[p].op IN
    CASE op.do \in {"create_rule", "allow_domain", "bulk_import", "set_rules", "delete_rule",
                    "update_rule", "sweep"} -> {"rules"}
      [] op.do \in {"create_filter_list", "add_url", "remove_url", "update_filter_list",
                    "set_url", "delete_filter_list"} -> {"filters"}
      [] op.do = "write_section" -> {"settings"}
      [] op.do = "update_section" -> IF proc[p].sec.managed THEN {"settings"} ELSE {}
      [] op.do \in {"restore_version", "restore", "import_instance"} ->
            IF op.push THEN {"rules", "filters", "settings"} ELSE {}
      [] OTHER -> {}

\* The handler is through: it schedules its push and answers.
Finish(p) ==
    /\ proc' = [proc EXCEPT ![p] = Idle]
    /\ owed' = owed \ Scheduled(p)

\* It answers without a push: 404, 409, or a row that is gone when it is updated.
Refuse(p) ==
    /\ proc' = [proc EXCEPT ![p] = Idle]
    /\ UNCHANGED <<rules, lists, sections, owed>>

\* A commit.  With push = FALSE the operator asked that the nodes stay as they are.
Commit(p, next) ==
    /\ proc' = [proc EXCEPT ![p] = next]
    /\ owed' = IF "push" \in DOMAIN proc[p].op /\ ~proc[p].op.push THEN {}
               ELSE owed \union Changed

Recording(p) == [proc[p] EXCEPT !.pc = "snap"]

\* The first section after the i-th that has no row, and one past the last if all have one.
FirstMissing(i) ==
    Min({j \in i + 1 .. Len(SectionNames) : SectionNames[j] \notin DOMAIN sections}
        \union {Len(SectionNames) + 1})

Unchanged == UNCHANGED <<versions, file, mishaps, edits>>

RestUnchanged == UNCHANGED <<versions, file, edits>>

-----------------------------------------------------------------------------
(* Looking up.                                                              *)

Begin(h) ==
    /\ proc[h].pc = "idle"
    /\ edits < MaxEdits
    /\ \E op \in Requests :
          proc' = [proc EXCEPT ![h] =
                      [Idle EXCEPT !.pc = "look", !.op = op,
                                   !.left = IF op.do = "bulk_import" THEN op.texts ELSE <<>>]]
    /\ edits' = edits + 1
    /\ mishaps' = mishaps \union Meeting(h)
    /\ UNCHANGED <<rules, lists, sections, versions, file, owed>>

\* _find_by_text for the rule, or the next line of a paste.  At its end a paste that added
\* something is recorded under the user's name, and fails if a rollback expired that row.
LookForText(h) ==
    /\ proc[h].pc = "look"
    /\ proc[h].op.do \in {"create_rule", "allow_domain", "bulk_import"}
    /\ IF proc[h].op.do = "bulk_import" /\ proc[h].left = <<>>
       THEN IF proc[h].done = 0 THEN Finish(h)
            ELSE IF proc[h].expired THEN Refuse(h)
            ELSE proc' = [proc EXCEPT ![h] = Recording(h)] /\ UNCHANGED owed
       ELSE LET t == IF proc[h].left = <<>> THEN proc[h].op.text ELSE Head(proc[h].left) IN
            /\ proc' = [proc EXCEPT ![h].pc = "commit",
                                    ![h].rows = {r \in rules : r.text = t}]
            /\ UNCHANGED owed
    /\ mishaps' = IF proc'[h].pc = "idle" /\ proc[h].done > 0 THEN mishaps \union {"half"}
                  ELSE mishaps
    /\ UNCHANGED <<rules, lists, sections>> /\ RestUnchanged

LookForRow(h) ==
    /\ proc[h].pc = "look"
    /\ proc[h].op.do \in {"update_rule", "delete_rule"}
    /\ LET found == {r \in rules : r.id = proc[h].op.id} IN
       IF found = {} THEN Refuse(h)
       ELSE /\ proc' = [proc EXCEPT ![h].pc = "commit", ![h].rows = found]
            /\ UNCHANGED <<rules, lists, sections, owed>>
    /\ Unchanged

\* get_section inserts and commits the row a section does not have yet.
LookForSection(h) ==
    /\ proc[h].pc = "look"
    /\ proc[h].op.do \in {"update_section", "write_section"}
    /\ sections' = Over(sections, Only(proc[h].op.name, Bare))
    /\ proc' = [proc EXCEPT ![h].pc = "commit", ![h].sec = sections'[proc[h].op.name]]
    /\ UNCHANGED <<rules, lists, owed>> /\ Unchanged

\* The configuration that is to replace the hub's: a version, the file, or a node's.
LookForState(h) ==
    /\ proc[h].pc = "look"
    /\ LET op == proc[h].op
           next(snap) == proc' = [proc EXCEPT ![h].pc = "commit", ![h].snap = snap]
       IN
       \/ /\ op.do = "restore_version"
          /\ IF op.version \in DOMAIN versions THEN next(versions[op.version])
             ELSE proc' = [proc EXCEPT ![h] = Idle]
       \/ op.do = "restore" /\ next(file)
       \/ op.do = "import_instance" /\ next(Master)
    /\ UNCHANGED <<rules, lists, sections, owed>> /\ Unchanged

Export(h) ==
    /\ proc[h].pc = "look" /\ proc[h].op.do = "export"
    /\ file' = Snapshot
    /\ proc' = [proc EXCEPT ![h] = Idle]
    /\ UNCHANGED <<rules, lists, sections, versions, owed, mishaps, edits>>

SweepLook ==
    /\ proc[Sweeper].pc = "idle"
    /\ LET due == {r \in rules : r.exp = "due"} IN
       /\ due # {}
       /\ proc' = [proc EXCEPT ![Sweeper] = [Idle EXCEPT !.pc = "commit", !.op = [do |-> "sweep"],
                                                        !.rows = due]]
    /\ mishaps' = mishaps \union Meeting(Sweeper)
    /\ UNCHANGED <<rules, lists, sections, versions, file, owed, edits>>

-----------------------------------------------------------------------------
(* Committing rules.                                                        *)

\* An UPDATE names the row by its id and writes what differs from the row as loaded.
\* A deadline that is put off differs from the one that is pending.
Net(change, row) ==
    Restrict(change, {f \in DOMAIN change :
                         change[f] # row[f] \/ (f = "exp" /\ change[f] = "pending")})

Updated(change, row) ==
    {IF r.id = row.id THEN Over(Net(change, row), r) ELSE r : r \in rules}

Gone(row) == ~\E r \in rules : r.id = row.id

Added(h) ==
    IF proc[h].op.do = "bulk_import"
    THEN [proc[h] EXCEPT !.pc = "look", !.left = Tail(@), !.done = @ + 1]
    ELSE Recording(h)

\* The rule is there as asked for: create_rule answers 409, allow_domain still pushes.  A
\* paste that did not find it before met an IntegrityError, and has rolled back.
NotAdded(h) ==
    CASE proc[h].op.do = "create_rule" -> Refuse(h)
      [] proc[h].op.do = "allow_domain" ->
            Finish(h) /\ UNCHANGED <<rules, lists, sections>>
      [] proc[h].op.do = "bulk_import" ->
            /\ proc' = [proc EXCEPT ![h].pc = "look", ![h].left = Tail(@),
                                    ![h].expired = @ \/ proc[h].rows = {}]
            /\ UNCHANGED <<rules, lists, sections, owed>>

\* _add_rule: a rule without minutes leaves the expiry of one that is there alone.
CommitAdd(h) ==
    /\ proc[h].pc = "commit"
    /\ proc[h].op.do \in {"create_rule", "allow_domain", "bulk_import"}
    /\ LET op == proc[h].op
           t == IF op.do = "bulk_import" THEN Head(proc[h].left) ELSE op.text
           minutes == op.do # "bulk_import" /\ op.minutes
           change == IF minutes THEN [on |-> TRUE, exp |-> "pending"] ELSE [on |-> TRUE]
           insert == rules \union {Row(NextId, t, IF minutes THEN "pending" ELSE "never")}
       IN
       \/ /\ proc[h].rows = {}
          /\ IF HasText(t) THEN NotAdded(h)   \* IntegrityError: somebody was faster
             ELSE /\ rules' = insert /\ UNCHANGED <<lists, sections>>
                  /\ Commit(h, Added(h))
       \/ \E row \in proc[h].rows :
             IF ~minutes /\ row.on THEN NotAdded(h)
             ELSE IF Gone(row) THEN Refuse(h)  \* StaleDataError
             ELSE /\ rules' = Updated(change, row) /\ UNCHANGED <<lists, sections>>
                  /\ Commit(h, Added(h))
    /\ mishaps' = IF proc'[h].pc = "idle" /\ proc[h].done > 0 THEN mishaps \union {"half"}
                  ELSE mishaps
    /\ RestUnchanged

CommitUpdate(h) ==
    /\ proc[h].pc = "commit" /\ proc[h].op.do = "update_rule"
    /\ \E row \in proc[h].rows :
          LET change == proc[h].op.change
              taken == "text" \in DOMAIN change
                           /\ \E r \in rules : r.id # row.id /\ r.text = change.text
              stale == Gone(row) /\ Net(change, row) # <<>>
          IN  IF taken \/ stale THEN Refuse(h)
              ELSE /\ rules' = Updated(change, row) /\ UNCHANGED <<lists, sections>>
                   /\ Commit(h, Recording(h))
    /\ Unchanged

\* delete_rule and the sweep: a DELETE that matches no row is a warning.
CommitDelete(p) ==
    /\ proc[p].pc = "commit" /\ proc[p].op.do \in {"delete_rule", "sweep"}
    /\ rules' = {r \in rules : \A row \in proc[p].rows : r.id # row.id}
    /\ UNCHANGED <<lists, sections>>
    /\ Commit(p, Recording(p))
    /\ Unchanged

SetRules(h) ==
    /\ proc[h].pc = "look" /\ proc[h].op.do = "set_rules"
    /\ rules' = {Row(i, proc[h].op.texts[i], "never") : i \in DOMAIN proc[h].op.texts}
    /\ UNCHANGED <<lists, sections>>
    /\ Commit(h, Recording(h))
    /\ Unchanged

-----------------------------------------------------------------------------
(* Committing subscriptions and sections.                                   *)

CommitList(h) ==
    /\ proc[h].pc = "look"
    /\ LET op == proc[h].op
           there == op.url \in DOMAIN lists
           write(new) == lists' = new /\ UNCHANGED <<rules, sections>> /\ Commit(h, Recording(h))
       IN
       \/ /\ op.do = "create_filter_list"
          /\ IF there THEN Refuse(h) ELSE write(Over(lists, Only(op.url, TRUE)))
       \/ op.do = "add_url" /\ write(Over(lists, Only(op.url, TRUE)))
       \/ /\ op.do \in {"update_filter_list", "set_url"}
          /\ IF there THEN write(Over(Only(op.url, op.on), lists)) ELSE Refuse(h)
       \/ /\ op.do \in {"delete_filter_list", "remove_url"}
          /\ IF there THEN write(Restrict(lists, DOMAIN lists \ {op.url})) ELSE Refuse(h)
    /\ Unchanged

\* set_section on the row as loaded.  The AdGuard API merges its change into the
\* document it read before.
CommitSection(h) ==
    /\ proc[h].pc = "commit" /\ proc[h].op.do \in {"update_section", "write_section"}
    /\ LET op == proc[h].op
           row == proc[h].sec
           change == IF op.do = "update_section" THEN op.change
                     ELSE [doc |-> IF op.on THEN row.doc \union {op.key} ELSE row.doc \ {op.key}]
       IN
       /\ sections' = [sections EXCEPT ![op.name] = Over(Net(change, row), @)]
       /\ UNCHANGED <<rules, lists>>
       /\ Commit(h, [Recording(h) EXCEPT !.sec = Over(change, row)])
    /\ Unchanged

ViewSections(h) ==
    /\ proc[h].pc = "look" /\ proc[h].op.do = "list_sections"
    /\ IF Names \subseteq DOMAIN sections THEN Refuse(h)
       ELSE /\ sections' = Over(sections, Only(SectionNames[FirstMissing(0)], Bare))
            /\ UNCHANGED <<rules, lists, proc, owed>>
    /\ Unchanged

-----------------------------------------------------------------------------
(* Replacing the configuration.                                             *)

Replaces(op) == op.do \in {"restore", "restore_version"}

\* Mutant: the section whose row was just inserted is taken to be done.
InterruptedPast(p, stop) == [p EXCEPT !.swapped = TRUE, !.done = stop]

\* A restore whose rows were committed when the stop-th section got its row.
Interrupted(p, stop) == [p EXCEPT !.swapped = TRUE, !.done = stop - 1]

\* restore_snapshot.  The rows of rules and lists are replaced in the transaction that is
\* open when get_section meets a section without a row, inserts it and commits.
CommitRestore(h) ==
    /\ proc[h].pc = "commit" /\ Replaces(proc[h].op)
    /\ LET p == proc[h]
           stop == FirstMissing(p.done)
           last == stop > Len(SectionNames)
           met == {SectionNames[i] : i \in p.done + 1 .. stop - 1}
           taken == Restrict(p.snap.sections, met \intersect DOMAIN p.snap.sections)
           bare == IF last THEN <<>> ELSE Only(SectionNames[stop], Bare)
       IN
       /\ sections' = Over(taken, Over(bare, sections))
       /\ IF p.swapped THEN UNCHANGED <<rules, lists>>
          ELSE rules' = RowsOf(p.snap.rules) /\ lists' = p.snap.lists
       /\ Commit(h, IF last THEN Recording(h)
                    ELSE Interrupted(p, stop))
    /\ Unchanged

\* import_from_instance.  Every section is a commit of its own, two when it has no row yet,
\* and the first of them carries the rules and the subscriptions.
CommitImport(h) ==
    /\ proc[h].pc = "commit" /\ proc[h].op.do = "import_instance"
    /\ LET p == proc[h]
           missing == {i \in DOMAIN p.snap.rules : ~HasText(p.snap.rules[i].text)}
           id(i) == NextId + Cardinality({j \in missing : j < i})
           todo == {i \in p.done + 1 .. Len(SectionNames) :
                        SectionNames[i] \in DOMAIN p.snap.sections}
           name == SectionNames[Min(todo)]
       IN
       /\ IF p.swapped THEN UNCHANGED <<rules, lists>>
          ELSE IF p.op.replace THEN rules' = RowsOf(p.snap.rules) /\ lists' = p.snap.lists
          ELSE /\ rules' = rules \union {Row(id(i), p.snap.rules[i].text, "never") : i \in missing}
               /\ lists' = Over(lists, p.snap.lists)
       /\ IF todo = {}
          THEN UNCHANGED sections /\ Commit(h, Recording(h))
          ELSE IF name \notin DOMAIN sections
          THEN /\ sections' = Over(Only(name, Bare), sections)
               /\ Commit(h, [p EXCEPT !.swapped = TRUE])
          ELSE /\ sections' = Over(Only(name, [managed |-> name \notin Risky,
                                               doc |-> p.snap.sections[name].doc]), sections)
               /\ Commit(h, [p EXCEPT !.swapped = TRUE, !.done = Min(todo)])
    /\ Unchanged

-----------------------------------------------------------------------------
(* Recording a version, and the push at the end.                            *)

SnapRules(p) ==
    /\ proc[p].pc = "snap"
    /\ proc' = [proc EXCEPT ![p].pc = "snap2", ![p].snap = [Idle.snap EXCEPT !.rules = RuleEntries]]
    /\ UNCHANGED <<rules, lists, sections, owed>> /\ Unchanged

SnapRest(p) ==
    /\ proc[p].pc = "snap2"
    /\ proc' = [proc EXCEPT ![p].pc = "store",
                            ![p].snap = [rules |-> @.rules, lists |-> lists,
                                         sections |-> sections]]
    /\ UNCHANGED <<rules, lists, sections, owed>> /\ Unchanged

Newest == Max(DOMAIN versions)

NextVersion == 1 + Max(DOMAIN versions \union {0})

\* Mutant: the settings are left out of the comparison.
IdenticalTables(p) ==
    /\ versions # <<>>
    /\ versions[Newest].rules = proc[p].snap.rules /\ versions[Newest].lists = proc[p].snap.lists

Identical(p) == versions # <<>> /\ versions[Newest] = proc[p].snap

Store(p) ==
    /\ proc[p].pc = "store"
    /\ IF Identical(p)
       THEN Finish(p) /\ UNCHANGED versions
       ELSE /\ versions' = [v \in DOMAIN versions \union {NextVersion} |->
                              IF v \in DOMAIN versions THEN versions[v] ELSE proc[p].snap]
            /\ proc' = [proc EXCEPT ![p].pc = "prune"]
            /\ UNCHANGED owed
    /\ UNCHANGED <<rules, lists, sections, file, mishaps, edits>>

\* Mutants: one too many goes, and one too many stays.
CutoffAboveBound ==
    Max({v \in DOMAIN versions :
            Cardinality({w \in DOMAIN versions : w > v}) >= MaxVersions - 1})

SmallEnoughPlusOne == Cardinality(DOMAIN versions) <= MaxVersions + 1

SmallEnough == Cardinality(DOMAIN versions) <= MaxVersions

\* The newest version with MaxVersions newer ones.
Cutoff ==
    Max({v \in DOMAIN versions :
            Cardinality({w \in DOMAIN versions : w > v}) >= MaxVersions})

CountVersions(p) ==
    /\ proc[p].pc = "prune"
    /\ IF SmallEnough THEN Finish(p)
       ELSE proc' = [proc EXCEPT ![p].pc = "cut", ![p].cut = Cutoff] /\ UNCHANGED owed
    /\ UNCHANGED <<rules, lists, sections>> /\ Unchanged

CutVersions(p) ==
    /\ proc[p].pc = "cut"
    /\ versions' = Restrict(versions, {v \in DOMAIN versions : v > proc[p].cut})
    /\ Finish(p)
    /\ UNCHANGED <<rules, lists, sections, file, mishaps, edits>>

-----------------------------------------------------------------------------
\* Time passes: a deadline is over, and the next push leaves the rule out.
FallDue ==
    /\ \E r \in rules :
          /\ r.exp = "pending"
          /\ rules' = (rules \ {r}) \union {[r EXCEPT !.exp = "due"]}
          /\ owed' = IF r.on THEN owed \union {"rules"} ELSE owed
    /\ UNCHANGED <<lists, sections, versions, file, proc, mishaps, edits>>

Init ==
    /\ \E start \in Starts :
          /\ rules = RowsOf(start.rules) /\ lists = start.lists
          /\ sections = start.sections
          /\ versions = IF start = Idle.snap THEN <<>> ELSE <<start>>
    /\ file = Backup
    /\ proc = [p \in Procs |-> Idle]
    /\ owed = {}
    /\ mishaps = {}
    /\ edits = 0

Work(h) ==
    \/ LookForText(h) \/ LookForRow(h) \/ LookForSection(h) \/ LookForState(h)
    \/ Export(h) \/ ViewSections(h)
    \/ CommitAdd(h) \/ CommitUpdate(h) \/ SetRules(h) \/ CommitList(h) \/ CommitSection(h)
    \/ CommitRestore(h) \/ CommitImport(h)

RecordAndPush(p) ==
    \/ CommitDelete(p) \/ SnapRules(p) \/ SnapRest(p) \/ Store(p)
    \/ CountVersions(p) \/ CutVersions(p)

Next ==
    \/ \E h \in Handlers : Begin(h) \/ Work(h)
    \/ \E p \in Procs : RecordAndPush(p)
    \/ SweepLook
    \/ FallDue

Spec == Init /\ [][Next]_vars

\* A request that was begun is carried through, and the expiry worker keeps sweeping.
Fairness ==
    /\ \A h \in Handlers : WF_vars(Work(h))
    /\ \A p \in Procs : WF_vars(RecordAndPush(p))
    /\ WF_vars(SweepLook)

FairSpec == Spec /\ Fairness

-----------------------------------------------------------------------------
(* Properties.                                                              *)

\* Every row, version and process record has its shape; ids and texts name one rule each.
TypeOK ==
    /\ \A r \in rules : r \in [id : Nat \ {0}, text : Texts, on : BOOLEAN,
                                exp : {"never", "pending", "due"}]
    /\ \A r, q \in rules : r.id = q.id \/ r.text = q.text => r = q
    /\ DOMAIN lists \subseteq Urls /\ \A u \in DOMAIN lists : lists[u] \in BOOLEAN
    /\ DOMAIN sections \subseteq Names
    /\ \A n \in DOMAIN sections : sections[n] \in SectionRows
    /\ DOMAIN versions \subseteq Nat \ {0}
    /\ DOMAIN proc = Procs
    /\ owed \subseteq {"rules", "filters", "settings"}
    /\ mishaps \subseteq {"overlap", "half"} /\ edits \in 0 .. MaxEdits

AllIdle == \A p \in Procs : proc[p].pc = "idle"

\* A section without a row and one with the row get_section inserts stand for the same.
Filled(ss) == [n \in Names |-> IF n \in DOMAIN ss THEN ss[n] ELSE Bare]

Same(a, b) == a.rules = b.rules /\ a.lists = b.lists /\ Filled(a.sections) = Filled(b.sections)

\* Whatever a restore replaces can be had back: with every request and sweep through, the
\* newest version is the configuration itself.
Undoable ==
    AllIdle /\ mishaps = {} =>
        Same(IF versions = <<>> THEN Idle.snap ELSE versions[Newest], Snapshot)

\* Once every handler has answered, a push has been scheduled that reads what was committed
\* last, however the handlers interleaved: a rule past its deadline waits for the sweep, a
\* handler that gave up half way scheduled nothing, and update_section can go by a
\* switch another request has turned on since.
EverythingScheduled ==
    AllIdle =>
        owed \subseteq {"rules" : r \in {x \in rules : x.exp = "due" /\ x.on}}
                       \union (IF mishaps # {} THEN {"settings"} ELSE {})
                       \union (IF "half" \in mishaps THEN {"rules"} ELSE {})

\* A handler that has restored a version or a file, and was alone, left exactly that.
RestoreFaithful ==
    \A h \in Handlers :
        proc[h].pc = "snap" /\ Replaces(proc[h].op) /\ mishaps = {} =>
            /\ lists = proc[h].snap.lists
            /\ {[text |-> r.text, on |-> r.on] : r \in rules} = ToSet(proc[h].snap.rules)
            /\ \A n \in DOMAIN proc[h].snap.sections : sections[n] = proc[h].snap.sections[n]
            /\ DOMAIN sections = Names

\* A version leaves the history only when MaxVersions newer ones stay, whoever prunes.
NewestKept ==
    [][\A v \in DOMAIN versions \ DOMAIN versions' :
          Cardinality({w \in DOMAIN versions' : w > v}) >= MaxVersions]_vars

\* The history outgrows its bound only by handlers that still have to prune it.
HistoryBounded ==
    Cardinality(DOMAIN versions)
        <= MaxVersions + Cardinality({p \in Procs : proc[p].pc \in {"prune", "cut"}})

\* A rule whose deadline passed is deleted and the push without it scheduled.
ExpirySettles ==
    (\E r \in rules : r.exp = "due")
        ~> (AllIdle /\ (\A r \in rules : r.exp # "due")
                   /\ ("rules" \in owed => "half" \in mishaps))

\* api/rules.py:58: "The same press also un-expires a rule".  A request for the rule
\* without minutes that was answered leaves no deadline on it.
PermanentAskStands ==
    [][\A h \in Handlers :
          /\ mishaps = {} /\ proc[h].pc # "idle" /\ proc'[h].pc = "idle"
          /\ proc[h].op.do = "allow_domain" /\ ~proc[h].op.minutes
          => \A r \in rules' : r.text = proc[h].op.text => r.exp = "never"]_vars

\* docs/replication.md:138: "When a rule falls due the hub deletes it".  A rule that was
\* given a deadline loses it only by an edit of that rule.
DeadlineKept ==
    [][\A r \in rules, q \in rules' :
          r.text = q.text /\ r.exp # "never" /\ q.exp = "never" =>
              \E h \in Handlers : proc[h].pc = "commit" /\ proc[h].op.do = "update_rule"
                                  /\ proc'[h].pc = "snap"]_vars
=============================================================================

------------------------------ MODULE HubSync ------------------------------
(***************************************************************************)
(* The hub's sync engine: what happens between an edit to the central      *)
(* state and every AdGuard node holding it.                                *)
(*                                                                         *)
(* An edit commits and schedules a background sync task.  The task selects *)
(* the enabled instances once and pushes the full state of the edited      *)
(* kinds to each, under that instance's push lock; a failed push, and a    *)
(* node held back for maintenance, leave an open job in the retry queue.   *)
(* Retry passes replay open jobs.  Reconciliation passes pull a node's     *)
(* state, diff it against the desired state and push corrections under the *)
(* same lock.  Every variable below the database is process memory and is  *)
(* lost in a crash.                                                        *)
(*                                                                         *)
(* One action is the code between two awaits that other coroutines or the  *)
(* node can run between; runs of awaits that only touch rows nobody else   *)
(* writes are one action.                                                  *)
(***************************************************************************)
EXTENDS Integers, FiniteSets

PayloadKind == {"rules", "filters", "settings"}

\* not_kept() reads these back after a push; settings sections it does not.
ReadBackKinds == {"rules", "filters"}

CONSTANTS
    Instances,   \* the AdGuard nodes
    Kinds,       \* the payload kinds in use
    Syncs,       \* background sync tasks (and manual pushes) that can run at once
    Retries,     \* retry passes that can run at once: the worker, a PATCH, POST /retry
    Passes,      \* reconciliation passes that can run at once: the worker, POST /reconcile;
                 \* none, when reconcile_enabled is off
    None,        \* no instance, kind or process
    Faults,      \* what the environment and the operator may do besides edit
    MaxEdits,    \* bound: the newest revision a kind reaches
    MaxEvents    \* bound: how often anything in Faults happens

AllFaults ==
    {"outage",    \* a node stops answering for a while
     "error",     \* a node answers a call with an error, the write landed or not
     "tamper",    \* somebody edits the node in its own interface
     "refuse",    \* the node accepts a write and keeps something else
     "crash",     \* the hub's process ends and is started again
     "deadline",  \* a reconciliation pass runs into pass_deadline
     "holdback",  \* the operator puts a node in maintenance
     "overlap",   \* ... or pushes by hand to one, with a push to it in flight
     "disable",   \* the operator disables a node
     "manual",    \* the operator presses Push on a node, or Sync
     "discard"}   \* the operator deletes an open job

Procs == Syncs \union Retries \union Passes

ASSUME ConstantsAssumption ==
    /\ Kinds \subseteq PayloadKind
    /\ None \notin Instances \union Procs \union Kinds
    /\ Syncs \intersect Retries = {}
    /\ Syncs \intersect Passes = {}
    /\ Retries \intersect Passes = {}
    /\ Faults \subseteq AllFaults
    /\ MaxEdits \in Nat
    /\ MaxEvents \in Nat

VARIABLES
    \* the database
    desired,    \* desired[k]: revision of the rules, lists or sections stored
    row,        \* row[i]: the instance's enabled and maintenance columns
    jobs,       \* jobs[i][k]: open push jobs, pending or failed
    outOfSync,  \* outOfSync[i]: out_of_sync_since is set
    \* the nodes
    node,       \* node[i][k]: the revision held, or Foreign
    up,         \* up[i]: the node answers
    \* the process
    task,       \* task[s]: a background sync_all
    retry,      \* retry[r]: a process_retry_queue
    pass,       \* pass[c]: a reconcile_all
    push,       \* push[p]: the push or correction a process is in
    lock,       \* lock[i]: who holds push_lock(i), or None
    \* the model
    events      \* how often anything in Faults happened

database == <<desired, row, jobs, outOfSync>>
nodes    == <<node, up>>
procs    == <<task, retry, pass, push, lock>>
vars     == <<database, nodes, procs, events>>

\* A state the hub never held; older than all of its revisions.
Foreign == -1

NoTask  == [pc |-> "idle", kinds |-> {}, todo |-> {}, held |-> {},
            inst |-> None, found |-> {}]
NoRetry == [pc |-> "idle", rows |-> {}]
NoPass  == [pc |-> "idle", todo |-> {}, known |-> {}, inst |-> None,
            expected |-> 0, seen |-> [k \in Kinds |-> Foreign]]
NoPush  == [pc |-> "none", inst |-> None, kinds |-> {}, todo |-> {},
            kind |-> None, value |-> 0, refused |-> {}, failed |-> {}]

----------------------------------------------------------------------------
TaskType ==
    [pc : {"idle", "start", "each", "queue"}, kinds : SUBSET Kinds,
     todo : SUBSET Instances, held : SUBSET Instances,
     inst : Instances \union {None}, found : SUBSET Kinds]

RetryType == [pc : {"idle", "start", "each"}, rows : SUBSET (Instances \X Kinds)]

PassType ==
    [pc : {"idle", "each", "begun", "pulled", "fix"}, todo : SUBSET Instances,
     known : SUBSET Instances, inst : Instances \union {None},
     expected : Nat, seen : [Kinds -> Nat \union {Foreign}]]

PushType ==
    [pc : {"none", "wait", "locked", "write", "verify"},
     inst : Instances \union {None}, kinds : SUBSET Kinds, todo : SUBSET Kinds,
     kind : Kinds \union {None}, value : Nat,
     refused : SUBSET Kinds, failed : SUBSET Kinds]

\* The shape of every variable.
TypeOK ==
    /\ desired \in [Kinds -> Nat]
    /\ row \in [Instances -> [enabled : BOOLEAN, maintenance : BOOLEAN]]
    /\ jobs \in [Instances -> [Kinds -> Nat]]
    /\ outOfSync \in [Instances -> BOOLEAN]
    /\ node \in [Instances -> [Kinds -> Nat \union {Foreign}]]
    /\ up \in [Instances -> BOOLEAN]
    /\ task \in [Syncs -> TaskType]
    /\ retry \in [Retries -> RetryType]
    /\ pass \in [Passes -> PassType]
    /\ push \in [Procs -> PushType]
    /\ lock \in [Instances -> Procs \union {None}]
    /\ events \in Nat

\* A hub with nodes just added: they hold what they held before.
Init ==
    /\ desired = [k \in Kinds |-> 0]
    /\ row = [i \in Instances |-> [enabled |-> TRUE, maintenance |-> FALSE]]
    /\ jobs = [i \in Instances |-> [k \in Kinds |-> 0]]
    /\ outOfSync = [i \in Instances |-> FALSE]
    /\ node = [i \in Instances |-> [k \in Kinds |-> Foreign]]
    /\ up = [i \in Instances |-> TRUE]
    /\ task = [s \in Syncs |-> NoTask]
    /\ retry = [r \in Retries |-> NoRetry]
    /\ pass = [c \in Passes |-> NoPass]
    /\ push = [p \in Procs |-> NoPush]
    /\ lock = [i \in Instances |-> None]
    /\ events = 0

\* Something in Faults happens.
Event(f) ==
    /\ f \in Faults
    /\ events < MaxEvents
    /\ events' = events + 1

----------------------------------------------------------------------------
(***************************************************************************)
(* Pushing to one instance.  Processes share these steps: a sync task and  *)
(* a retry pass push through push_to_instance, a reconciliation pass       *)
(* corrects through _correct.                                              *)
(***************************************************************************)

PushRequest(i, ks) ==
    [NoPush EXCEPT !.pc = "wait", !.inst = i, !.kinds = ks, !.todo = ks]

\* Mutant: no lock.
PushLockRacing(p) ==
    /\ push[p].pc = "wait"
    /\ lock' = [lock EXCEPT ![push[p].inst] = p]
    /\ push' = [push EXCEPT ![p].pc = "locked"]
    /\ UNCHANGED <<database, nodes, task, retry, pass, events>>

\* async with push_lock(instance.id)
PushLock(p) ==
    /\ push[p].pc = "wait"
    /\ lock[push[p].inst] = None
    /\ lock' = [lock EXCEPT ![push[p].inst] = p]
    /\ push' = [push EXCEPT ![p].pc = "locked"]
    /\ UNCHANGED <<database, nodes, task, retry, pass, events>>

\* push_kind reads the desired state of one kind, inside the lock ...
PushRead(p) ==
    /\ push[p].pc = "locked"
    /\ \E k \in push[p].todo :
          push' = [push EXCEPT ![p] =
             [@ EXCEPT !.pc = "write", !.kind = k, !.value = desired[k]]]
    /\ UNCHANGED <<database, nodes, task, retry, pass, lock, events>>

\* The node after the write push p is about to make.
Landed(p) == [node EXCEPT ![push[p].inst][push[p].kind] = push[p].value]

Garbled(p) == [node EXCEPT ![push[p].inst][push[p].kind] = Foreign]

\* One kind is dealt with: on to the next.
KindDone(p) ==
    [push[p] EXCEPT !.pc = "locked", !.todo = push[p].todo \ {push[p].kind},
                    !.kind = None, !.value = 0]

\* ... and awaits the node's answer.  A correction is then verified, a push goes on.
PushWrite(p) ==
    /\ push[p].pc = "write"
    /\ up[push[p].inst]
    /\ \/ node' = Landed(p) /\ UNCHANGED events
       \/ node' = Garbled(p) /\ Event("refuse")
    /\ push' = IF p \in Passes
               THEN [push EXCEPT ![p].pc = "verify"]
               ELSE [push EXCEPT ![p] = KindDone(p)]
    /\ UNCHANGED <<database, up, task, retry, pass, lock>>

\* A call on the node raises AdapterError.
CallFails(p) ==
    \/ /\ ~up[push[p].inst]
       /\ UNCHANGED <<node, events>>
    \/ /\ up[push[p].inst]
       /\ Event("error")
       /\ \/ UNCHANGED node
          \/ push[p].pc = "write" /\ node' = Landed(p)

\* Every kind is written: not_kept asks the node what survived.
ReadingBack(p) == push[p].pc = "locked" /\ push[p].todo = {}

ReadsBack(p) == push[p].kinds \intersect ReadBackKinds # {}

Release(p) == lock' = [lock EXCEPT ![push[p].inst] = None]

\* queue_job: the one open job of this instance and kind, updated or added.
QueueJobs(i, ks) ==
    [jobs EXCEPT ![i] = [k \in Kinds |->
        IF k \in ks /\ jobs[i][k] = 0 THEN 1 ELSE jobs[i][k]]]

\* Mutants: the jobs of every kind are closed; a job is counted down.
CloseAllJobs(i, ks) == [jobs EXCEPT ![i] = [k \in Kinds |-> 0]]

CountDownJobs(i, ks) ==
    [jobs EXCEPT ![i] = [k \in Kinds |-> IF k \in ks THEN jobs[i][k] - 1 ELSE jobs[i][k]]]

\* close_jobs: every open job of the kinds just pushed is applied.
CloseJobs(i, ks) ==
    [jobs EXCEPT ![i] = [k \in Kinds |-> IF k \in ks THEN 0 ELSE jobs[i][k]]]

\* The push fails part-way: every one of its kinds is queued, sent or not.
PushFailed(p) ==
    /\ p \in Syncs \union Retries
    /\ push[p].pc = "write" \/ (ReadingBack(p) /\ ReadsBack(p))
    /\ CallFails(p)
    /\ jobs' = QueueJobs(push[p].inst, push[p].kinds)
    /\ Release(p)
    /\ push' = [push EXCEPT ![p] = NoPush]
    /\ UNCHANGED <<desired, row, outOfSync, up, task, retry, pass>>

\* The push is through.  What the node did not keep is reported, not queued.
PushApplied(p) ==
    /\ p \in Syncs \union Retries
    /\ ReadingBack(p)
    /\ ReadsBack(p) => up[push[p].inst]
    /\ jobs' = CloseJobs(push[p].inst, push[p].kinds)
    /\ Release(p)
    /\ push' = [push EXCEPT ![p] = NoPush]
    /\ UNCHANGED <<desired, row, outOfSync, nodes, task, retry, pass, events>>

----------------------------------------------------------------------------
(***************************************************************************)
(* Edits and the background sync_all they schedule.                        *)
(***************************************************************************)

\* One payload kind for an edit; all of them for an import, a restore, a rollback.
EditScopes == {{k} : k \in Kinds} \union {Kinds}

Edited(ks) == [k \in Kinds |-> IF k \in ks THEN desired[k] + 1 ELSE desired[k]]

\* A handler commits its edit and calls schedule_sync.
Edit(s, ks) ==
    /\ task[s].pc = "idle"
    /\ desired' = Edited(ks)
    /\ \A k \in ks : desired[k] < MaxEdits
    /\ task' = [task EXCEPT ![s] = [NoTask EXCEPT !.pc = "start", !.kinds = ks]]
    /\ UNCHANGED <<row, jobs, outOfSync, nodes, retry, pass, push, lock, events>>

\* select(Instance).where(enabled): read once, for every push of the task.
SyncSelect(s) ==
    /\ task[s].pc = "start"
    /\ LET todo == {i \in Instances : row[i].enabled} IN
          task' = [task EXCEPT ![s] =
             [@ EXCEPT !.pc = "each", !.todo = todo,
                       !.held = {i \in todo : row[i].maintenance}]]
    /\ UNCHANGED <<database, nodes, retry, pass, push, lock, events>>

\* The next instance, as it was when selected: push to it ...
SyncPush(s) ==
    /\ task[s].pc = "each"
    /\ push[s].pc = "none"
    /\ \E i \in task[s].todo \ task[s].held :
          /\ task' = [task EXCEPT ![s].todo = @ \ {i}]
          /\ push' = [push EXCEPT ![s] = PushRequest(i, task[s].kinds)]
    /\ UNCHANGED <<database, nodes, retry, pass, lock, events>>

\* ... or, when it was in maintenance, queue: look for the open jobs, no lock held ...
SyncHold(s) ==
    /\ task[s].pc = "each"
    /\ push[s].pc = "none"
    /\ \E i \in task[s].todo \intersect task[s].held :
          task' = [task EXCEPT ![s] =
             [@ EXCEPT !.pc = "queue", !.todo = task[s].todo \ {i}, !.inst = i,
                       !.found = {k \in task[s].kinds : jobs[i][k] > 0}]]
    /\ UNCHANGED <<database, nodes, retry, pass, push, lock, events>>

\* ... and update the job found or insert one.  A job found and closed meanwhile is
\* reopened only if its status column changes: failed becomes pending, pending stays
\* pending in the session and writes nothing.
SyncQueue(s) ==
    /\ task[s].pc = "queue"
    /\ LET i == task[s].inst IN
          \E reopened \in SUBSET {k \in task[s].found : jobs[i][k] = 0} :
             jobs' = [jobs EXCEPT ![i] = [k \in Kinds |->
                IF k \in reopened \/ k \in task[s].kinds \ task[s].found
                THEN jobs[i][k] + 1 ELSE jobs[i][k]]]
    /\ task' = [task EXCEPT ![s] =
          [@ EXCEPT !.pc = "each", !.inst = None, !.found = {}]]
    /\ UNCHANGED <<desired, row, outOfSync, nodes, retry, pass, push, lock, events>>

SyncDone(s) ==
    /\ task[s].pc = "each"
    /\ task[s].todo = {}
    /\ push[s].pc = "none"
    /\ task' = [task EXCEPT ![s] = NoTask]
    /\ UNCHANGED <<database, nodes, retry, pass, push, lock, events>>

\* POST /instances/{id}/push: all kinds to one node, whatever its row says.
ManualPush(s, i) ==
    /\ Event("manual")
    /\ row[i].maintenance => "overlap" \in Faults
    /\ task[s].pc = "idle"
    /\ task' = [task EXCEPT ![s] = [NoTask EXCEPT !.pc = "each", !.kinds = Kinds]]
    /\ push' = [push EXCEPT ![s] = PushRequest(i, Kinds)]
    /\ UNCHANGED <<database, nodes, retry, pass, lock>>

\* POST /sync: sync_all of every kind without an edit.
ForceSync(s) ==
    /\ Event("manual")
    /\ task[s].pc = "idle"
    /\ task' = [task EXCEPT ![s] = [NoTask EXCEPT !.pc = "start", !.kinds = Kinds]]
    /\ UNCHANGED <<database, nodes, retry, pass, push, lock>>

----------------------------------------------------------------------------
(***************************************************************************)
(* process_retry_queue.                                                    *)
(***************************************************************************)

\* Mutant: maintenance is not asked about.
OpenRowsOfEnabled ==
    {r \in Instances \X Kinds : jobs[r[1]][r[2]] > 0 /\ row[r[1]].enabled}

\* Open jobs of instances that are enabled and not in maintenance.
OpenRows ==
    {r \in Instances \X Kinds :
        /\ jobs[r[1]][r[2]] > 0
        /\ row[r[1]].enabled
        /\ ~row[r[1]].maintenance}

\* The timer, POST /retry or the end of a maintenance: the open jobs, read once, one
\* per instance and kind however many are open.
RetrySelect(r) ==
    /\ retry[r].pc \in {"idle", "start"}
    /\ retry[r].pc = "idle" => OpenRows # {}
    /\ retry' = [retry EXCEPT ![r] = [pc |-> "each", rows |-> OpenRows]]
    /\ UNCHANGED <<database, nodes, task, pass, push, lock, events>>

RetryPush(r) ==
    /\ retry[r].pc = "each"
    /\ push[r].pc = "none"
    /\ \E t \in retry[r].rows :
          /\ retry' = [retry EXCEPT ![r].rows = @ \ {t}]
          /\ push' = [push EXCEPT ![r] = PushRequest(t[1], {t[2]})]
    /\ UNCHANGED <<database, nodes, task, pass, lock, events>>

RetryDone(r) ==
    /\ retry[r].pc = "each"
    /\ retry[r].rows = {}
    /\ push[r].pc = "none"
    /\ retry' = [retry EXCEPT ![r] = NoRetry]
    /\ UNCHANGED <<database, nodes, task, pass, push, lock, events>>

----------------------------------------------------------------------------
(***************************************************************************)
(* reconcile_all and reconcile_instance.                                   *)
(***************************************************************************)

\* Unless the hub holds nothing at all: has_desired_state.
PassStart(c) ==
    /\ pass[c].pc = "idle"
    /\ \E k \in Kinds : desired[k] > 0
    /\ pass' = [pass EXCEPT ![c] =
          [@ EXCEPT !.pc = "each",
                    !.todo = {i \in Instances : row[i].enabled /\ ~row[i].maintenance},
                    !.known = {i \in Instances : outOfSync[i]}]]
    /\ UNCHANGED <<database, nodes, task, retry, push, lock, events>>

\* expected_sections, read before the node is asked anything.
Sections == IF "settings" \in Kinds THEN desired["settings"] ELSE 0

PassBegin(c) ==
    /\ pass[c].pc = "each"
    /\ \E i \in pass[c].todo :
          pass' = [pass EXCEPT ![c] =
             [@ EXCEPT !.pc = "begun", !.todo = pass[c].todo \ {i},
                       !.inst = i, !.expected = Sections]]
    /\ UNCHANGED <<database, nodes, task, retry, push, lock, events>>

\* The pass is through with its instance.
NextInstance(c) ==
    [pass EXCEPT ![c] = [NoPass EXCEPT !.pc = "each", !.todo = pass[c].todo,
                                       !.known = pass[c].known]]

\* pull_state: outside the lock.  A node that does not answer is left for the next pass.
PassPull(c) ==
    /\ pass[c].pc = "begun"
    /\ LET i == pass[c].inst IN
          \/ /\ up[i]
             /\ pass' = [pass EXCEPT ![c] = [@ EXCEPT !.pc = "pulled", !.seen = node[i]]]
             /\ UNCHANGED events
          \/ /\ ~up[i]
             /\ pass' = NextInstance(c)
             /\ UNCHANGED events
          \/ /\ up[i]
             /\ Event("error")
             /\ pass' = NextInstance(c)
    /\ UNCHANGED <<database, nodes, task, retry, push, lock>>

\* What a pass compares a kind with: sections as read at its beginning, rules and
\* subscriptions as stored now.
Expected(c, k) == IF k = "settings" THEN pass[c].expected ELSE desired[k]

\* Mutant: the mark is set and never taken away.
VerdictSticks(c, bad) ==
    outOfSync' = IF bad THEN [outOfSync EXCEPT ![pass[c].inst] = TRUE] ELSE outOfSync

\* instance.out_of_sync_since = ..., flushed only if it differs from the value loaded
\* when the pass selected its instances.
Verdict(c, bad) ==
    LET i == pass[c].inst IN
    outOfSync' = IF bad = (i \in pass[c].known)
                 THEN outOfSync ELSE [outOfSync EXCEPT ![i] = bad]

\* The candidates are diffed against the state pulled; differences are corrected
\* under the push lock, no difference is a verdict.
PassDiff(c) ==
    /\ pass[c].pc = "pulled"
    /\ LET differences == {k \in Kinds : Expected(c, k) # pass[c].seen[k]} IN
          \/ /\ differences = {}
             /\ Verdict(c, FALSE)
             /\ pass' = NextInstance(c)
             /\ UNCHANGED push
          \/ /\ differences # {}
             /\ pass' = [pass EXCEPT ![c] = [@ EXCEPT !.pc = "fix", !.seen = NoPass.seen]]
             /\ push' = [push EXCEPT ![c] = PushRequest(pass[c].inst, differences)]
             /\ UNCHANGED outOfSync
    /\ UNCHANGED <<desired, row, jobs, nodes, task, retry, lock, events>>

\* The correction of one kind is over: the next one.
Sorted(c, refused, failed) ==
    push' = [push EXCEPT ![c] =
       [KindDone(c) EXCEPT !.refused = push[c].refused \union refused,
                           !.failed = push[c].failed \union failed]]

\* _still_differs: read the kind back and diff it again.
PassVerify(c) ==
    /\ push[c].pc = "verify"
    /\ LET i == push[c].inst  k == push[c].kind IN
          /\ up[i]
          /\ Sorted(c, IF node[i][k] = Expected(c, k) THEN {} ELSE {k}, {})
    /\ UNCHANGED <<database, nodes, task, retry, pass, lock, events>>

\* The correction or its read-back raised; the other differences are still corrected.
PassPushFailed(c) ==
    /\ push[c].pc \in {"write", "verify"}
    /\ CallFails(c)
    /\ Sorted(c, {}, {push[c].kind})
    /\ UNCHANGED <<database, up, task, retry, pass, lock>>

\* The lock is given back and the verdict committed.
PassSettle(c) ==
    /\ pass[c].pc = "fix"
    /\ ReadingBack(c)
    /\ Verdict(c, push[c].refused \union push[c].failed # {})
    /\ Release(c)
    /\ push' = [push EXCEPT ![c] = NoPush]
    /\ pass' = NextInstance(c)
    /\ UNCHANGED <<desired, row, jobs, nodes, task, retry, events>>

PassDone(c) ==
    /\ pass[c].pc = "each"
    /\ pass[c].todo = {}
    /\ pass' = [pass EXCEPT ![c] = NoPass]
    /\ UNCHANGED <<database, nodes, task, retry, push, lock, events>>

\* Mutant: cancelled without a context manager to give the lock back.
PassDeadlineHolding(c) ==
    /\ Event("deadline")
    /\ pass[c].pc # "idle"
    /\ push' = [push EXCEPT ![c] = NoPush]
    /\ pass' = [pass EXCEPT ![c] = NoPass]
    /\ UNCHANGED <<database, nodes, task, retry, lock>>

\* asyncio.timeout(pass_deadline): cancelled where it waits, the session rolled back,
\* the lock given back by the context manager.
PassDeadline(c) ==
    /\ Event("deadline")
    /\ pass[c].pc # "idle"
    /\ lock' = [i \in Instances |-> IF lock[i] = c THEN None ELSE lock[i]]
    /\ push' = [push EXCEPT ![c] = NoPush]
    /\ pass' = [pass EXCEPT ![c] = NoPass]
    /\ UNCHANGED <<database, nodes, task, retry>>

----------------------------------------------------------------------------
(***************************************************************************)
(* The operator's switches, the nodes and the process.                     *)
(***************************************************************************)

\* No push is under way to the node and none was decided on before now.
Quiet(i) ==
    /\ \A p \in Procs : push[p].inst # i
    /\ \A s \in Syncs : i \notin task[s].todo
    /\ \A r \in Retries : \A k \in Kinds : <<i, k>> \notin retry[r].rows
    /\ \A c \in Passes : i \notin pass[c].todo /\ pass[c].inst # i

\* PATCH /instances/{id} {"maintenance": true}
HoldBack(i) ==
    /\ Event("holdback")
    /\ ~row[i].maintenance
    /\ Quiet(i) \/ "overlap" \in Faults
    /\ row' = [row EXCEPT ![i].maintenance = TRUE]
    /\ UNCHANGED <<desired, jobs, outOfSync, nodes, procs>>

\* PATCH {"maintenance": false}: the handler goes on to replay the queue.
EndMaintenance(i, r) ==
    /\ row[i].maintenance
    /\ retry[r].pc = "idle"
    /\ row' = [row EXCEPT ![i].maintenance = FALSE]
    /\ retry' = IF row[i].enabled
                THEN [retry EXCEPT ![r].pc = "start"] ELSE retry
    /\ UNCHANGED <<desired, jobs, outOfSync, nodes, task, pass, push, lock, events>>

\* PATCH {"enabled": false}
Disable(i) ==
    /\ Event("disable")
    /\ row[i].enabled
    /\ row' = [row EXCEPT ![i].enabled = FALSE]
    /\ UNCHANGED <<desired, jobs, outOfSync, nodes, procs>>

\* PATCH {"enabled": true}: a probe, and nothing is replayed.
Enable(i) ==
    /\ ~row[i].enabled
    /\ row' = [row EXCEPT ![i].enabled = TRUE]
    /\ UNCHANGED <<desired, jobs, outOfSync, nodes, procs, events>>

\* DELETE /jobs/{id}; not while a task is about to update that very row.
DiscardJob(i, k) ==
    /\ Event("discard")
    /\ jobs[i][k] > 0
    /\ \A s \in Syncs : task[s].inst # i
    /\ jobs' = [jobs EXCEPT ![i][k] = @ - 1]
    /\ UNCHANGED <<desired, row, outOfSync, nodes, procs>>

Tamper(i, k) ==
    /\ Event("tamper")
    /\ node' = [node EXCEPT ![i][k] = Foreign]
    /\ UNCHANGED <<database, up, procs>>

GoDown(i) ==
    /\ Event("outage")
    /\ up[i]
    /\ up' = [up EXCEPT ![i] = FALSE]
    /\ UNCHANGED <<database, node, procs>>

ComeBack(i) ==
    /\ ~up[i]
    /\ up' = [up EXCEPT ![i] = TRUE]
    /\ UNCHANGED <<database, node, procs, events>>

\* The process ends and starts again: tasks, passes and locks are gone, and nothing
\* recorded which syncs were still to run.
Crash ==
    /\ Event("crash")
    /\ task' = [s \in Syncs |-> NoTask]
    /\ retry' = [r \in Retries |-> NoRetry]
    /\ pass' = [c \in Passes |-> NoPass]
    /\ push' = [p \in Procs |-> NoPush]
    /\ lock' = [i \in Instances |-> None]
    /\ UNCHANGED <<database, nodes>>

----------------------------------------------------------------------------
PushStep(p) ==
    PushRead(p) \/ PushWrite(p) \/ PushFailed(p) \/ PushApplied(p)

SyncStep(s) ==
    SyncSelect(s) \/ SyncPush(s) \/ SyncHold(s) \/ SyncQueue(s) \/ SyncDone(s)

RetryStep(r) == RetrySelect(r) \/ RetryPush(r) \/ RetryDone(r)

PassStep(c) ==
    \/ PassStart(c) \/ PassBegin(c) \/ PassPull(c) \/ PassDiff(c)
    \/ PassVerify(c) \/ PassPushFailed(c) \/ PassSettle(c) \/ PassDone(c)

Operator ==
    \/ \E s \in Syncs, ks \in EditScopes : Edit(s, ks)
    \/ \E s \in Syncs, i \in Instances : ManualPush(s, i)
    \/ \E i \in Instances : HoldBack(i) \/ Disable(i) \/ Enable(i)
    \/ \E i \in Instances, r \in Retries : EndMaintenance(i, r)
    \/ \E s \in Syncs : ForceSync(s)
    \/ \E i \in Instances, k \in Kinds : DiscardJob(i, k)

Environment ==
    \/ \E i \in Instances : GoDown(i) \/ ComeBack(i)
    \/ \E i \in Instances, k \in Kinds : Tamper(i, k)
    \/ \E c \in Passes : PassDeadline(c)
    \/ Crash

Next ==
    \/ \E p \in Procs : PushLock(p) \/ PushStep(p)
    \/ \E s \in Syncs : SyncStep(s)
    \/ \E r \in Retries : RetryStep(r)
    \/ \E c \in Passes : PassStep(c)
    \/ Operator
    \/ Environment

Spec == Init /\ [][Next]_vars

(***************************************************************************)
(* Fairness.  The event loop runs every ready coroutine, every call on a   *)
(* node ends in an answer or, after http_timeout, in an AdapterError, and  *)
(* the retry and reconcile workers wake up again and again: weak fairness  *)
(* of every process.  asyncio.Lock wakes its waiters in order, so a push   *)
(* that waits while the lock is freed again and again gets it: strong      *)
(* fairness.  A node that is down is repaired some day.  Nothing is        *)
(* assumed of the operator.                                                *)
(***************************************************************************)
Fairness ==
    /\ \A p \in Procs : SF_vars(PushLock(p))
    /\ \A s \in Syncs : WF_vars(PushStep(s) \/ SyncStep(s))
    /\ \A r \in Retries : WF_vars(PushStep(r) \/ RetryStep(r))
    /\ \A c \in Passes : WF_vars(PushStep(c) \/ PassStep(c))
    /\ \A i \in Instances : WF_vars(ComeBack(i))

FairSpec == Spec /\ Fairness

----------------------------------------------------------------------------
(***************************************************************************)
(* Properties.                                                             *)
(***************************************************************************)

Critical == {"locked", "write", "verify"}

\* push_lock is held by exactly the process inside its critical section, however that
\* section ends: answer, AdapterError, deadline or crash.
LockMatchesHolder ==
    \A i \in Instances, p \in Procs :
        lock[i] = p <=> push[p].pc \in Critical /\ push[p].inst = i

\* The engine implements ReplicaSet: a full-state push never puts an older revision on
\* a node than the one it holds, whatever order edits, retries and passes run in
\* ("the push that runs last carries the newest state", sync.push_to_instance).
Replica ==
    INSTANCE ReplicaSet
        WITH Instances <- Instances, Kinds <- Kinds, desired <- desired, node <- node

NeverBackwards == Replica!Spec

\* Work that will still carry the newest revision of k to i: an open job, a task that
\* has not come to i, a push that has not read k or has read its newest revision.
Owed(i, k) ==
    \/ jobs[i][k] > 0
    \/ \E s \in Syncs :
          /\ k \in task[s].kinds
          /\ \/ task[s].pc = "start"
             \/ i \in task[s].todo
             \/ task[s].inst = i
    \/ \E p \in Syncs \union Retries :
          /\ push[p].inst = i
          /\ k \in push[p].todo
          /\ push[p].kind = k => push[p].value = desired[k]

\* No edit is forgotten between an edit and the node, also without reconciliation: a
\* node that does not hold the newest revision is owed it, through failed pushes,
\* outages and maintenance ("the change is not dropped", sync.sync_all).
NothingForgotten ==
    \A i \in Instances, k \in Kinds :
        desired[k] > 0 => node[i][k] = desired[k] \/ Owed(i, k)

\* Process p has kind k still to push to node i: with a push that is under way, an instance
\* of a task or a row of a retry pass that is still to come, or whatever a pass will find.
Decided(p, i, k) ==
    \/ push[p].inst = i /\ k \in push[p].todo \union {push[p].kind}
    \/ p \in Syncs /\ i \in task[p].todo \ task[p].held /\ k \in task[p].kinds
    \/ p \in Retries /\ <<i, k>> \in retry[p].rows
    \/ p \in Passes /\ (i \in pass[p].todo \/ (pass[p].inst = i /\ pass[p].pc # "fix"))

\* Maintenance is hands off: whatever is edited, queued, retried or compared while a node is
\* held back, nothing is added to what was decided for it before the switch, but what the
\* operator sends by hand, and nothing else is written to it.  So a node that nothing was
\* decided for is left alone ("no pushes, no reconciliation", models.Instance).
HandsOff ==
    [][\A i \in Instances, k \in Kinds :
          row[i].maintenance =>
             /\ \A p \in Procs :
                   Decided(p, i, k)' /\ ~Decided(p, i, k) =>
                       p \in Syncs /\ task[p].pc = "idle" /\ push'[p].inst = i
             /\ node'[i][k] \in {node[i][k], Foreign} \/ \E p \in Procs : Decided(p, i, k)]_vars

\* No push, retry or correction starts on such a node: the stronger reading of the same
\* sentence, which covers every push decided on before the switch was set.
NoPushStarts ==
    [][\A p \in Procs : \A i \in Instances :
          row[i].maintenance /\ push[p].inst = i /\ push[p].pc = "wait"
              => push'[p].pc # "locked"]_vars

\* A correction is called refused ("the node did not keep this correction") only if
\* the node does not hold what this pass wrote.
RefusalIsReal ==
    [][\A c \in Passes :
          push[c].pc = "verify" /\ push[c].kind \in push'[c].refused
              => node[push[c].inst][push[c].kind] # push[c].value]_vars

\* Settled: the node holds the central state, nothing is queued for it and its card
\* does not say out of sync.
Settled(i) ==
    /\ \A k \in Kinds : node[i][k] = desired[k] /\ jobs[i][k] = 0
    /\ ~outOfSync[i]

\* Whatever happened before (outages, crashes, edits on the node, refusals, deadlines,
\* maintenance at a bad moment), once it stops happening every enabled node that is not
\* in maintenance ends up settled, if the hub has anything to replicate.
Convergence ==
    <>[](\A i \in Instances :
            row[i].enabled /\ ~row[i].maintenance /\ (\E k \in Kinds : desired[k] > 0)
                => Settled(i))
=============================================================================

--------------------------- MODULE HubSync_proofs ---------------------------
(***************************************************************************)
(* Proofs about HubSync for every value of its constants.                  *)
(***************************************************************************)
EXTENDS HubSync, TLAPS

\* What TypeOK needs to be inductive: a push that is under way is at an instance and,
\* while it awaits a node's answer, at a kind; a pass past its beginning is at an
\* instance, so that what it pulls is the state of a node.
PushShape ==
    \A p \in Procs :
        /\ push[p].pc # "none" => push[p].inst \in Instances
        /\ push[p].pc \in {"write", "verify"} => push[p].kind \in Kinds

PassShape ==
    \A c \in Passes :
        pass[c].pc \in {"begun", "pulled", "fix"} => pass[c].inst \in Instances

TypeInv == TypeOK /\ PushShape /\ PassShape

NodeType == [Instances -> [Kinds -> Nat \union {Foreign}]]

LEMMA IdleTypes ==
    /\ NoTask \in TaskType
    /\ NoRetry \in RetryType
    /\ NoPass \in PassType
    /\ NoPush \in PushType
    /\ \A i \in Instances, ks \in SUBSET Kinds : PushRequest(i, ks) \in PushType
  BY DEF NoTask, TaskType, NoRetry, RetryType, NoPass, PassType, NoPush, PushType,
         PushRequest, Foreign

\* Writing one kind of one node keeps the nodes' type.
LEMMA WriteType ==
    ASSUME node \in NodeType, NEW i \in Instances, NEW k \in Kinds,
           NEW v \in Nat \union {Foreign}
    PROVE  [node EXCEPT ![i][k] = v] \in NodeType
  BY DEF NodeType

LEMMA TypeInit == Init => TypeInv
  BY IdleTypes DEF Init, TypeInv, TypeOK, PushShape, PassShape, NoPass, NoPush, Foreign

\* Replacing the push of one process by a well-shaped one keeps every push so.
LEMMA PushUpdate ==
    ASSUME push \in [Procs -> PushType], PushShape, NEW p \in Procs,
           NEW r \in PushType, push' = [push EXCEPT ![p] = r],
           r.pc # "none" => r.inst \in Instances,
           r.pc \in {"write", "verify"} => r.kind \in Kinds
    PROVE  push' \in [Procs -> PushType] /\ PushShape'
  BY DEF PushShape

\* What KindDone leaves of a push.
LEMMA KindDoneType ==
    ASSUME NEW p \in Procs, push[p] \in PushType
    PROVE  /\ KindDone(p) \in PushType
           /\ KindDone(p).pc = "locked"
           /\ KindDone(p).inst = push[p].inst
  BY DEF KindDone, PushType

LEMMA TypePush ==
    ASSUME TypeInv, NEW p \in Procs, PushLock(p) \/ PushStep(p)
    PROVE  TypeInv'
<1>a. /\ push \in [Procs -> PushType]
      /\ push[p] \in PushType
      /\ PushShape
      /\ push[p].pc # "none" => push[p].inst \in Instances
      /\ push[p].pc \in {"write", "verify"} => push[p].kind \in Kinds
  BY DEF TypeInv, TypeOK, PushShape
<1>b. /\ desired \in [Kinds -> Nat]
      /\ jobs \in [Instances -> [Kinds -> Nat]]
      /\ lock \in [Instances -> Procs \union {None}]
      /\ events \in Nat
  BY DEF TypeInv, TypeOK
<1>c. node \in NodeType
  BY DEF TypeInv, TypeOK, NodeType
<1>d. /\ push[p].value \in Nat
      /\ push[p].kinds \in SUBSET Kinds
      /\ push[p].todo \in SUBSET Kinds
  BY <1>a DEF PushType
<1>w. ASSUME push[p].pc = "write", NEW v \in Nat \union {Foreign}
      PROVE  [node EXCEPT ![push[p].inst][push[p].kind] = v] \in NodeType
  BY <1>a, <1>c, <1>w, WriteType
<1>1. CASE PushLock(p)
  <2> DEFINE r == [push[p] EXCEPT !.pc = "locked"]
  <2>1. r \in PushType /\ r.pc = "locked" /\ r.inst \in Instances
    BY <1>1, <1>a DEF PushLock, PushType
  <2>2. push' = [push EXCEPT ![p] = r]
    BY <1>1 DEF PushLock
  <2>3. push' \in [Procs -> PushType] /\ PushShape'
    BY <2>1, <2>2, <1>a, PushUpdate
  <2>4. lock' \in [Instances -> Procs \union {None}]
    BY <1>1, <1>b DEF PushLock
  <2> QED
    BY <1>1, <2>3, <2>4 DEF PushLock, database, nodes, TypeInv, TypeOK, PassShape
<1>2. CASE PushRead(p)
  <2>1. PICK k \in push[p].todo :
           push' = [push EXCEPT ![p] =
                      [push[p] EXCEPT !.pc = "write", !.kind = k, !.value = desired[k]]]
    BY <1>2 DEF PushRead
  <2> DEFINE r == [push[p] EXCEPT !.pc = "write", !.kind = k, !.value = desired[k]]
  <2>2. k \in Kinds /\ desired[k] \in Nat
    BY <1>b, <1>d
  <2>3. r \in PushType /\ r.inst \in Instances /\ r.kind \in Kinds
    BY <1>2, <1>a, <2>2 DEF PushRead, PushType
  <2>4. push' \in [Procs -> PushType] /\ PushShape'
    BY <2>1, <2>3, <1>a, PushUpdate
  <2> QED
    BY <1>2, <2>4 DEF PushRead, database, nodes, TypeInv, TypeOK, PassShape
<1>3. CASE PushWrite(p)
  <2>1. push' \in [Procs -> PushType] /\ PushShape'
    <3>1. CASE p \in Passes
      <4> DEFINE r == [push[p] EXCEPT !.pc = "verify"]
      <4>1. r \in PushType /\ r.inst \in Instances /\ r.kind \in Kinds
        BY <1>3, <1>a DEF PushWrite, PushType
      <4>2. push' = [push EXCEPT ![p] = r]
        BY <1>3, <3>1 DEF PushWrite
      <4> QED
        BY <4>1, <4>2, <1>a, PushUpdate
    <3>2. CASE p \notin Passes
      <4>1. push[p].pc # "none"
        BY <1>3 DEF PushWrite
      <4>2. /\ KindDone(p) \in PushType
            /\ KindDone(p).pc = "locked"
            /\ KindDone(p).inst \in Instances
        BY <4>1, <1>a, KindDoneType
      <4>3. push' = [push EXCEPT ![p] = KindDone(p)]
        BY <1>3, <3>2 DEF PushWrite
      <4> QED
        BY <4>2, <4>3, <1>a, PushUpdate
    <3> QED
      BY <3>1, <3>2
  <2>2. node' \in NodeType
    BY <1>w, <1>d, <1>3 DEF PushWrite, Landed, Garbled
  <2>3. events' \in Nat
    BY <1>3, <1>b DEF PushWrite, Event
  <2> QED
    BY <1>3, <2>1, <2>2, <2>3 DEF PushWrite, database, TypeInv, TypeOK, PassShape, NodeType
<1>4. CASE PushFailed(p)
  <2>1. push' \in [Procs -> PushType] /\ PushShape'
    BY <1>4, <1>a, IdleTypes, PushUpdate DEF PushFailed, NoPush
  <2>2. node' \in NodeType
    BY <1>w, <1>c, <1>d, <1>4 DEF PushFailed, CallFails, Landed
  <2>3. events' \in Nat
    BY <1>4, <1>b DEF PushFailed, CallFails, Event
  <2>4. jobs' \in [Instances -> [Kinds -> Nat]]
    BY <1>4, <1>b DEF PushFailed, QueueJobs
  <2>5. lock' \in [Instances -> Procs \union {None}]
    BY <1>4, <1>b DEF PushFailed, Release
  <2> QED
    BY <1>4, <2>1, <2>2, <2>3, <2>4, <2>5
       DEF PushFailed, TypeInv, TypeOK, PassShape, NodeType
<1>5. CASE PushApplied(p)
  <2>1. push' \in [Procs -> PushType] /\ PushShape'
    BY <1>5, <1>a, IdleTypes, PushUpdate DEF PushApplied, NoPush
  <2>2. jobs' \in [Instances -> [Kinds -> Nat]]
    BY <1>5, <1>b DEF PushApplied, CloseJobs
  <2>3. lock' \in [Instances -> Procs \union {None}]
    BY <1>5, <1>b DEF PushApplied, Release
  <2> QED
    BY <1>5, <2>1, <2>2, <2>3 DEF PushApplied, nodes, TypeInv, TypeOK, PassShape
<1> QED
  BY <1>1, <1>2, <1>3, <1>4, <1>5 DEF PushStep

LEMMA TypeSync ==
    ASSUME TypeInv, NEW s \in Syncs, SyncStep(s)
    PROVE  TypeInv'
<1>a. /\ push \in [Procs -> PushType] /\ PushShape
      /\ task \in [Syncs -> TaskType]
      /\ task[s] \in TaskType
      /\ jobs \in [Instances -> [Kinds -> Nat]]
      /\ s \in Procs
  BY DEF TypeInv, TypeOK, Procs
<1>1. CASE SyncSelect(s)
  <2>1. {i \in Instances : row[i].enabled} \in SUBSET Instances
    OBVIOUS
  <2>2. task' \in [Syncs -> TaskType]
    BY <1>1, <1>a DEF SyncSelect, TaskType
  <2> QED
    BY <1>1, <2>2 DEF SyncSelect, database, nodes, TypeInv, TypeOK, PushShape, PassShape
<1>2. CASE SyncPush(s)
  <2>1. PICK i \in task[s].todo \ task[s].held :
           /\ task' = [task EXCEPT ![s].todo = @ \ {i}]
           /\ push' = [push EXCEPT ![s] = PushRequest(i, task[s].kinds)]
    BY <1>2 DEF SyncPush
  <2>2. task' \in [Syncs -> TaskType]
    BY <2>1, <1>a DEF TaskType
  <2>3. i \in Instances /\ task[s].kinds \in SUBSET Kinds
    BY <2>1, <1>a DEF TaskType
  <2>4. push' \in [Procs -> PushType] /\ PushShape'
    BY <2>1, <2>3, <1>a, IdleTypes, PushUpdate DEF PushRequest, NoPush
  <2> QED
    BY <1>2, <2>2, <2>4 DEF SyncPush, database, nodes, TypeInv, TypeOK, PassShape
<1>3. CASE SyncHold(s)
  <2> DEFINE r(i) == [task[s] EXCEPT !.pc = "queue", !.todo = task[s].todo \ {i},
                         !.inst = i, !.found = {k \in task[s].kinds : jobs[i][k] > 0}]
  <2>1. PICK i \in task[s].todo \intersect task[s].held :
           task' = [task EXCEPT ![s] = r(i)]
    BY <1>3 DEF SyncHold
  <2>2. /\ i \in Instances
        /\ {k \in task[s].kinds : jobs[i][k] > 0} \in SUBSET Kinds
    BY <1>a DEF TaskType
  <2>3. r(i) \in TaskType
    BY <2>2, <1>a DEF TaskType
  <2>4. task' \in [Syncs -> TaskType]
    BY <2>1, <2>3, <1>a
  <2> QED
    BY <1>3, <2>4 DEF SyncHold, database, nodes, TypeInv, TypeOK, PushShape, PassShape
<1>4. CASE SyncQueue(s)
  <2>1. task' \in [Syncs -> TaskType]
    BY <1>4, <1>a DEF SyncQueue, TaskType
  <2>2. jobs' \in [Instances -> [Kinds -> Nat]]
    <3> DEFINE i == task[s].inst
    <3>1. PICK reopened \in SUBSET {k \in task[s].found : jobs[i][k] = 0} :
             jobs' = [jobs EXCEPT ![i] = [k \in Kinds |->
                IF k \in reopened \/ k \in task[s].kinds \ task[s].found
                THEN jobs[i][k] + 1 ELSE jobs[i][k]]]
      BY <1>4 DEF SyncQueue
    <3>2. CASE i \in Instances
      <4>1. \A k \in Kinds : jobs[i][k] \in Nat /\ jobs[i][k] + 1 \in Nat
        BY <1>a, <3>2
      <4>2. [k \in Kinds |->
                IF k \in reopened \/ k \in task[s].kinds \ task[s].found
                THEN jobs[i][k] + 1 ELSE jobs[i][k]] \in [Kinds -> Nat]
        BY <4>1
      <4> QED
        BY <3>1, <4>2, <1>a
    <3>3. CASE i \notin Instances
      BY <3>1, <3>3, <1>a
    <3> QED
      BY <3>2, <3>3
  <2> QED
    BY <1>4, <2>1, <2>2 DEF SyncQueue, nodes, TypeInv, TypeOK, PushShape, PassShape
<1>5. CASE SyncDone(s)
  <2>1. task' \in [Syncs -> TaskType]
    BY <1>5, <1>a, IdleTypes DEF SyncDone
  <2> QED
    BY <1>5, <2>1 DEF SyncDone, database, nodes, TypeInv, TypeOK, PushShape, PassShape
<1> QED
  BY <1>1, <1>2, <1>3, <1>4, <1>5 DEF SyncStep

LEMMA TypeRetry ==
    ASSUME TypeInv, NEW r \in Retries, RetryStep(r)
    PROVE  TypeInv'
<1>a. /\ push \in [Procs -> PushType] /\ PushShape
      /\ retry \in [Retries -> RetryType]
      /\ retry[r] \in RetryType
      /\ r \in Procs
  BY DEF TypeInv, TypeOK, Procs
<1>1. CASE RetrySelect(r)
  <2>1. OpenRows \in SUBSET (Instances \X Kinds)
    BY DEF OpenRows
  <2>2. retry' \in [Retries -> RetryType]
    BY <1>1, <1>a, <2>1 DEF RetrySelect, RetryType
  <2> QED
    BY <1>1, <2>2 DEF RetrySelect, database, nodes, TypeInv, TypeOK, PushShape, PassShape
<1>2. CASE RetryPush(r)
  <2>1. PICK t \in retry[r].rows :
           /\ retry' = [retry EXCEPT ![r].rows = @ \ {t}]
           /\ push' = [push EXCEPT ![r] = PushRequest(t[1], {t[2]})]
    BY <1>2 DEF RetryPush
  <2>2. retry' \in [Retries -> RetryType]
    BY <2>1, <1>a DEF RetryType
  <2>3. t[1] \in Instances /\ {t[2]} \in SUBSET Kinds
    BY <2>1, <1>a DEF RetryType
  <2>4. push' \in [Procs -> PushType] /\ PushShape'
    BY <2>1, <2>3, <1>a, IdleTypes, PushUpdate DEF PushRequest, NoPush
  <2> QED
    BY <1>2, <2>2, <2>4 DEF RetryPush, database, nodes, TypeInv, TypeOK, PassShape
<1>3. CASE RetryDone(r)
  <2>1. retry' \in [Retries -> RetryType]
    BY <1>3, <1>a, IdleTypes DEF RetryDone
  <2> QED
    BY <1>3, <2>1 DEF RetryDone, database, nodes, TypeInv, TypeOK, PushShape, PassShape
<1> QED
  BY <1>1, <1>2, <1>3 DEF RetryStep

\* Replacing one pass by a well-shaped one keeps every pass so.
LEMMA PassUpdate ==
    ASSUME pass \in [Passes -> PassType], PassShape, NEW c \in Passes,
           NEW r \in PassType, pass' = [pass EXCEPT ![c] = r],
           r.pc \in {"begun", "pulled", "fix"} => r.inst \in Instances
    PROVE  pass' \in [Passes -> PassType] /\ PassShape'
  BY DEF PassShape

LEMMA NextInstanceType ==
    ASSUME pass \in [Passes -> PassType], PassShape, NEW c \in Passes,
           pass' = NextInstance(c)
    PROVE  pass' \in [Passes -> PassType] /\ PassShape'
<1> DEFINE r == [NoPass EXCEPT !.pc = "each", !.todo = pass[c].todo,
                               !.known = pass[c].known]
<1>1. r \in PassType /\ r.pc = "each"
  BY IdleTypes DEF PassType
<1>2. pass' = [pass EXCEPT ![c] = r]
  BY DEF NextInstance
<1> QED
  BY <1>1, <1>2, PassUpdate

LEMMA SortedType ==
    ASSUME push \in [Procs -> PushType], PushShape, NEW c \in Passes,
           push[c].pc # "none", NEW refused \in SUBSET Kinds,
           NEW failed \in SUBSET Kinds, Sorted(c, refused, failed)
    PROVE  push' \in [Procs -> PushType] /\ PushShape'
<1> DEFINE r == [KindDone(c) EXCEPT !.refused = push[c].refused \union refused,
                                    !.failed = push[c].failed \union failed]
<1>1. /\ c \in Procs
      /\ push[c] \in PushType
      /\ push[c].inst \in Instances
  BY DEF PushShape, Procs
<1>2. /\ KindDone(c) \in PushType
      /\ KindDone(c).pc = "locked"
      /\ KindDone(c).inst = push[c].inst
  BY <1>1, KindDoneType
<1>3. r \in PushType /\ r.pc = "locked" /\ r.inst \in Instances
  BY <1>1, <1>2 DEF PushType
<1>4. push' = [push EXCEPT ![c] = r]
  BY DEF Sorted
<1> QED
  BY <1>1, <1>3, <1>4, PushUpdate

LEMMA TypePass ==
    ASSUME TypeInv, NEW c \in Passes, PassStep(c)
    PROVE  TypeInv'
<1>a. /\ push \in [Procs -> PushType] /\ PushShape
      /\ pass \in [Passes -> PassType] /\ PassShape
      /\ pass[c] \in PassType
      /\ push[c] \in PushType
      /\ c \in Procs
  BY DEF TypeInv, TypeOK, Procs
<1>b. /\ desired \in [Kinds -> Nat]
      /\ outOfSync \in [Instances -> BOOLEAN]
      /\ node \in [Instances -> [Kinds -> Nat \union {Foreign}]]
      /\ lock \in [Instances -> Procs \union {None}]
      /\ events \in Nat
  BY DEF TypeInv, TypeOK
<1>v. ASSUME NEW bad \in BOOLEAN, Verdict(c, bad)
      PROVE  outOfSync' \in [Instances -> BOOLEAN]
  BY <1>v, <1>b DEF Verdict
<1>1. CASE PassStart(c)
  <2> DEFINE r == [pass[c] EXCEPT !.pc = "each",
                    !.todo = {i \in Instances : row[i].enabled /\ ~row[i].maintenance},
                    !.known = {i \in Instances : outOfSync[i]}]
  <2>1. r \in PassType /\ r.pc = "each"
    BY <1>a DEF PassType
  <2>2. pass' = [pass EXCEPT ![c] = r]
    BY <1>1 DEF PassStart
  <2>3. pass' \in [Passes -> PassType] /\ PassShape'
    BY <2>1, <2>2, <1>a, PassUpdate
  <2> QED
    BY <1>1, <2>3 DEF PassStart, database, nodes, TypeInv, TypeOK, PushShape
<1>2. CASE PassBegin(c)
  <2> DEFINE r(i) == [pass[c] EXCEPT !.pc = "begun", !.todo = pass[c].todo \ {i},
                                     !.inst = i, !.expected = Sections]
  <2>1. PICK i \in pass[c].todo : pass' = [pass EXCEPT ![c] = r(i)]
    BY <1>2 DEF PassBegin
  <2>2. i \in Instances /\ Sections \in Nat
    BY <1>a, <1>b DEF PassType, Sections
  <2>3. r(i) \in PassType /\ r(i).inst \in Instances
    BY <2>2, <1>a DEF PassType
  <2>4. pass' \in [Passes -> PassType] /\ PassShape'
    BY <2>1, <2>3, <1>a, PassUpdate
  <2> QED
    BY <1>2, <2>4 DEF PassBegin, database, nodes, TypeInv, TypeOK, PushShape
<1>3. CASE PassPull(c)
  <2>1. pass' \in [Passes -> PassType] /\ PassShape'
    <3>1. CASE pass' = NextInstance(c)
      BY <3>1, <1>a, NextInstanceType
    <3> DEFINE i == pass[c].inst
               r == [pass[c] EXCEPT !.pc = "pulled", !.seen = node[i]]
    <3>2. CASE pass' = [pass EXCEPT ![c] = r]
      <4>1. i \in Instances
        BY <1>3, <1>a DEF PassPull, PassShape
      <4>2. r \in PassType /\ r.inst \in Instances
        BY <4>1, <1>a, <1>b DEF PassType
      <4> QED
        BY <3>2, <4>2, <1>a, PassUpdate
    <3> QED
      BY <1>3, <3>1, <3>2 DEF PassPull
  <2>2. events' \in Nat
    BY <1>3, <1>b DEF PassPull, Event
  <2> QED
    BY <1>3, <2>1, <2>2 DEF PassPull, database, nodes, TypeInv, TypeOK, PushShape
<1>4. CASE PassDiff(c)
  <2> DEFINE differences == {k \in Kinds : Expected(c, k) # pass[c].seen[k]}
  <2>1. CASE Verdict(c, FALSE) /\ pass' = NextInstance(c) /\ UNCHANGED push
    <3>1. outOfSync' \in [Instances -> BOOLEAN]
      BY <2>1, <1>v
    <3>2. pass' \in [Passes -> PassType] /\ PassShape'
      BY <2>1, <1>a, NextInstanceType
    <3> QED
      BY <1>4, <2>1, <3>1, <3>2 DEF PassDiff, nodes, TypeInv, TypeOK, PushShape
  <2> DEFINE r == [pass[c] EXCEPT !.pc = "fix", !.seen = NoPass.seen]
  <2>2. CASE /\ pass' = [pass EXCEPT ![c] = r]
             /\ push' = [push EXCEPT ![c] = PushRequest(pass[c].inst, differences)]
             /\ UNCHANGED outOfSync
    <3>1. pass[c].inst \in Instances
      BY <1>4, <1>a DEF PassDiff, PassShape
    <3>2. NoPass.seen \in [Kinds -> Nat \union {Foreign}]
      BY DEF NoPass
    <3>3. r \in PassType /\ r.inst \in Instances
      BY <3>1, <3>2, <1>a DEF PassType
    <3>4. pass' \in [Passes -> PassType] /\ PassShape'
      BY <2>2, <3>3, <1>a, PassUpdate
    <3>5. PushRequest(pass[c].inst, differences) \in PushType
      BY <3>1, IdleTypes
    <3>6. push' \in [Procs -> PushType] /\ PushShape'
      BY <2>2, <3>1, <3>5, <1>a, PushUpdate DEF PushRequest, NoPush
    <3> QED
      BY <1>4, <2>2, <3>4, <3>6 DEF PassDiff, nodes, TypeInv, TypeOK
  <2> QED
    BY <1>4, <2>1, <2>2 DEF PassDiff
<1>5. CASE PassVerify(c)
  <2> DEFINE k == push[c].kind
             refused == IF node[push[c].inst][k] = Expected(c, k) THEN {} ELSE {k}
  <2>1. push[c].pc = "verify" /\ Sorted(c, refused, {})
    BY <1>5 DEF PassVerify
  <2>2. refused \in SUBSET Kinds
    BY <2>1, <1>a DEF PushShape
  <2>3. push[c].pc # "none" /\ {} \in SUBSET Kinds
    BY <2>1
  <2> HIDE DEF refused
  <2>4. push' \in [Procs -> PushType] /\ PushShape'
    BY <2>1, <2>2, <2>3, <1>a, SortedType
  <2> QED
    BY <1>5, <2>4 DEF PassVerify, database, nodes, TypeInv, TypeOK, PassShape
<1>6. CASE PassPushFailed(c)
  <2>1. /\ push[c].kind \in Kinds
        /\ push[c].inst \in Instances
        /\ push[c].pc # "none"
    BY <1>6, <1>a DEF PassPushFailed, PushShape
  <2>2. push' \in [Procs -> PushType] /\ PushShape'
    BY <1>6, <2>1, <1>a, SortedType DEF PassPushFailed
  <2>3. node' \in NodeType
    <3>1. push[c].value \in Nat \union {Foreign}
      BY <1>a DEF PushType
    <3>2. node \in NodeType
      BY <1>b DEF NodeType
    <3>3. Landed(c) \in NodeType
      BY <2>1, <3>1, <3>2, WriteType DEF Landed
    <3> QED
      BY <1>6, <3>2, <3>3 DEF PassPushFailed, CallFails
  <2>4. events' \in Nat
    BY <1>6, <1>b DEF PassPushFailed, CallFails, Event
  <2> QED
    BY <1>6, <2>2, <2>3, <2>4
       DEF PassPushFailed, database, TypeInv, TypeOK, PassShape, NodeType
<1>7. CASE PassSettle(c)
  <2>1. outOfSync' \in [Instances -> BOOLEAN]
    BY <1>7, <1>v DEF PassSettle
  <2>2. lock' \in [Instances -> Procs \union {None}]
    BY <1>7, <1>b DEF PassSettle, Release
  <2>3. push' \in [Procs -> PushType] /\ PushShape'
    BY <1>7, <1>a, IdleTypes, PushUpdate DEF PassSettle, NoPush
  <2>4. pass' \in [Passes -> PassType] /\ PassShape'
    BY <1>7, <1>a, NextInstanceType DEF PassSettle
  <2> QED
    BY <1>7, <2>1, <2>2, <2>3, <2>4 DEF PassSettle, nodes, TypeInv, TypeOK
<1>8. CASE PassDone(c)
  <2>1. pass' \in [Passes -> PassType] /\ PassShape'
    BY <1>8, <1>a, IdleTypes, PassUpdate DEF PassDone, NoPass
  <2> QED
    BY <1>8, <2>1 DEF PassDone, database, nodes, TypeInv, TypeOK, PushShape
<1> QED
  BY <1>1, <1>2, <1>3, <1>4, <1>5, <1>6, <1>7, <1>8 DEF PassStep

LEMMA TypeOperator ==
    ASSUME TypeInv, Operator
    PROVE  TypeInv'
<1>a. /\ push \in [Procs -> PushType] /\ PushShape
      /\ task \in [Syncs -> TaskType]
      /\ retry \in [Retries -> RetryType]
      /\ desired \in [Kinds -> Nat]
      /\ row \in [Instances -> [enabled : BOOLEAN, maintenance : BOOLEAN]]
      /\ jobs \in [Instances -> [Kinds -> Nat]]
      /\ events \in Nat
  BY DEF TypeInv, TypeOK
<1>1. ASSUME NEW s \in Syncs, NEW ks \in EditScopes, Edit(s, ks)
      PROVE  TypeInv'
  <2>1. desired' \in [Kinds -> Nat]
    BY <1>1, <1>a DEF Edit, Edited
  <2>2. ks \in SUBSET Kinds
    BY DEF EditScopes
  <2>3. [NoTask EXCEPT !.pc = "start", !.kinds = ks] \in TaskType
    BY <2>2, IdleTypes DEF TaskType
  <2>4. task' \in [Syncs -> TaskType]
    BY <1>1, <2>3, <1>a DEF Edit
  <2> QED
    BY <1>1, <2>1, <2>4 DEF Edit, nodes, TypeInv, TypeOK, PushShape, PassShape
<1>2. ASSUME NEW s \in Syncs, NEW i \in Instances, ManualPush(s, i)
      PROVE  TypeInv'
  <2>1. [NoTask EXCEPT !.pc = "each", !.kinds = Kinds] \in TaskType
    BY IdleTypes DEF TaskType
  <2>2. task' \in [Syncs -> TaskType]
    BY <1>2, <2>1, <1>a DEF ManualPush
  <2>3. s \in Procs
    BY DEF Procs
  <2>4. push' \in [Procs -> PushType] /\ PushShape'
    BY <1>2, <2>3, <1>a, IdleTypes, PushUpdate DEF ManualPush, PushRequest, NoPush
  <2>5. events' \in Nat
    BY <1>2, <1>a DEF ManualPush, Event
  <2> QED
    BY <1>2, <2>2, <2>4, <2>5 DEF ManualPush, database, nodes, TypeInv, TypeOK, PassShape
<1>3. ASSUME NEW i \in Instances, HoldBack(i) \/ Disable(i) \/ Enable(i)
      PROVE  TypeInv'
  <2>1. row' \in [Instances -> [enabled : BOOLEAN, maintenance : BOOLEAN]]
    BY <1>3, <1>a DEF HoldBack, Disable, Enable
  <2>2. events' \in Nat
    BY <1>3, <1>a DEF HoldBack, Disable, Enable, Event
  <2> QED
    BY <1>3, <2>1, <2>2
       DEF HoldBack, Disable, Enable, nodes, procs, TypeInv, TypeOK, PushShape, PassShape
<1>4. ASSUME NEW i \in Instances, NEW r \in Retries, EndMaintenance(i, r)
      PROVE  TypeInv'
  <2>1. row' \in [Instances -> [enabled : BOOLEAN, maintenance : BOOLEAN]]
    BY <1>4, <1>a DEF EndMaintenance
  <2>2. retry' \in [Retries -> RetryType]
    <3> retry[r] \in RetryType
      BY <1>a
    <3>1. [retry[r] EXCEPT !.pc = "start"] \in RetryType
      BY DEF RetryType
    <3>2. retry' = retry \/ retry' = [retry EXCEPT ![r] = [retry[r] EXCEPT !.pc = "start"]]
      BY <1>4 DEF EndMaintenance
    <3> QED
      BY <1>a, <3>1, <3>2
  <2> QED
    BY <1>4, <2>1, <2>2 DEF EndMaintenance, nodes, TypeInv, TypeOK, PushShape, PassShape
<1>5. ASSUME NEW s \in Syncs, ForceSync(s)
      PROVE  TypeInv'
  <2>1. [NoTask EXCEPT !.pc = "start", !.kinds = Kinds] \in TaskType
    BY IdleTypes DEF TaskType
  <2>2. task' \in [Syncs -> TaskType]
    BY <1>5, <2>1, <1>a DEF ForceSync
  <2>3. events' \in Nat
    BY <1>5, <1>a DEF ForceSync, Event
  <2> QED
    BY <1>5, <2>2, <2>3
       DEF ForceSync, database, nodes, TypeInv, TypeOK, PushShape, PassShape
<1>6. ASSUME NEW i \in Instances, NEW k \in Kinds, DiscardJob(i, k)
      PROVE  TypeInv'
  <2>1. jobs' \in [Instances -> [Kinds -> Nat]]
    <3>1. jobs[i][k] - 1 \in Nat
      BY <1>6, <1>a DEF DiscardJob
    <3> QED
      BY <1>6, <3>1, <1>a DEF DiscardJob
  <2>2. events' \in Nat
    BY <1>6, <1>a DEF DiscardJob, Event
  <2> QED
    BY <1>6, <2>1, <2>2
       DEF DiscardJob, nodes, procs, TypeInv, TypeOK, PushShape, PassShape
<1> QED
  BY <1>1, <1>2, <1>3, <1>4, <1>5, <1>6 DEF Operator

LEMMA TypeEnvironment ==
    ASSUME TypeInv, Environment
    PROVE  TypeInv'
<1>a. /\ push \in [Procs -> PushType] /\ PushShape
      /\ pass \in [Passes -> PassType] /\ PassShape
      /\ node \in NodeType
      /\ lock \in [Instances -> Procs \union {None}]
      /\ up \in [Instances -> BOOLEAN]
      /\ events \in Nat
  BY DEF TypeInv, TypeOK, NodeType
<1>1. ASSUME NEW i \in Instances, GoDown(i) \/ ComeBack(i)
      PROVE  TypeInv'
  <2>1. up' \in [Instances -> BOOLEAN]
    BY <1>1, <1>a DEF GoDown, ComeBack
  <2>2. events' \in Nat
    BY <1>1, <1>a DEF GoDown, ComeBack, Event
  <2> QED
    BY <1>1, <2>1, <2>2
       DEF GoDown, ComeBack, database, procs, TypeInv, TypeOK, PushShape, PassShape
<1>2. ASSUME NEW i \in Instances, NEW k \in Kinds, Tamper(i, k)
      PROVE  TypeInv'
  <2>1. node' \in NodeType
    BY <1>2, <1>a, WriteType DEF Tamper
  <2>2. events' \in Nat
    BY <1>2, <1>a DEF Tamper, Event
  <2> QED
    BY <1>2, <2>1, <2>2
       DEF Tamper, database, procs, TypeInv, TypeOK, PushShape, PassShape, NodeType
<1>3. ASSUME NEW c \in Passes, PassDeadline(c)
      PROVE  TypeInv'
  <2>1. c \in Procs
    BY DEF Procs
  <2>2. push' \in [Procs -> PushType] /\ PushShape'
    BY <1>3, <2>1, <1>a, IdleTypes, PushUpdate DEF PassDeadline, NoPush
  <2>3. pass' \in [Passes -> PassType] /\ PassShape'
    BY <1>3, <1>a, IdleTypes, PassUpdate DEF PassDeadline, NoPass
  <2>4. lock' \in [Instances -> Procs \union {None}]
    BY <1>3, <1>a DEF PassDeadline
  <2>5. events' \in Nat
    BY <1>3, <1>a DEF PassDeadline, Event
  <2> QED
    BY <1>3, <2>2, <2>3, <2>4, <2>5 DEF PassDeadline, database, nodes, TypeInv, TypeOK
<1>4. CASE Crash
  <2>1. /\ task' \in [Syncs -> TaskType]
        /\ retry' \in [Retries -> RetryType]
        /\ pass' \in [Passes -> PassType]
        /\ push' \in [Procs -> PushType]
    BY <1>4, IdleTypes DEF Crash
  <2>2. PushShape' /\ PassShape'
    BY <1>4 DEF Crash, PushShape, PassShape, NoPush, NoPass
  <2>3. events' \in Nat
    BY <1>4, <1>a DEF Crash, Event
  <2>4. lock' \in [Instances -> Procs \union {None}]
    BY <1>4 DEF Crash
  <2> QED
    BY <1>4, <2>1, <2>2, <2>3, <2>4 DEF Crash, database, nodes, TypeInv, TypeOK
<1> QED
  BY <1>1, <1>2, <1>3, <1>4 DEF Environment

\* No step gives a variable a value outside its type, for any number of instances and
\* processes and any of the faults: the records of tasks, passes and pushes are always
\* complete, and what a process is about to write is a revision of a kind of a node.
THEOREM TypeInvariance == Spec => []TypeInv
<1>1. TypeInv /\ [Next]_vars => TypeInv'
  <2> SUFFICES ASSUME TypeInv, [Next]_vars PROVE TypeInv'
    OBVIOUS
  <2>1. CASE Next
    BY <2>1, TypePush, TypeSync, TypeRetry, TypePass, TypeOperator, TypeEnvironment
       DEF Next
  <2>2. CASE UNCHANGED vars
    BY <2>2 DEF vars, database, nodes, procs, TypeInv, TypeOK, PushShape, PassShape
  <2> QED
    BY <2>1, <2>2
<1> QED
  BY TypeInit, <1>1, PTL DEF Spec

\* TypeOK, which the runs check on small instances, holds for every instance.
THEOREM TypeCorrect == Spec => []TypeOK
<1>1. TypeInv => TypeOK
  BY DEF TypeInv
<1> QED
  BY TypeInvariance, <1>1, PTL

----------------------------------------------------------------------------
(***************************************************************************)
(* The push lock.                                                          *)
(***************************************************************************)

\* LockMatchesHolder is inductive once it is known that nothing replaces a push under
\* way: a sync task pushes only while it walks its instances, a pass only while it
\* corrects one.
PushOwned ==
    /\ \A s \in Syncs : push[s].pc # "none" => task[s].pc = "each"
    /\ \A c \in Passes : push[c].pc # "none" => pass[c].pc = "fix"

LockInv == LockMatchesHolder /\ PushOwned

LEMMA LockInit == Init => LockInv
  BY ConstantsAssumption
     DEF Init, LockInv, LockMatchesHolder, PushOwned, NoPush, Critical, Procs

\* A push that neither enters nor leaves its critical section leaves the lock right.
LEMMA LockKept ==
    ASSUME LockMatchesHolder, push \in [Procs -> PushType], NEW p \in Procs, NEW r,
           push' = [push EXCEPT ![p] = r], lock' = lock,
           r.pc \in Critical <=> push[p].pc \in Critical,
           r.pc \in Critical => r.inst = push[p].inst
    PROVE  LockMatchesHolder'
  BY DEF LockMatchesHolder

\* Whoever leaves it and releases leaves the lock right.
LEMMA LockReleased ==
    ASSUME LockMatchesHolder, push \in [Procs -> PushType],
           lock \in [Instances -> Procs \union {None}], NEW p \in Procs,
           push[p].pc \in Critical, push' = [push EXCEPT ![p] = NoPush], Release(p)
    PROVE  LockMatchesHolder'
<1> SUFFICES ASSUME NEW i \in Instances, NEW q \in Procs
             PROVE  lock'[i] = q <=> push'[q].pc \in Critical /\ push'[q].inst = i
  BY DEF LockMatchesHolder
<1>1. lock[i] = q <=> push[q].pc \in Critical /\ push[q].inst = i
  BY DEF LockMatchesHolder
<1>2. lock'[i] = IF i = push[p].inst THEN None ELSE lock[i]
  BY DEF Release
<1>3. None \notin Procs
  BY ConstantsAssumption
<1>4. CASE q = p
  <2>1. push'[q].pc \notin Critical
    BY <1>4 DEF NoPush, Critical
  <2>2. lock'[i] # q
    BY <1>1, <1>2, <1>3, <1>4
  <2> QED
    BY <2>1, <2>2
<1>5. CASE q # p
  <2>1. push'[q] = push[q]
    BY <1>5
  <2>2. CASE i = push[p].inst
    <3>1. lock[i] = p
      BY <2>2 DEF LockMatchesHolder
    <3> QED
      BY <1>1, <1>2, <1>3, <1>5, <2>1, <2>2, <3>1
  <2>3. CASE i # push[p].inst
    BY <1>1, <1>2, <2>1, <2>3
  <2> QED
    BY <2>2, <2>3
<1> QED
  BY <1>4, <1>5

LEMMA LockPush ==
    ASSUME TypeInv, LockInv, NEW p \in Procs, PushLock(p) \/ PushStep(p)
    PROVE  LockInv'
<1>a. /\ push \in [Procs -> PushType]
      /\ push[p] \in PushType
      /\ lock \in [Instances -> Procs \union {None}]
      /\ LockMatchesHolder
      /\ push[p].pc # "none" => push[p].inst \in Instances
  BY DEF TypeInv, TypeOK, LockInv, PushShape
<1>o. ASSUME NEW r, push[p].pc # "none", UNCHANGED <<task, pass>>,
             push' = [push EXCEPT ![p] = r]
      PROVE  PushOwned'
  BY <1>o, <1>a DEF LockInv, PushOwned, Procs
<1>n. ASSUME UNCHANGED <<task, pass>>, push' = [push EXCEPT ![p] = NoPush]
      PROVE  PushOwned'
  BY <1>n, <1>a DEF LockInv, PushOwned, Procs, NoPush
<1>1. CASE PushLock(p)
  <2> DEFINE r == [push[p] EXCEPT !.pc = "locked"]
             i == push[p].inst
  <2>1. /\ push[p].pc = "wait"
        /\ lock[i] = None
        /\ lock' = [lock EXCEPT ![i] = p]
        /\ push' = [push EXCEPT ![p] = r]
        /\ UNCHANGED <<task, pass>>
    BY <1>1 DEF PushLock
  <2>2. i \in Instances /\ r.pc = "locked" /\ r.inst = i
    BY <2>1, <1>a DEF PushType
  <2> HIDE DEF r, i
  <2>3. LockMatchesHolder'
    <3> SUFFICES ASSUME NEW j \in Instances, NEW q \in Procs
                 PROVE  lock'[j] = q <=> push'[q].pc \in Critical /\ push'[q].inst = j
      BY DEF LockMatchesHolder
    <3>1. lock[j] = q <=> push[q].pc \in Critical /\ push[q].inst = j
      BY <1>a DEF LockMatchesHolder
    <3>2. lock'[j] = IF j = i THEN p ELSE lock[j]
      BY <2>1, <1>a
    <3>3. push'[q] = IF q = p THEN r ELSE push[q]
      BY <2>1, <1>a
    <3>4. lock[i] # q
      BY <2>1, ConstantsAssumption
    <3>5. push[p].pc \notin Critical
      BY <2>1 DEF Critical
    <3> QED
      BY <3>1, <3>2, <3>3, <3>4, <3>5, <2>2 DEF Critical
  <2> QED
    BY <2>1, <2>3, <1>o DEF LockInv
<1>2. CASE PushRead(p)
  <2>1. PICK k \in push[p].todo :
           push' = [push EXCEPT ![p] =
                      [push[p] EXCEPT !.pc = "write", !.kind = k, !.value = desired[k]]]
    BY <1>2 DEF PushRead
  <2> DEFINE r == [push[p] EXCEPT !.pc = "write", !.kind = k, !.value = desired[k]]
  <2>2. r.pc = "write" /\ r.inst = push[p].inst
    BY <1>a DEF PushType
  <2>3. push[p].pc = "locked" /\ UNCHANGED <<task, pass, lock>>
    BY <1>2 DEF PushRead
  <2> HIDE DEF r
  <2>4. LockMatchesHolder'
    BY <2>1, <2>2, <2>3, <1>a, LockKept DEF r, Critical
  <2> QED
    BY <2>1, <2>3, <2>4, <1>o DEF LockInv
<1>3. CASE PushWrite(p)
  <2>1. push[p].pc = "write" /\ UNCHANGED <<task, pass, lock>>
    BY <1>3 DEF PushWrite
  <2>2. PICK r : /\ push' = [push EXCEPT ![p] = r]
                 /\ r.pc \in Critical
                 /\ r.inst = push[p].inst
    <3>1. CASE p \in Passes
      <4> DEFINE r == [push[p] EXCEPT !.pc = "verify"]
      <4>1. r.pc = "verify" /\ r.inst = push[p].inst
        BY <1>a DEF PushType
      <4> QED
        BY <1>3, <3>1, <4>1 DEF PushWrite, Critical
    <3>2. CASE p \notin Passes
      <4>1. push' = [push EXCEPT ![p] = KindDone(p)]
        BY <1>3, <3>2 DEF PushWrite
      <4> QED
        BY <4>1, <1>a, KindDoneType DEF Critical
    <3> QED
      BY <3>1, <3>2
  <2>3. LockMatchesHolder'
    BY <2>1, <2>2, <1>a, LockKept DEF Critical
  <2> QED
    BY <2>1, <2>2, <2>3, <1>o DEF LockInv
<1>4. CASE PushFailed(p) \/ PushApplied(p)
  <2>1. /\ push[p].pc \in Critical
        /\ push' = [push EXCEPT ![p] = NoPush]
        /\ Release(p)
        /\ UNCHANGED <<task, pass>>
    BY <1>4 DEF PushFailed, PushApplied, ReadingBack, Critical
  <2> QED
    BY <2>1, <1>a, <1>n, LockReleased DEF LockInv
<1> QED
  BY <1>1, <1>2, <1>3, <1>4 DEF PushStep

\* A process that is not pushing asks for the lock of an instance, or stays out.
LEMMA LockRequested ==
    ASSUME LockMatchesHolder, push \in [Procs -> PushType], NEW p \in Procs,
           push[p].pc = "none", NEW i, NEW ks, lock' = lock,
           push' = [push EXCEPT ![p] = PushRequest(i, ks)]
    PROVE  LockMatchesHolder'
  BY LockKept DEF PushRequest, NoPush, Critical

LEMMA LockSync ==
    ASSUME TypeInv, LockInv, NEW s \in Syncs, SyncStep(s)
    PROVE  LockInv'
<1>a. /\ push \in [Procs -> PushType]
      /\ task \in [Syncs -> TaskType]
      /\ LockMatchesHolder
      /\ s \in Procs
      /\ \A t \in Syncs : push[t].pc # "none" => task[t].pc = "each"
      /\ \A c \in Passes : push[c].pc # "none" => pass[c].pc = "fix"
  BY DEF TypeInv, TypeOK, LockInv, Procs, PushOwned
<1>1. CASE SyncPush(s)
  <2>1. PICK i \in task[s].todo \ task[s].held :
           /\ task' = [task EXCEPT ![s].todo = @ \ {i}]
           /\ push' = [push EXCEPT ![s] = PushRequest(i, task[s].kinds)]
    BY <1>1 DEF SyncPush
  <2>2. push[s].pc = "none" /\ task[s].pc = "each" /\ UNCHANGED <<lock, pass>>
    BY <1>1 DEF SyncPush
  <2>3. LockMatchesHolder'
    BY <2>1, <2>2, <1>a, LockRequested
  <2>4. \A t \in Syncs : task'[t].pc = task[t].pc
    BY <2>1, <1>a DEF TaskType
  <2>5. \A q \in Procs : q # s => push'[q] = push[q]
    BY <2>1, <1>a
  <2>6. PushOwned'
    BY <2>2, <2>4, <2>5, <1>a, ConstantsAssumption DEF PushOwned, Procs
  <2> QED
    BY <2>3, <2>6 DEF LockInv
<1>2. CASE SyncSelect(s) \/ SyncHold(s) \/ SyncQueue(s) \/ SyncDone(s)
  <2>1. UNCHANGED <<push, lock, pass>>
    BY <1>2 DEF SyncSelect, SyncHold, SyncQueue, SyncDone
  <2>2. \A t \in Syncs : t # s => task'[t] = task[t]
    BY <1>2, <1>a DEF SyncSelect, SyncHold, SyncQueue, SyncDone
  <2>3. push[s].pc # "none" => task'[s].pc = "each"
    <3>1. CASE SyncSelect(s) \/ SyncQueue(s)
      BY <3>1, <1>a DEF SyncSelect, SyncQueue
    <3>2. CASE SyncHold(s) \/ SyncDone(s)
      BY <3>2 DEF SyncHold, SyncDone
    <3> QED
      BY <1>2, <3>1, <3>2
  <2> QED
    BY <2>1, <2>2, <2>3, <1>a DEF LockInv, LockMatchesHolder, PushOwned
<1> QED
  BY <1>1, <1>2 DEF SyncStep

LEMMA LockRetry ==
    ASSUME TypeInv, LockInv, NEW r \in Retries, RetryStep(r)
    PROVE  LockInv'
<1>a. /\ push \in [Procs -> PushType]
      /\ LockMatchesHolder
      /\ r \in Procs
  BY DEF TypeInv, TypeOK, LockInv, Procs
<1>1. CASE RetryPush(r)
  <2>1. PICK t \in retry[r].rows :
           push' = [push EXCEPT ![r] = PushRequest(t[1], {t[2]})]
    BY <1>1 DEF RetryPush
  <2>2. push[r].pc = "none" /\ UNCHANGED <<task, pass, lock>>
    BY <1>1 DEF RetryPush
  <2>3. LockMatchesHolder'
    BY <2>1, <2>2, <1>a, LockRequested
  <2>4. \A q \in Procs : q # r => push'[q] = push[q]
    BY <2>1, <1>a
  <2>5. PushOwned'
    BY <2>2, <2>4, ConstantsAssumption DEF LockInv, PushOwned, Procs
  <2> QED
    BY <2>3, <2>5 DEF LockInv
<1>2. CASE RetrySelect(r) \/ RetryDone(r)
  BY <1>2 DEF RetrySelect, RetryDone, LockInv, LockMatchesHolder, PushOwned
<1> QED
  BY <1>1, <1>2 DEF RetryStep

\* A step of a pass that leaves pushes and locks alone, and only moves a pass that is
\* not correcting.
LEMMA LockPassMoves ==
    ASSUME LockInv, pass \in [Passes -> PassType], NEW c \in Passes, NEW r,
           pass[c].pc # "fix", pass' = [pass EXCEPT ![c] = r],
           UNCHANGED <<task, push, lock>>
    PROVE  LockInv'
<1>1. push[c].pc = "none"
  BY DEF LockInv, PushOwned
<1>2. \A d \in Passes : d # c => pass'[d] = pass[d]
  OBVIOUS
<1> QED
  BY <1>1, <1>2 DEF LockInv, LockMatchesHolder, PushOwned

LEMMA LockSorted ==
    ASSUME TypeInv, LockInv, NEW c \in Passes, NEW refused, NEW failed,
           push[c].pc \in Critical, Sorted(c, refused, failed),
           UNCHANGED <<task, pass, lock>>
    PROVE  LockInv'
<1>a. /\ push \in [Procs -> PushType]
      /\ push[c] \in PushType
      /\ LockMatchesHolder
      /\ c \in Procs
  BY DEF TypeInv, TypeOK, LockInv, Procs
<1> DEFINE r == [KindDone(c) EXCEPT !.refused = push[c].refused \union refused,
                                    !.failed = push[c].failed \union failed]
<1>1. push' = [push EXCEPT ![c] = r]
  BY DEF Sorted
<1>2. r.pc = "locked" /\ r.inst = push[c].inst
  <2>1. /\ KindDone(c) \in PushType
        /\ KindDone(c).pc = "locked"
        /\ KindDone(c).inst = push[c].inst
    BY <1>a, KindDoneType
  <2> QED
    BY <2>1 DEF PushType
<1> HIDE DEF r
<1>3. LockMatchesHolder'
  BY <1>1, <1>2, <1>a, LockKept DEF Critical
<1>4. \A q \in Procs : q # c => push'[q] = push[q]
  BY <1>1, <1>a
<1>5. PushOwned'
  BY <1>4, ConstantsAssumption DEF LockInv, PushOwned, Critical, Procs
<1> QED
  BY <1>3, <1>5 DEF LockInv

LEMMA LockPass ==
    ASSUME TypeInv, LockInv, NEW c \in Passes, PassStep(c)
    PROVE  LockInv'
<1>a. /\ push \in [Procs -> PushType]
      /\ pass \in [Passes -> PassType]
      /\ lock \in [Instances -> Procs \union {None}]
      /\ LockMatchesHolder
      /\ c \in Procs
      /\ push[c].pc # "none" => pass[c].pc = "fix"
  BY DEF TypeInv, TypeOK, LockInv, PushOwned, Procs
<1>1. CASE PassStart(c) \/ PassBegin(c) \/ PassPull(c) \/ PassDone(c)
  <2>1. pass[c].pc # "fix" /\ UNCHANGED <<task, push, lock>>
    BY <1>1 DEF PassStart, PassBegin, PassPull, PassDone
  <2>2. PICK r : pass' = [pass EXCEPT ![c] = r]
    BY <1>1 DEF PassStart, PassBegin, PassPull, PassDone, NextInstance
  <2> QED
    BY <2>1, <2>2, <1>a, LockPassMoves
<1>2. CASE PassDiff(c)
  <2>1. pass[c].pc = "pulled" /\ push[c].pc = "none" /\ UNCHANGED <<task, lock>>
    BY <1>2, <1>a DEF PassDiff
  <2>2. CASE pass' = NextInstance(c) /\ UNCHANGED push
    BY <2>1, <2>2, <1>a, LockPassMoves DEF NextInstance
  <2>3. CASE \E ks \in SUBSET Kinds :
               /\ pass' = [pass EXCEPT ![c] =
                             [pass[c] EXCEPT !.pc = "fix", !.seen = NoPass.seen]]
               /\ push' = [push EXCEPT ![c] = PushRequest(pass[c].inst, ks)]
    <3>1. PICK ks \in SUBSET Kinds :
             /\ pass' = [pass EXCEPT ![c] =
                           [pass[c] EXCEPT !.pc = "fix", !.seen = NoPass.seen]]
             /\ push' = [push EXCEPT ![c] = PushRequest(pass[c].inst, ks)]
      BY <2>3
    <3>2. LockMatchesHolder'
      BY <2>1, <3>1, <1>a, LockRequested
    <3>3. pass'[c].pc = "fix"
      BY <3>1, <1>a DEF PassType
    <3>4. /\ \A q \in Procs : q # c => push'[q] = push[q]
          /\ \A d \in Passes : d # c => pass'[d] = pass[d]
      BY <3>1, <1>a
    <3>5. PushOwned'
      BY <2>1, <3>3, <3>4, ConstantsAssumption DEF LockInv, PushOwned, Procs
    <3> QED
      BY <3>2, <3>5 DEF LockInv
  <2> QED
    BY <1>2, <2>2, <2>3 DEF PassDiff
<1>3. CASE PassVerify(c)
  BY <1>3, LockSorted DEF PassVerify, Critical
<1>4. CASE PassPushFailed(c)
  BY <1>4, LockSorted DEF PassPushFailed, Critical
<1>5. CASE PassSettle(c)
  <2>1. /\ push[c].pc \in Critical
        /\ push' = [push EXCEPT ![c] = NoPush]
        /\ Release(c)
        /\ UNCHANGED task
    BY <1>5 DEF PassSettle, ReadingBack, Critical
  <2>2. LockMatchesHolder'
    BY <2>1, <1>a, LockReleased
  <2>3. push'[c].pc = "none" /\ \A q \in Procs : q # c => push'[q] = push[q]
    BY <2>1, <1>a DEF NoPush
  <2>4. \A d \in Passes : d # c => pass'[d] = pass[d]
    BY <1>5 DEF PassSettle, NextInstance
  <2>5. PushOwned'
    BY <2>1, <2>3, <2>4, ConstantsAssumption DEF LockInv, PushOwned, Procs
  <2> QED
    BY <2>2, <2>5 DEF LockInv
<1> QED
  BY <1>1, <1>2, <1>3, <1>4, <1>5 DEF PassStep

LEMMA LockOperator ==
    ASSUME TypeInv, LockInv, Operator
    PROVE  LockInv'
<1>a. /\ push \in [Procs -> PushType]
      /\ task \in [Syncs -> TaskType]
      /\ LockMatchesHolder
      /\ \A t \in Syncs : push[t].pc # "none" => task[t].pc = "each"
      /\ \A c \in Passes : push[c].pc # "none" => pass[c].pc = "fix"
  BY DEF TypeInv, TypeOK, LockInv, PushOwned
<1>1. ASSUME NEW s \in Syncs, NEW ks \in EditScopes, Edit(s, ks)
      PROVE  LockInv'
  <2>1. push[s].pc = "none" /\ UNCHANGED <<push, lock, pass>>
    BY <1>1, <1>a DEF Edit
  <2>2. \A t \in Syncs : t # s => task'[t] = task[t]
    BY <1>1 DEF Edit
  <2> QED
    BY <2>1, <2>2, <1>a DEF LockInv, LockMatchesHolder, PushOwned
<1>2. ASSUME NEW s \in Syncs, NEW i \in Instances, ManualPush(s, i)
      PROVE  LockInv'
  <2>1. /\ task[s].pc = "idle"
        /\ push[s].pc = "none"
        /\ UNCHANGED <<lock, pass>>
        /\ push' = [push EXCEPT ![s] = PushRequest(i, Kinds)]
        /\ s \in Procs
    BY <1>2, <1>a DEF ManualPush, Procs
  <2>2. task'[s].pc = "each" /\ \A t \in Syncs : t # s => task'[t] = task[t]
    BY <1>2, <1>a DEF ManualPush, NoTask
  <2>3. LockMatchesHolder'
    BY <2>1, <1>a, LockRequested
  <2>4. \A q \in Procs : q # s => push'[q] = push[q]
    BY <2>1, <1>a
  <2>5. PushOwned'
    BY <2>1, <2>2, <2>4, <1>a, ConstantsAssumption DEF PushOwned, Procs
  <2> QED
    BY <2>3, <2>5 DEF LockInv
<1>3. ASSUME NEW i \in Instances, HoldBack(i) \/ Disable(i) \/ Enable(i)
      PROVE  LockInv'
  BY <1>3 DEF HoldBack, Disable, Enable, procs, LockInv, LockMatchesHolder, PushOwned
<1>4. ASSUME NEW i \in Instances, NEW r \in Retries, EndMaintenance(i, r)
      PROVE  LockInv'
  BY <1>4 DEF EndMaintenance, LockInv, LockMatchesHolder, PushOwned
<1>5. ASSUME NEW s \in Syncs, ForceSync(s)
      PROVE  LockInv'
  <2>1. push[s].pc = "none" /\ UNCHANGED <<push, lock, pass>>
    BY <1>5, <1>a DEF ForceSync
  <2>2. \A t \in Syncs : t # s => task'[t] = task[t]
    BY <1>5 DEF ForceSync
  <2> QED
    BY <2>1, <2>2, <1>a DEF LockInv, LockMatchesHolder, PushOwned
<1>6. ASSUME NEW i \in Instances, NEW k \in Kinds, DiscardJob(i, k)
      PROVE  LockInv'
  BY <1>6 DEF DiscardJob, procs, LockInv, LockMatchesHolder, PushOwned
<1> QED
  BY <1>1, <1>2, <1>3, <1>4, <1>5, <1>6 DEF Operator

LEMMA LockEnvironment ==
    ASSUME TypeInv, LockInv, Environment
    PROVE  LockInv'
<1>a. /\ push \in [Procs -> PushType]
      /\ lock \in [Instances -> Procs \union {None}]
      /\ LockMatchesHolder
      /\ PushOwned
  BY DEF TypeInv, TypeOK, LockInv
<1>1. CASE \/ \E i \in Instances : GoDown(i) \/ ComeBack(i)
           \/ \E i \in Instances, k \in Kinds : Tamper(i, k)
  BY <1>1 DEF GoDown, ComeBack, Tamper, procs, LockInv, LockMatchesHolder, PushOwned
<1>2. ASSUME NEW c \in Passes, PassDeadline(c)
      PROVE  LockInv'
  <2>1. /\ lock' = [i \in Instances |-> IF lock[i] = c THEN None ELSE lock[i]]
        /\ push' = [push EXCEPT ![c] = NoPush]
        /\ pass' = [pass EXCEPT ![c] = NoPass]
        /\ UNCHANGED task
        /\ c \in Procs
    BY <1>2 DEF PassDeadline, Procs
  <2>2. push'[c].pc = "none" /\ \A q \in Procs : q # c => push'[q] = push[q]
    BY <2>1, <1>a DEF NoPush
  <2>3. LockMatchesHolder'
    <3> SUFFICES ASSUME NEW i \in Instances, NEW q \in Procs
                 PROVE  lock'[i] = q <=> push'[q].pc \in Critical /\ push'[q].inst = i
      BY DEF LockMatchesHolder
    <3>1. lock[i] = q <=> push[q].pc \in Critical /\ push[q].inst = i
      BY <1>a DEF LockMatchesHolder
    <3>2. lock'[i] = IF lock[i] = c THEN None ELSE lock[i]
      BY <2>1
    <3> QED
      BY <2>2, <3>1, <3>2, ConstantsAssumption DEF Critical
  <2>4. PushOwned'
    <3>1. \A d \in Passes : d # c => pass'[d] = pass[d]
      BY <2>1
    <3> QED
      BY <2>1, <2>2, <3>1, <1>a, ConstantsAssumption DEF PushOwned, Procs
  <2> QED
    BY <2>3, <2>4 DEF LockInv
<1>3. CASE Crash
  BY <1>3, ConstantsAssumption
     DEF Crash, LockInv, LockMatchesHolder, PushOwned, NoPush, Critical, Procs
<1> QED
  BY <1>1, <1>2, <1>3 DEF Environment

\* LockMatchesHolder with what makes it inductive, for any number of processes.
THEOREM LockInvariance == Spec => []LockInv
<1>1. TypeInv /\ LockInv /\ [Next]_vars => LockInv'
  <2> SUFFICES ASSUME TypeInv, LockInv, [Next]_vars PROVE LockInv'
    OBVIOUS
  <2>1. CASE Next
    BY <2>1, LockPush, LockSync, LockRetry, LockPass, LockOperator, LockEnvironment
       DEF Next
  <2>2. CASE UNCHANGED vars
    BY <2>2 DEF vars, procs, LockInv, LockMatchesHolder, PushOwned
  <2> QED
    BY <2>1, <2>2
<1> QED
  BY LockInit, TypeInvariance, <1>1, PTL DEF Spec

\* However many tasks, retry passes and reconciliation passes push to a node, and
\* whatever ends them (the node's answer, an error, the deadline, a restart), the
\* node's push lock is held by exactly the one inside, and by nobody when all are out.
THEOREM LockCorrect == Spec => []LockMatchesHolder
<1>1. LockInv => LockMatchesHolder
  BY DEF LockInv
<1> QED
  BY LockInvariance, <1>1, PTL

-----------------------------------------------------------------------------
(***************************************************************************)
(* HubSync implements ReplicaSet.  A write carries the revision its push   *)
(* read inside the lock.  Between the read and the write the node can only *)
(* be given something by another writer, which the lock keeps out, or be   *)
(* tampered with, which leaves it Foreign; and the desired revision can    *)
(* only grow.  So the write lands no older than the node.                  *)
(***************************************************************************)

\* No node is ahead of the hub ...
NodeBound == \A i \in Instances, k \in Kinds : node[i][k] <= desired[k]

\* ... and none is ahead of the write on its way to it.
WriteFresh ==
    \A p \in Procs :
        push[p].pc = "write" =>
            /\ node[push[p].inst][push[p].kind] <= push[p].value
            /\ push[p].value <= desired[push[p].kind]

FreshInv == NodeBound /\ WriteFresh

\* No write starts: those under way were under way before.
NoNewWrite == \A q \in Procs : push'[q].pc = "write" => push'[q] = push[q]

LEMMA FreshInit == Init => FreshInv /\ Replica!Init
  BY DEF Init, FreshInv, NodeBound, WriteFresh, NoPush, Foreign,
         Replica!Init, Replica!Foreign

LEMMA Elsewhere ==
    ASSUME FreshInv, NoNewWrite, UNCHANGED <<node, desired>>
    PROVE  FreshInv' /\ UNCHANGED Replica!vars
  BY DEF FreshInv, NodeBound, WriteFresh, NoNewWrite, Replica!vars

LEMMA Spoils ==
    ASSUME TypeInv, FreshInv, NoNewWrite, UNCHANGED desired,
           NEW i \in Instances, NEW k \in Kinds,
           node' = [node EXCEPT ![i][k] = Foreign]
    PROVE  FreshInv' /\ Replica!Next
<1>a. /\ node \in NodeType
      /\ desired \in [Kinds -> Nat]
      /\ push \in [Procs -> PushType]
      /\ PushShape
  BY DEF TypeInv, TypeOK, NodeType
<1>1. \A j \in Instances, m \in Kinds :
         node'[j][m] = IF j = i /\ m = k THEN Foreign ELSE node[j][m]
  BY <1>a DEF NodeType
<1>2. NodeBound'
  BY <1>1, <1>a DEF FreshInv, NodeBound, Foreign
<1>3. WriteFresh'
  <2> SUFFICES ASSUME NEW q \in Procs, push'[q].pc = "write"
               PROVE  /\ node'[push'[q].inst][push'[q].kind] <= push'[q].value
                      /\ push'[q].value <= desired'[push'[q].kind]
    BY DEF WriteFresh
  <2>1. /\ push'[q] = push[q]
        /\ push[q].inst \in Instances
        /\ push[q].kind \in Kinds
        /\ push[q].value \in Nat
    BY <1>a DEF NoNewWrite, PushShape, PushType
  <2>2. /\ node[push[q].inst][push[q].kind] <= push[q].value
        /\ push[q].value <= desired[push[q].kind]
    BY <2>1 DEF FreshInv, WriteFresh
  <2> QED
    BY <1>1, <2>1, <2>2 DEF Foreign
<1>4. Replica!Drift(i, k)
  BY DEF Replica!Drift, Replica!Foreign, Foreign
<1> QED
  BY <1>2, <1>3, <1>4 DEF FreshInv, Replica!Next

\* The lock makes p the only process writing to its node.
LEMMA Lands ==
    ASSUME TypeInv, LockMatchesHolder, FreshInv, UNCHANGED desired,
           NEW p \in Procs, push[p].pc = "write", node' = Landed(p),
           NoNewWrite, push'[p].pc # "write"
    PROVE  FreshInv' /\ Replica!Next
<1> DEFINE i == push[p].inst
           k == push[p].kind
           v == push[p].value
<1>a. /\ node \in NodeType
      /\ desired \in [Kinds -> Nat]
      /\ push \in [Procs -> PushType]
      /\ PushShape
  BY DEF TypeInv, TypeOK, NodeType
<1>b. i \in Instances /\ k \in Kinds /\ v \in Nat
  BY <1>a DEF PushShape, PushType
<1>c. node[i][k] <= v /\ v <= desired[k]
  BY DEF FreshInv, WriteFresh
<1>1. node' = [node EXCEPT ![i][k] = v]
  BY DEF Landed
<1> HIDE DEF i, k, v
<1>2. \A j \in Instances, m \in Kinds :
         node'[j][m] = IF j = i /\ m = k THEN v ELSE node[j][m]
  BY <1>1, <1>a DEF NodeType
<1>3. NodeBound'
  BY <1>2, <1>a, <1>c DEF FreshInv, NodeBound
<1>4. WriteFresh'
  <2> SUFFICES ASSUME NEW q \in Procs, push'[q].pc = "write"
               PROVE  /\ node'[push'[q].inst][push'[q].kind] <= push'[q].value
                      /\ push'[q].value <= desired'[push'[q].kind]
    BY DEF WriteFresh
  <2>1. /\ push'[q] = push[q]
        /\ push[q].inst \in Instances
        /\ push[q].kind \in Kinds
        /\ q # p
    BY <1>a DEF NoNewWrite, PushShape
  <2>2. /\ node[push[q].inst][push[q].kind] <= push[q].value
        /\ push[q].value <= desired[push[q].kind]
    BY <2>1 DEF FreshInv, WriteFresh
  <2>3. push[q].inst # i
    <3>1. lock[i] = p
      BY <1>b DEF LockMatchesHolder, Critical, i
    <3>2. lock[push[q].inst] = q
      BY <2>1 DEF LockMatchesHolder, Critical
    <3> QED
      BY <2>1, <3>1, <3>2
  <2> QED
    BY <1>2, <2>1, <2>2, <2>3
<1>5. Replica!Apply(i, k)
  <2>1. v \in 0..desired[k] /\ v >= node[i][k]
    <3>1. desired[k] \in Nat /\ node[i][k] \in Int
      BY <1>a, <1>b DEF NodeType, Foreign
    <3> QED
      BY <3>1, <1>b, <1>c
  <2> QED
    BY <2>1, <1>1 DEF Replica!Apply
<1> QED
  BY <1>b, <1>3, <1>4, <1>5 DEF FreshInv, Replica!Next

LEMMA FreshPush ==
    ASSUME TypeInv, LockInv, FreshInv, NEW p \in Procs, PushLock(p) \/ PushStep(p)
    PROVE  FreshInv' /\ [Replica!Next]_(Replica!vars)
<1>a. /\ push \in [Procs -> PushType]
      /\ push[p] \in PushType
      /\ desired \in [Kinds -> Nat]
      /\ LockMatchesHolder
      /\ PushShape
  BY DEF TypeInv, TypeOK, LockInv
<1>n. ASSUME NEW r, push' = [push EXCEPT ![p] = r], r.pc # "write"
      PROVE  NoNewWrite /\ push'[p].pc # "write"
  BY <1>n, <1>a DEF NoNewWrite
<1>p. NoPush.pc # "write"
  BY DEF NoPush
<1>1. CASE PushLock(p)
  <2> DEFINE r == [push[p] EXCEPT !.pc = "locked"]
  <2>1. /\ push' = [push EXCEPT ![p] = r]
        /\ UNCHANGED <<node, desired>>
    BY <1>1 DEF PushLock, nodes, database
  <2>2. r.pc # "write"
    BY <1>a DEF PushType
  <2> QED
    BY <2>1, <2>2, <1>n, Elsewhere
<1>2. CASE PushRead(p)
  <2>1. PICK k \in push[p].todo :
           push' = [push EXCEPT ![p] =
                      [push[p] EXCEPT !.pc = "write", !.kind = k, !.value = desired[k]]]
    BY <1>2 DEF PushRead
  <2>2. UNCHANGED <<node, desired>>
    BY <1>2 DEF PushRead, nodes, database
  <2>3. /\ k \in Kinds
        /\ push[p].inst \in Instances
    BY <1>2, <1>a DEF PushRead, PushType, PushShape
  <2>4. /\ push'[p].kind = k
        /\ push'[p].value = desired[k]
        /\ push'[p].inst = push[p].inst
    BY <2>1, <1>a DEF PushType
  <2>5. \A q \in Procs : q # p => push'[q] = push[q]
    BY <2>1, <1>a
  <2>6. NodeBound'
    BY <2>2 DEF FreshInv, NodeBound
  <2>7. WriteFresh'
    <3> SUFFICES ASSUME NEW q \in Procs, push'[q].pc = "write"
                 PROVE  /\ node'[push'[q].inst][push'[q].kind] <= push'[q].value
                        /\ push'[q].value <= desired'[push'[q].kind]
      BY DEF WriteFresh
    <3>1. CASE q = p
      BY <3>1, <2>2, <2>3, <2>4, <1>a DEF FreshInv, NodeBound
    <3>2. CASE q # p
      BY <3>2, <2>2, <2>5 DEF FreshInv, WriteFresh
    <3> QED
      BY <3>1, <3>2
  <2> QED
    BY <2>2, <2>6, <2>7 DEF FreshInv, Replica!vars
<1>3. CASE PushWrite(p)
  <2>1. NoNewWrite /\ push'[p].pc # "write"
    <3>1. CASE p \in Passes
      <4> DEFINE r == [push[p] EXCEPT !.pc = "verify"]
      <4>1. push' = [push EXCEPT ![p] = r]
        BY <1>3, <3>1 DEF PushWrite
      <4>2. r.pc # "write"
        BY <1>a DEF PushType
      <4> QED
        BY <4>1, <4>2, <1>n
    <3>2. CASE p \notin Passes
      <4>1. push' = [push EXCEPT ![p] = KindDone(p)]
        BY <1>3, <3>2 DEF PushWrite
      <4> QED
        BY <4>1, <1>a, <1>n, KindDoneType
    <3> QED
      BY <3>1, <3>2
  <2>2. push[p].pc = "write" /\ UNCHANGED desired
    BY <1>3 DEF PushWrite, database
  <2>3. CASE node' = Landed(p)
    BY <2>1, <2>2, <2>3, <1>a, Lands
  <2>4. CASE node' = Garbled(p)
    <3>1. push[p].inst \in Instances /\ push[p].kind \in Kinds
      BY <2>2, <1>a DEF PushShape
    <3> QED
      BY <2>1, <2>2, <2>4, <3>1, Spoils DEF Garbled
  <2> QED
    BY <1>3, <2>3, <2>4 DEF PushWrite
<1>4. CASE PushFailed(p)
  <2>1. NoNewWrite /\ push'[p].pc # "write" /\ UNCHANGED desired
    BY <1>4, <1>n, <1>p DEF PushFailed
  <2>2. CASE UNCHANGED node
    BY <2>1, <2>2, Elsewhere
  <2>3. CASE push[p].pc = "write" /\ node' = Landed(p)
    BY <2>1, <2>3, <1>a, Lands
  <2> QED
    BY <1>4, <2>2, <2>3 DEF PushFailed, CallFails
<1>5. CASE PushApplied(p)
  <2>1. NoNewWrite /\ UNCHANGED <<node, desired>>
    BY <1>5, <1>n, <1>p DEF PushApplied, nodes
  <2> QED
    BY <2>1, Elsewhere
<1> QED
  BY <1>1, <1>2, <1>3, <1>4, <1>5 DEF PushStep

\* What tasks and retry passes do themselves is to ask for a push.
LEMMA FreshRequest ==
    ASSUME TypeInv, FreshInv, NEW p \in Procs, UNCHANGED <<node, desired>>,
           NEW i, NEW ks,
           push' = push \/ push' = [push EXCEPT ![p] = PushRequest(i, ks)]
    PROVE  FreshInv' /\ [Replica!Next]_(Replica!vars)
<1>1. push \in [Procs -> PushType]
  BY DEF TypeInv, TypeOK
<1>2. NoNewWrite
  BY <1>1 DEF NoNewWrite, PushRequest, NoPush
<1> QED
  BY <1>2, Elsewhere

LEMMA FreshSync ==
    ASSUME TypeInv, FreshInv, NEW s \in Syncs, SyncStep(s)
    PROVE  FreshInv' /\ [Replica!Next]_(Replica!vars)
<1>1. s \in Procs /\ UNCHANGED <<node, desired>>
  BY DEF SyncStep, SyncSelect, SyncPush, SyncHold, SyncQueue, SyncDone,
         database, nodes, Procs
<1>2. \E i, ks : push' = push \/ push' = [push EXCEPT ![s] = PushRequest(i, ks)]
  BY DEF SyncStep, SyncSelect, SyncPush, SyncHold, SyncQueue, SyncDone
<1> QED
  BY <1>1, <1>2, FreshRequest

LEMMA FreshRetry ==
    ASSUME TypeInv, FreshInv, NEW r \in Retries, RetryStep(r)
    PROVE  FreshInv' /\ [Replica!Next]_(Replica!vars)
<1>1. r \in Procs /\ UNCHANGED <<node, desired>>
  BY DEF RetryStep, RetrySelect, RetryPush, RetryDone, database, nodes, Procs
<1>2. \E i, ks : push' = push \/ push' = [push EXCEPT ![r] = PushRequest(i, ks)]
  BY DEF RetryStep, RetrySelect, RetryPush, RetryDone
<1> QED
  BY <1>1, <1>2, FreshRequest

LEMMA FreshPass ==
    ASSUME TypeInv, LockInv, FreshInv, NEW c \in Passes, PassStep(c)
    PROVE  FreshInv' /\ [Replica!Next]_(Replica!vars)
<1>a. /\ c \in Procs
      /\ push \in [Procs -> PushType]
      /\ push[c] \in PushType
      /\ LockMatchesHolder
  BY DEF TypeInv, TypeOK, LockInv, Procs
<1>s. ASSUME NEW refused, NEW failed, Sorted(c, refused, failed)
      PROVE  NoNewWrite /\ push'[c].pc # "write"
  <2> DEFINE r == [KindDone(c) EXCEPT !.refused = push[c].refused \union refused,
                                      !.failed = push[c].failed \union failed]
  <2>1. push' = [push EXCEPT ![c] = r]
    BY <1>s DEF Sorted
  <2>2. KindDone(c) \in PushType /\ KindDone(c).pc = "locked"
    BY <1>a, KindDoneType
  <2>3. r.pc = "locked"
    BY <2>2 DEF PushType
  <2> HIDE DEF r
  <2> QED
    BY <2>1, <2>3, <1>a DEF NoNewWrite
<1>1. CASE PassStart(c) \/ PassBegin(c) \/ PassPull(c) \/ PassDone(c)
  <2>1. UNCHANGED <<node, desired, push>>
    BY <1>1 DEF PassStart, PassBegin, PassPull, PassDone, database, nodes
  <2> QED
    BY <2>1, Elsewhere DEF NoNewWrite
<1>2. CASE PassDiff(c)
  <2>1. UNCHANGED <<node, desired>>
    BY <1>2 DEF PassDiff, nodes
  <2>2. \E i, ks : push' = push \/ push' = [push EXCEPT ![c] = PushRequest(i, ks)]
    BY <1>2 DEF PassDiff
  <2> QED
    BY <2>1, <2>2, <1>a, FreshRequest
<1>3. CASE PassVerify(c)
  <2>1. UNCHANGED <<node, desired>> /\ NoNewWrite
    BY <1>3, <1>s DEF PassVerify, nodes, database
  <2> QED
    BY <2>1, Elsewhere
<1>4. CASE PassPushFailed(c)
  <2>1. NoNewWrite /\ push'[c].pc # "write" /\ UNCHANGED desired
    BY <1>4, <1>s DEF PassPushFailed, database
  <2>2. CASE UNCHANGED node
    BY <2>1, <2>2, Elsewhere
  <2>3. CASE push[c].pc = "write" /\ node' = Landed(c)
    BY <2>1, <2>3, <1>a, Lands
  <2> QED
    BY <1>4, <2>2, <2>3 DEF PassPushFailed, CallFails
<1>5. CASE PassSettle(c)
  <2>1. UNCHANGED <<node, desired>> /\ NoNewWrite
    BY <1>5, <1>a DEF PassSettle, nodes, NoNewWrite, NoPush
  <2> QED
    BY <2>1, Elsewhere
<1> QED
  BY <1>1, <1>2, <1>3, <1>4, <1>5 DEF PassStep

LEMMA FreshOperator ==
    ASSUME TypeInv, FreshInv, Operator
    PROVE  FreshInv' /\ [Replica!Next]_(Replica!vars)
<1>a. /\ node \in NodeType
      /\ desired \in [Kinds -> Nat]
      /\ push \in [Procs -> PushType]
      /\ PushShape
  BY DEF TypeInv, TypeOK, NodeType
<1>1. ASSUME NEW s \in Syncs, NEW ks \in EditScopes, Edit(s, ks)
      PROVE  FreshInv' /\ [Replica!Next]_(Replica!vars)
  <2>1. /\ desired' = Edited(ks)
        /\ UNCHANGED <<node, push>>
        /\ ks \in SUBSET Kinds
    BY <1>1 DEF Edit, nodes, EditScopes
  <2>2. \A k \in Kinds : desired'[k] \in Nat /\ desired[k] <= desired'[k]
    BY <2>1, <1>a DEF Edited
  <2>3. NodeBound'
    BY <2>1, <2>2, <1>a DEF FreshInv, NodeBound, NodeType, Foreign
  <2>4. WriteFresh'
    <3> SUFFICES ASSUME NEW q \in Procs, push[q].pc = "write"
                 PROVE  /\ node[push[q].inst][push[q].kind] <= push[q].value
                        /\ push[q].value <= desired'[push[q].kind]
      BY <2>1 DEF WriteFresh
    <3>1. push[q].kind \in Kinds /\ push[q].value \in Nat
      BY <1>a DEF PushShape, PushType
    <3> QED
      BY <3>1, <2>2, <1>a DEF FreshInv, WriteFresh
  <2>5. Replica!Edit(ks)
    BY <2>1 DEF Replica!Edit, Edited
  <2> QED
    BY <2>1, <2>3, <2>4, <2>5 DEF FreshInv, Replica!Next
<1>2. ASSUME NEW s \in Syncs, NEW i \in Instances, ManualPush(s, i)
      PROVE  FreshInv' /\ [Replica!Next]_(Replica!vars)
  <2>1. /\ s \in Procs
        /\ UNCHANGED <<node, desired>>
        /\ push' = [push EXCEPT ![s] = PushRequest(i, Kinds)]
    BY <1>2 DEF ManualPush, nodes, database, Procs
  <2> QED
    BY <2>1, FreshRequest
<1>3. CASE \/ \E i \in Instances : HoldBack(i) \/ Disable(i) \/ Enable(i)
           \/ \E i \in Instances, r \in Retries : EndMaintenance(i, r)
           \/ \E s \in Syncs : ForceSync(s)
           \/ \E i \in Instances, k \in Kinds : DiscardJob(i, k)
  <2>1. UNCHANGED <<node, desired, push>>
    BY <1>3 DEF HoldBack, Disable, Enable, EndMaintenance, ForceSync, DiscardJob,
                nodes, database, procs
  <2> QED
    BY <2>1, Elsewhere DEF NoNewWrite
<1> QED
  BY <1>1, <1>2, <1>3 DEF Operator

LEMMA FreshEnvironment ==
    ASSUME TypeInv, FreshInv, Environment
    PROVE  FreshInv' /\ [Replica!Next]_(Replica!vars)
<1>a. push \in [Procs -> PushType]
  BY DEF TypeInv, TypeOK
<1>1. CASE \/ \E i \in Instances : GoDown(i) \/ ComeBack(i)
           \/ \E c \in Passes : PassDeadline(c)
           \/ Crash
  <2>1. UNCHANGED <<node, desired>>
    BY <1>1 DEF GoDown, ComeBack, PassDeadline, Crash, nodes, database
  <2>2. NoNewWrite
    BY <1>1, <1>a DEF GoDown, ComeBack, PassDeadline, Crash, procs, NoNewWrite, NoPush
  <2> QED
    BY <2>1, <2>2, Elsewhere
<1>2. ASSUME NEW i \in Instances, NEW k \in Kinds, Tamper(i, k)
      PROVE  FreshInv' /\ [Replica!Next]_(Replica!vars)
  <2>1. /\ UNCHANGED desired
        /\ NoNewWrite
        /\ node' = [node EXCEPT ![i][k] = Foreign]
    BY <1>2 DEF Tamper, database, procs, NoNewWrite
  <2> QED
    BY <2>1, Spoils
<1> QED
  BY <1>1, <1>2 DEF Environment

LEMMA FreshStep ==
    ASSUME TypeInv, LockInv, FreshInv, [Next]_vars
    PROVE  FreshInv' /\ [Replica!Next]_(Replica!vars)
<1>1. CASE Next
  BY <1>1, FreshPush, FreshSync, FreshRetry, FreshPass, FreshOperator, FreshEnvironment
     DEF Next
<1>2. CASE UNCHANGED vars
  BY <1>2, Elsewhere DEF vars, database, nodes, procs, NoNewWrite
<1> QED
  BY <1>1, <1>2

LEMMA FreshInvariance == Spec => []FreshInv
<1>1. TypeInv /\ LockInv /\ FreshInv /\ [Next]_vars => FreshInv'
  BY FreshStep
<1> QED
  BY FreshInit, TypeInvariance, LockInvariance, <1>1, PTL DEF Spec

\* Whatever order edits, background pushes, retries and corrections run in, for any
\* number of nodes and processes, the hub never puts an older revision on a node than
\* the one it holds: every step of the engine is a step of ReplicaSet or none.
THEOREM Refinement == Spec => NeverBackwards
<1>1. TypeInv /\ LockInv /\ FreshInv /\ [Next]_vars => [Replica!Next]_(Replica!vars)
  BY FreshStep
<1> QED
  BY FreshInit, TypeInvariance, LockInvariance, FreshInvariance, <1>1, PTL
     DEF Spec, NeverBackwards, Replica!Spec
=============================================================================

-------------------------- MODULE HubSync_delivery --------------------------
(***************************************************************************)
(* Proofs that maintenance keeps new work from a node, and that no edit is  *)
(* forgotten between its commit and the node.                              *)
(*                                                                         *)
(* Both rest on every decision to push looking at the switch.  For the     *)
(* second, the switch is set when no push to the node is decided on, and a *)
(* push that has sent a kind is sure that the node holds the newest        *)
(* revision or that a push decided on since will bring it - which is what  *)
(* lets it close the open jobs of that kind.                               *)
(***************************************************************************)
EXTENDS HubSync_proofs

Pushers == Syncs \union Retries

----------------------------------------------------------------------------
(***************************************************************************)
(* Maintenance.                                                            *)
(***************************************************************************)

\* Nothing is under way to a node in maintenance and nothing will be started: a task
\* that still has it to visit saw the switch.
LeftAlone ==
    \A i \in Instances :
        row[i].maintenance =>
            /\ \A p \in Procs : push[p].inst # i
            /\ \A s \in Syncs : i \in task[s].todo => i \in task[s].held
            /\ \A r \in Retries, k \in Kinds : <<i, k>> \notin retry[r].rows
            /\ \A c \in Passes : i \notin pass[c].todo /\ pass[c].inst # i

LEMMA AloneInit == Init => LeftAlone
  BY DEF Init, LeftAlone

\* What a process does to its push alone is no harm if it stays at its node or leaves.
LEMMA AlonePushMoves ==
    ASSUME LeftAlone, \A q \in Procs : push'[q].inst \in {push[q].inst, None},
           UNCHANGED <<row, task, retry, pass>>
    PROVE  LeftAlone'
  BY ConstantsAssumption DEF LeftAlone

LEMMA AlonePush ==
    ASSUME TypeInv, LeftAlone, NEW p \in Procs, PushLock(p) \/ PushStep(p)
    PROVE  LeftAlone'
<1>a. push \in [Procs -> PushType] /\ push[p] \in PushType
  BY DEF TypeInv, TypeOK
<1>1. UNCHANGED <<row, task, retry, pass>>
  BY DEF PushLock, PushStep, PushRead, PushWrite, PushFailed, PushApplied, database
<1>2. \A q \in Procs : push'[q].inst \in {push[q].inst, None}
  <2>1. CASE PushLock(p)
    BY <2>1, <1>a DEF PushLock, PushType
  <2>2. CASE PushRead(p)
    BY <2>2, <1>a DEF PushRead, PushType
  <2>3. CASE PushWrite(p)
    <3>1. KindDone(p).inst = push[p].inst
      BY <1>a, KindDoneType
    <3>2. \/ push' = [push EXCEPT ![p].pc = "verify"]
          \/ push' = [push EXCEPT ![p] = KindDone(p)]
      BY <2>3 DEF PushWrite
    <3> QED
      BY <3>1, <3>2, <1>a DEF PushType
  <2>4. CASE PushFailed(p) \/ PushApplied(p)
    BY <2>4, <1>a DEF PushFailed, PushApplied, NoPush
  <2> QED
    BY <2>1, <2>2, <2>3, <2>4 DEF PushStep
<1> QED
  BY <1>1, <1>2, AlonePushMoves

LEMMA AloneSync ==
    ASSUME TypeInv, LeftAlone, NEW s \in Syncs, SyncStep(s)
    PROVE  LeftAlone'
<1>a. /\ task \in [Syncs -> TaskType]
      /\ task[s] \in TaskType
      /\ push \in [Procs -> PushType]
      /\ s \in Procs
  BY DEF TypeInv, TypeOK, Procs
<1>1. CASE SyncSelect(s)
  BY <1>1, <1>a DEF SyncSelect, LeftAlone, database, nodes, TaskType
<1>2. CASE SyncPush(s)
  BY <1>2, <1>a DEF SyncPush, LeftAlone, database, nodes, TaskType, PushRequest, NoPush
<1>3. CASE SyncHold(s)
  BY <1>3, <1>a DEF SyncHold, LeftAlone, database, nodes, TaskType
<1>4. CASE SyncQueue(s)
  BY <1>4, <1>a DEF SyncQueue, LeftAlone, nodes, TaskType
<1>5. CASE SyncDone(s)
  BY <1>5, <1>a DEF SyncDone, LeftAlone, database, nodes, NoTask
<1> QED
  BY <1>1, <1>2, <1>3, <1>4, <1>5 DEF SyncStep

LEMMA AloneRetry ==
    ASSUME TypeInv, LeftAlone, NEW r \in Retries, RetryStep(r)
    PROVE  LeftAlone'
<1>a. /\ retry \in [Retries -> RetryType]
      /\ retry[r] \in RetryType
      /\ push \in [Procs -> PushType]
      /\ r \in Procs
  BY DEF TypeInv, TypeOK, Procs
<1>1. CASE RetrySelect(r)
  BY <1>1, <1>a DEF RetrySelect, OpenRows, LeftAlone, database, nodes
<1>2. CASE RetryPush(r)
  <2>1. PICK t \in retry[r].rows :
           /\ retry' = [retry EXCEPT ![r].rows = @ \ {t}]
           /\ push' = [push EXCEPT ![r] = PushRequest(t[1], {t[2]})]
    BY <1>2 DEF RetryPush
  <2>2. t \in Instances \X Kinds /\ UNCHANGED <<row, task, pass>>
    BY <1>2, <1>a DEF RetryPush, RetryType, database
  <2>3. \A i \in Instances : row[i].maintenance => t[1] # i
    BY <2>2 DEF LeftAlone
  <2>4. \A q \in Procs : push'[q].inst = IF q = r THEN t[1] ELSE push[q].inst
    BY <2>1, <1>a DEF PushRequest, NoPush
  <2>5. \A q \in Retries : retry'[q].rows \subseteq retry[q].rows
    BY <2>1, <1>a DEF RetryType
  <2> QED
    BY <2>2, <2>3, <2>4, <2>5 DEF LeftAlone
<1>3. CASE RetryDone(r)
  BY <1>3, <1>a DEF RetryDone, LeftAlone, database, nodes, NoRetry
<1> QED
  BY <1>1, <1>2, <1>3 DEF RetryStep

LEMMA AlonePass ==
    ASSUME TypeInv, LeftAlone, NEW c \in Passes, PassStep(c)
    PROVE  LeftAlone'
<1>a. /\ pass \in [Passes -> PassType]
      /\ pass[c] \in PassType
      /\ push \in [Procs -> PushType]
      /\ push[c] \in PushType
      /\ PassShape
      /\ c \in Procs
      /\ None \notin Instances
  BY ConstantsAssumption DEF TypeInv, TypeOK, Procs
<1>n. ASSUME pass' = NextInstance(c)
      PROVE  \A q \in Passes : /\ pass'[q].todo = pass[q].todo
                               /\ pass'[q].inst \in {pass[q].inst, None}
  BY <1>n, <1>a DEF NextInstance, NoPass, PassType
<1>s. ASSUME NEW refused, NEW failed, Sorted(c, refused, failed), UNCHANGED <<row, task, retry, pass>>
      PROVE  LeftAlone'
  <2>1. KindDone(c) \in PushType /\ KindDone(c).inst = push[c].inst
    BY <1>a, KindDoneType
  <2>2. \A q \in Procs : push'[q].inst = push[q].inst
    BY <2>1, <1>s, <1>a DEF Sorted, PushType
  <2> QED
    BY <2>2, <1>s, AlonePushMoves
<1>1. CASE PassStart(c)
  BY <1>1, <1>a DEF PassStart, LeftAlone, database, nodes, PassType
<1>2. CASE PassBegin(c)
  BY <1>2, <1>a DEF PassBegin, LeftAlone, database, nodes, PassType
<1>3. CASE PassPull(c)
  <2>1. \A q \in Passes : /\ pass'[q].todo = pass[q].todo
                          /\ pass'[q].inst \in {pass[q].inst, None}
    <3>1. CASE pass' = NextInstance(c)
      BY <3>1, <1>n
    <3>2. CASE pass' = [pass EXCEPT ![c] = [@ EXCEPT !.pc = "pulled", !.seen = node[pass[c].inst]]]
      BY <3>2, <1>a DEF PassType
    <3> QED
      BY <1>3, <3>1, <3>2 DEF PassPull
  <2> QED
    BY <1>3, <2>1, <1>a DEF PassPull, LeftAlone, database
<1>4. CASE PassDiff(c)
  <2>1. \A q \in Passes : /\ pass'[q].todo = pass[q].todo
                          /\ pass'[q].inst \in {pass[q].inst, None}
    <3>1. CASE pass' = NextInstance(c)
      BY <3>1, <1>n
    <3>2. CASE pass' = [pass EXCEPT ![c] = [@ EXCEPT !.pc = "fix", !.seen = NoPass.seen]]
      BY <3>2, <1>a DEF PassType
    <3> QED
      BY <1>4, <3>1, <3>2 DEF PassDiff
  <2>2. \A q \in Procs : push'[q].inst \in {push[q].inst, pass[c].inst}
    BY <1>4, <1>a DEF PassDiff, PushRequest, NoPush
  <2>3. UNCHANGED <<row, task, retry>>
    BY <1>4 DEF PassDiff
  <2> QED
    BY <2>1, <2>2, <2>3, <1>a DEF LeftAlone
<1>5. CASE PassVerify(c)
  BY <1>5, <1>s DEF PassVerify, database
<1>6. CASE PassPushFailed(c)
  BY <1>6, <1>s DEF PassPushFailed, database
<1>7. CASE PassSettle(c)
  <2>1. \A q \in Passes : /\ pass'[q].todo = pass[q].todo
                          /\ pass'[q].inst \in {pass[q].inst, None}
    BY <1>7, <1>n DEF PassSettle
  <2>2. \A q \in Procs : push'[q].inst \in {push[q].inst, None}
    BY <1>7, <1>a DEF PassSettle, NoPush
  <2>3. UNCHANGED <<row, task, retry>>
    BY <1>7 DEF PassSettle
  <2> QED
    BY <2>1, <2>2, <2>3, <1>a DEF LeftAlone
<1>8. CASE PassDone(c)
  BY <1>8, <1>a DEF PassDone, LeftAlone, database, nodes, NoPass
<1> QED
  BY <1>1, <1>2, <1>3, <1>4, <1>5, <1>6, <1>7, <1>8 DEF PassStep

LEMMA AloneOperator ==
    ASSUME "overlap" \notin Faults, TypeInv, LeftAlone, Operator
    PROVE  LeftAlone'
<1>a. /\ row \in [Instances -> [enabled : BOOLEAN, maintenance : BOOLEAN]]
      /\ task \in [Syncs -> TaskType]
      /\ retry \in [Retries -> RetryType]
      /\ push \in [Procs -> PushType]
  BY DEF TypeInv, TypeOK
<1>1. ASSUME NEW s \in Syncs, NEW ks \in EditScopes, Edit(s, ks)
      PROVE  LeftAlone'
  BY <1>1, <1>a DEF Edit, LeftAlone, NoTask
<1>2. ASSUME NEW s \in Syncs, NEW i \in Instances, ManualPush(s, i)
      PROVE  LeftAlone'
  <2>1. \A q \in Procs : push'[q].inst \in {push[q].inst, i}
    BY <1>2, <1>a DEF ManualPush, PushRequest, NoPush
  <2>2. ~row[i].maintenance /\ UNCHANGED <<row, retry, pass>>
    BY <1>2 DEF ManualPush, database
  <2>3. \A q \in Syncs : /\ task'[q].todo \subseteq task[q].todo
                         /\ task'[q].todo # {} => task'[q] = task[q]
    BY <1>2, <1>a DEF ManualPush, NoTask
  <2> QED
    BY <2>1, <2>2, <2>3 DEF LeftAlone
<1>3. ASSUME NEW s \in Syncs, ForceSync(s)
      PROVE  LeftAlone'
  BY <1>3, <1>a DEF ForceSync, LeftAlone, NoTask, database
<1>4. ASSUME NEW i \in Instances, HoldBack(i)
      PROVE  LeftAlone'
  <2>1. Quiet(i) /\ UNCHANGED <<task, retry, pass, push>>
    BY <1>4 DEF HoldBack, procs
  <2>2. \A j \in Instances : j # i => row'[j] = row[j]
    BY <1>4, <1>a DEF HoldBack
  <2> QED
    BY <2>1, <2>2 DEF LeftAlone, Quiet
<1>5. ASSUME NEW i \in Instances, Disable(i) \/ Enable(i)
      PROVE  LeftAlone'
  <2>1. UNCHANGED <<task, retry, pass, push>>
    BY <1>5 DEF Disable, Enable, procs
  <2>2. \A j \in Instances : row'[j].maintenance = row[j].maintenance
    BY <1>5, <1>a DEF Disable, Enable
  <2> QED
    BY <2>1, <2>2 DEF LeftAlone
<1>6. ASSUME NEW i \in Instances, NEW r \in Retries, EndMaintenance(i, r)
      PROVE  LeftAlone'
  <2>1. /\ \A j \in Instances : row'[j].maintenance => row[j].maintenance
        /\ \A q \in Retries : retry'[q].rows = retry[q].rows
        /\ UNCHANGED <<task, pass, push>>
    BY <1>6, <1>a DEF EndMaintenance, RetryType
  <2> QED
    BY <2>1 DEF LeftAlone
<1>7. ASSUME NEW i \in Instances, NEW k \in Kinds, DiscardJob(i, k)
      PROVE  LeftAlone'
  BY <1>7 DEF DiscardJob, LeftAlone, procs
<1> QED
  BY <1>1, <1>2, <1>3, <1>4, <1>5, <1>6, <1>7 DEF Operator

LEMMA AloneEnvironment ==
    ASSUME TypeInv, LeftAlone, Environment
    PROVE  LeftAlone'
<1>a. /\ push \in [Procs -> PushType]
      /\ pass \in [Passes -> PassType]
      /\ None \notin Instances
  BY ConstantsAssumption DEF TypeInv, TypeOK
<1>1. CASE \/ \E i \in Instances : GoDown(i) \/ ComeBack(i)
           \/ \E i \in Instances, k \in Kinds : Tamper(i, k)
  BY <1>1 DEF GoDown, ComeBack, Tamper, LeftAlone, database, procs
<1>2. ASSUME NEW c \in Passes, PassDeadline(c)
      PROVE  LeftAlone'
  BY <1>2, <1>a DEF PassDeadline, LeftAlone, database, NoPush, NoPass
<1>3. CASE Crash
  BY <1>3, <1>a DEF Crash, LeftAlone, database, NoPush, NoPass, NoTask, NoRetry
<1> QED
  BY <1>1, <1>2, <1>3 DEF Environment

LEMMA AloneInvariance ==
    ASSUME "overlap" \notin Faults
    PROVE  Spec => []LeftAlone
<1>1. TypeInv /\ LeftAlone /\ [Next]_vars => LeftAlone'
  <2> SUFFICES ASSUME TypeInv, LeftAlone, [Next]_vars PROVE LeftAlone'
    OBVIOUS
  <2>1. CASE Next
    BY <2>1, AlonePush, AloneSync, AloneRetry, AlonePass, AloneOperator, AloneEnvironment
       DEF Next
  <2>2. CASE UNCHANGED vars
    BY <2>2 DEF vars, database, procs, LeftAlone
  <2> QED
    BY <2>1, <2>2
<1> QED
  BY AloneInit, TypeInvariance, <1>1, PTL DEF Spec

\* What a step writes to a node comes from a push that is at the node.
LEMMA WritersAreThere ==
    ASSUME TypeInv, [Next]_vars, NEW i \in Instances, NEW k \in Kinds,
           node'[i][k] \notin {node[i][k], Foreign}
    PROVE  \E p \in Procs : push[p].pc = "write" /\ push[p].inst = i /\ push[p].kind = k
<1>a. /\ node \in NodeType
      /\ PushShape
  BY DEF TypeInv, TypeOK, NodeType
<1>l. ASSUME NEW p \in Procs, push[p].pc = "write", node' = Landed(p)
      PROVE  push[p].inst = i /\ push[p].kind = k
  <2>1. push[p].inst \in Instances /\ push[p].kind \in Kinds
    BY <1>l, <1>a DEF PushShape
  <2> QED
    BY <1>l, <2>1, <1>a DEF Landed, NodeType
<1>1. ASSUME NEW p \in Procs, PushLock(p) \/ PushStep(p)
      PROVE  push[p].pc = "write" /\ push[p].inst = i /\ push[p].kind = k
  <2>1. node' # node
    OBVIOUS
  <2>2. CASE PushWrite(p)
    <3>1. push[p].pc = "write" /\ push[p].inst \in Instances /\ push[p].kind \in Kinds
      BY <2>2, <1>a DEF PushWrite, PushShape
    <3>2. node' # Garbled(p)
      BY <3>1, <1>a DEF Garbled, NodeType
    <3> QED
      BY <2>2, <3>1, <3>2, <1>l DEF PushWrite
  <2>3. CASE PushFailed(p)
    BY <2>1, <2>3, <1>l DEF PushFailed, CallFails
  <2> QED
    BY <1>1, <2>1, <2>2, <2>3 DEF PushLock, PushStep, PushRead, PushApplied, nodes
<1>2. ASSUME NEW c \in Passes, PassStep(c)
      PROVE  push[c].pc = "write" /\ push[c].inst = i /\ push[c].kind = k
  <2>1. c \in Procs /\ PassPushFailed(c)
    BY <1>2 DEF PassStep, PassStart, PassBegin, PassPull, PassDiff, PassVerify, PassSettle,
                PassDone, nodes, Procs
  <2> QED
    BY <2>1, <1>l DEF PassPushFailed, CallFails
<1>3. ~\E s \in Syncs : SyncStep(s)
  BY DEF SyncStep, SyncSelect, SyncPush, SyncHold, SyncQueue, SyncDone, nodes
<1>4. ~\E r \in Retries : RetryStep(r)
  BY DEF RetryStep, RetrySelect, RetryPush, RetryDone, nodes
<1>5. ~Operator
  BY DEF Operator, Edit, ManualPush, HoldBack, Disable, Enable, EndMaintenance, ForceSync,
         DiscardJob, nodes
<1>6. ~Environment
  <2>1. ASSUME NEW j \in Instances, NEW m \in Kinds, Tamper(j, m) PROVE FALSE
    BY <2>1, <1>a DEF Tamper, NodeType
  <2> QED
    BY <2>1 DEF Environment, GoDown, ComeBack, PassDeadline, Crash, nodes
<1>7. ~UNCHANGED vars
  BY DEF vars, nodes
<1> QED
  BY <1>1, <1>2, <1>3, <1>4, <1>5, <1>6, <1>7 DEF Next, Procs

\* A push that is under way only gets on with what it has to do.
LEMMA PushDecides ==
    ASSUME TypeInv, NEW q \in Procs, PushLock(q) \/ PushStep(q),
           NEW p \in Procs, NEW i \in Instances, NEW k \in Kinds, Decided(p, i, k)'
    PROVE  Decided(p, i, k)
<1>a. /\ push \in [Procs -> PushType] /\ push[q] \in PushType
      /\ None \notin Instances
  BY ConstantsAssumption DEF TypeInv, TypeOK
<1>1. UNCHANGED <<row, task, retry, pass>>
  BY DEF PushLock, PushStep, PushRead, PushWrite, PushFailed, PushApplied, database
<1>2. push'[p].inst = i =>
          /\ push[p].inst = i
          /\ push'[p].todo \union {push'[p].kind} \subseteq push[p].todo \union {push[p].kind, None}
  <2>1. CASE PushLock(q)
    BY <2>1, <1>a DEF PushLock, PushType
  <2>2. CASE PushRead(q)
    BY <2>2, <1>a DEF PushRead, PushType
  <2>3. CASE PushWrite(q)
    <3>1. /\ KindDone(q).inst = push[q].inst /\ KindDone(q).todo \subseteq push[q].todo
          /\ KindDone(q).kind = None
      BY <1>a DEF KindDone, PushType
    <3>2. \/ push' = [push EXCEPT ![q].pc = "verify"]
          \/ push' = [push EXCEPT ![q] = KindDone(q)]
      BY <2>3 DEF PushWrite
    <3> QED
      BY <3>1, <3>2, <1>a DEF PushType
  <2>4. CASE PushFailed(q) \/ PushApplied(q)
    BY <2>4, <1>a DEF PushFailed, PushApplied, NoPush
  <2> QED
    BY <2>1, <2>2, <2>3, <2>4 DEF PushStep
<1>3. None \notin Kinds
  BY ConstantsAssumption
<1> QED
  BY <1>1, <1>2, <1>3 DEF Decided

\* A task leaves out what it finds held back; one that has selected only gets on.
LEMMA SyncDecides ==
    ASSUME TypeInv, NEW s \in Syncs, SyncStep(s), NEW p \in Procs, NEW i \in Instances,
           row[i].maintenance, NEW k \in Kinds, Decided(p, i, k)'
    PROVE  Decided(p, i, k)
<1>a. /\ task \in [Syncs -> TaskType] /\ task[s] \in TaskType
      /\ push \in [Procs -> PushType] /\ s \in Procs
      /\ None \notin Kinds
  BY ConstantsAssumption DEF TypeInv, TypeOK, Procs
<1>1. CASE SyncSelect(s)
  BY <1>1, <1>a DEF SyncSelect, Decided, database, nodes, TaskType
<1>2. CASE SyncPush(s)
  <2>1. PICK j \in task[s].todo \ task[s].held :
           /\ task' = [task EXCEPT ![s].todo = @ \ {j}]
           /\ push' = [push EXCEPT ![s] = PushRequest(j, task[s].kinds)]
    BY <1>2 DEF SyncPush
  <2>2. UNCHANGED <<retry, pass>>
    BY <1>2 DEF SyncPush
  <2>3. \A q \in Procs : q # s => push'[q] = push[q]
    BY <2>1, <1>a
  <2>4. push'[s].inst = j /\ push'[s].todo = task[s].kinds /\ push'[s].kind = None
    BY <2>1, <1>a DEF PushRequest, NoPush
  <2>5. \A q \in Syncs : /\ task'[q].todo \subseteq task[q].todo
                         /\ task'[q].held = task[q].held /\ task'[q].kinds = task[q].kinds
    BY <2>1, <1>a DEF TaskType
  <2> QED
    BY <2>1, <2>2, <2>3, <2>4, <2>5, <1>a DEF Decided
<1>3. CASE SyncHold(s)
  BY <1>3, <1>a DEF SyncHold, Decided, database, nodes, TaskType
<1>4. CASE SyncQueue(s)
  BY <1>4, <1>a DEF SyncQueue, Decided, nodes, TaskType
<1>5. CASE SyncDone(s)
  BY <1>5, <1>a DEF SyncDone, Decided, database, nodes, NoTask
<1> QED
  BY <1>1, <1>2, <1>3, <1>4, <1>5 DEF SyncStep

\* So does a retry pass.
LEMMA RetryDecides ==
    ASSUME TypeInv, NEW r \in Retries, RetryStep(r), NEW p \in Procs, NEW i \in Instances,
           row[i].maintenance, NEW k \in Kinds, Decided(p, i, k)'
    PROVE  Decided(p, i, k)
<1>a. /\ retry \in [Retries -> RetryType] /\ retry[r] \in RetryType
      /\ push \in [Procs -> PushType] /\ r \in Procs
      /\ None \notin Kinds
  BY ConstantsAssumption DEF TypeInv, TypeOK, Procs
<1>1. CASE RetrySelect(r)
  BY <1>1, <1>a DEF RetrySelect, OpenRows, Decided, database, nodes
<1>2. CASE RetryPush(r)
  <2>1. PICK t \in retry[r].rows :
           /\ retry' = [retry EXCEPT ![r].rows = @ \ {t}]
           /\ push' = [push EXCEPT ![r] = PushRequest(t[1], {t[2]})]
    BY <1>2 DEF RetryPush
  <2>2. t \in Instances \X Kinds /\ UNCHANGED <<task, pass>>
    BY <1>2, <1>a DEF RetryPush, RetryType, database
  <2>3. \A q \in Procs : q # r => push'[q] = push[q]
    BY <2>1, <1>a
  <2>4. push'[r].inst = t[1] /\ push'[r].todo = {t[2]} /\ push'[r].kind = None
    BY <2>1, <1>a DEF PushRequest, NoPush
  <2>5. \A q \in Retries : retry'[q].rows \subseteq retry[q].rows
    BY <2>1, <1>a DEF RetryType
  <2>6. CASE push'[p].inst = i /\ k \in push'[p].todo \union {push'[p].kind}
    <3>1. CASE p = r
      <4>1. t = <<i, k>>
        BY <2>2, <2>4, <2>6, <3>1, <1>a
      <4> QED
        BY <4>1, <3>1 DEF Decided
    <3>2. CASE p # r
      BY <2>3, <2>6, <3>2 DEF Decided
    <3> QED
      BY <3>1, <3>2
  <2>7. CASE ~(push'[p].inst = i /\ k \in push'[p].todo \union {push'[p].kind})
    BY <2>2, <2>5, <2>7 DEF Decided
  <2> QED
    BY <2>6, <2>7
<1>3. CASE RetryDone(r)
  BY <1>3, <1>a DEF RetryDone, Decided, database, nodes, NoRetry
<1> QED
  BY <1>1, <1>2, <1>3 DEF RetryStep

\* So does a reconciliation pass, at the node it has come to.
LEMMA PassDecides ==
    ASSUME TypeInv, NEW c \in Passes, PassStep(c), NEW p \in Procs, NEW i \in Instances,
           row[i].maintenance, NEW k \in Kinds, Decided(p, i, k)'
    PROVE  Decided(p, i, k)
<1>a. /\ pass \in [Passes -> PassType] /\ pass[c] \in PassType
      /\ push \in [Procs -> PushType] /\ push[c] \in PushType
      /\ c \in Procs /\ Passes \subseteq Procs
      /\ None \notin Instances /\ None \notin Kinds
  BY ConstantsAssumption DEF TypeInv, TypeOK, Procs
<1> DEFINE gets_on ==
              \A q \in Passes :
                 /\ pass'[q].todo \subseteq pass[q].todo
                 /\ pass'[q].inst = i /\ pass'[q].pc # "fix" =>
                       i \in pass[q].todo \/ (pass[q].inst = i /\ pass[q].pc # "fix")
           pushes_on ==
              \A q \in Procs :
                 push'[q].inst = i =>
                    /\ push[q].inst = i
                    /\ push'[q].todo \union {push'[q].kind}
                          \subseteq push[q].todo \union {push[q].kind, None}
<1>0. ASSUME gets_on, pushes_on, UNCHANGED <<task, retry>> PROVE Decided(p, i, k)
  BY <1>0, <1>a DEF Decided
<1>n. ASSUME pass' = NextInstance(c) PROVE gets_on
  BY <1>n, <1>a DEF NextInstance, NoPass, PassType
<1>p. ASSUME UNCHANGED push PROVE pushes_on
  BY <1>p
<1>s. ASSUME NEW refused, NEW failed, Sorted(c, refused, failed) PROVE pushes_on
  <2>1. /\ KindDone(c).inst = push[c].inst /\ KindDone(c).todo \subseteq push[c].todo
        /\ KindDone(c).kind = None /\ KindDone(c) \in PushType
    BY <1>a, KindDoneType DEF KindDone, PushType
  <2> QED
    BY <2>1, <1>s, <1>a DEF Sorted, PushType
<1>1. CASE PassStart(c)
  BY <1>1, <1>a DEF PassStart, Decided, database, nodes, PassType
<1>2. CASE PassBegin(c)
  <2>1. gets_on
    BY <1>2, <1>a DEF PassBegin, PassType
  <2> QED
    BY <2>1, <1>0, <1>2, <1>p DEF PassBegin
<1>3. CASE PassPull(c)
  <2>1. CASE pass' = NextInstance(c)
    BY <1>0, <1>3, <2>1, <1>n, <1>p DEF PassPull
  <2>2. CASE pass[c].pc = "begun"
             /\ pass' = [pass EXCEPT ![c] = [@ EXCEPT !.pc = "pulled", !.seen = node[pass[c].inst]]]
    <3>1. gets_on
      BY <2>2, <1>a DEF PassType
    <3> QED
      BY <3>1, <1>0, <1>3, <1>p DEF PassPull
  <2> QED
    BY <1>3, <2>1, <2>2 DEF PassPull
<1>4. CASE PassDiff(c)
  <2>1. CASE pass' = NextInstance(c) /\ UNCHANGED push
    BY <1>0, <1>4, <2>1, <1>n, <1>p DEF PassDiff
  <2>2. ASSUME NEW ks \in SUBSET Kinds,
               pass' = [pass EXCEPT ![c] = [@ EXCEPT !.pc = "fix", !.seen = NoPass.seen]],
               push' = [push EXCEPT ![c] = PushRequest(pass[c].inst, ks)]
        PROVE  Decided(p, i, k)
    <3>1. /\ pass[c].pc = "pulled" /\ UNCHANGED <<task, retry>>
      BY <1>4 DEF PassDiff
    <3>2. gets_on
      BY <2>2, <1>a DEF PassType
    <3>3. \A q \in Procs : q # c => push'[q] = push[q]
      BY <2>2, <1>a
    <3>4. push'[c].inst = pass[c].inst
      BY <2>2, <1>a DEF PushRequest, NoPush
    <3> QED
      BY <3>1, <3>2, <3>3, <3>4, <1>a DEF Decided
  <2> QED
    BY <1>4, <2>1, <2>2 DEF PassDiff
<1>5. CASE PassVerify(c)
  <2>1. gets_on /\ UNCHANGED <<task, retry>>
    BY <1>5 DEF PassVerify
  <2> QED
    BY <1>0, <1>5, <1>s, <2>1 DEF PassVerify
<1>6. CASE PassPushFailed(c)
  <2>1. gets_on /\ UNCHANGED <<task, retry>>
    BY <1>6 DEF PassPushFailed
  <2> QED
    BY <1>0, <1>6, <1>s, <2>1 DEF PassPushFailed
<1>7. CASE PassSettle(c)
  <2>1. pushes_on
    BY <1>7, <1>a DEF PassSettle, NoPush
  <2>2. gets_on /\ UNCHANGED <<task, retry>>
    BY <1>7, <1>n DEF PassSettle
  <2> QED
    BY <1>0, <2>1, <2>2
<1>8. CASE PassDone(c)
  <2>1. gets_on
    BY <1>8, <1>a DEF PassDone, NoPass
  <2> QED
    BY <2>1, <1>0, <1>8, <1>p DEF PassDone
<1> QED
  BY <1>1, <1>2, <1>3, <1>4, <1>5, <1>6, <1>7, <1>8 DEF PassStep

\* The operator adds a push by hand.
LEMMA OperatorDecides ==
    ASSUME TypeInv, Operator, NEW p \in Procs, NEW i \in Instances, NEW k \in Kinds,
           Decided(p, i, k)', ~Decided(p, i, k)
    PROVE  p \in Syncs /\ task[p].pc = "idle" /\ push'[p].inst = i
<1>a. /\ task \in [Syncs -> TaskType]
      /\ retry \in [Retries -> RetryType]
      /\ push \in [Procs -> PushType]
  BY DEF TypeInv, TypeOK
<1>1. ASSUME NEW s \in Syncs, NEW ks \in EditScopes, Edit(s, ks)
      PROVE  FALSE
  BY <1>1, <1>a DEF Edit, Decided, NoTask
<1>2. ASSUME NEW s \in Syncs, NEW j \in Instances, ManualPush(s, j)
      PROVE  p \in Syncs /\ task[p].pc = "idle" /\ push'[p].inst = i
  <2>1. UNCHANGED <<retry, pass>> /\ task[s].pc = "idle"
    BY <1>2 DEF ManualPush
  <2>2. \A q \in Syncs : IF q = s THEN task'[q].todo = {} ELSE task'[q] = task[q]
    BY <1>2, <1>a DEF ManualPush, NoTask
  <2>3. \A q \in Procs : q # s => push'[q] = push[q]
    BY <1>2, <1>a DEF ManualPush
  <2> QED
    BY <2>1, <2>2, <2>3, ConstantsAssumption DEF Decided
<1>3. ASSUME NEW s \in Syncs, ForceSync(s)
      PROVE  FALSE
  BY <1>3, <1>a DEF ForceSync, Decided, NoTask
<1>4. ASSUME NEW j \in Instances, HoldBack(j) \/ Disable(j) \/ Enable(j)
      PROVE  FALSE
  BY <1>4 DEF HoldBack, Disable, Enable, Decided, procs
<1>5. ASSUME NEW j \in Instances, NEW r \in Retries, EndMaintenance(j, r)
      PROVE  FALSE
  <2>1. /\ \A q \in Retries : retry'[q].rows = retry[q].rows
        /\ UNCHANGED <<task, pass, push>>
    BY <1>5, <1>a DEF EndMaintenance, RetryType
  <2> QED
    BY <2>1 DEF Decided
<1>6. ASSUME NEW j \in Instances, NEW m \in Kinds, DiscardJob(j, m)
      PROVE  FALSE
  BY <1>6 DEF DiscardJob, Decided, procs
<1> QED
  BY <1>1, <1>2, <1>3, <1>4, <1>5, <1>6 DEF Operator

\* What happens to the nodes and the process adds nothing.
LEMMA EnvironmentDecides ==
    ASSUME TypeInv, Environment, NEW p \in Procs, NEW i \in Instances, NEW k \in Kinds,
           Decided(p, i, k)'
    PROVE  Decided(p, i, k)
<1>a. /\ push \in [Procs -> PushType]
      /\ pass \in [Passes -> PassType]
      /\ None \notin Instances /\ Passes \subseteq Procs
  BY ConstantsAssumption DEF TypeInv, TypeOK, Procs
<1>1. CASE \/ \E j \in Instances : GoDown(j) \/ ComeBack(j)
           \/ \E j \in Instances, m \in Kinds : Tamper(j, m)
  BY <1>1 DEF GoDown, ComeBack, Tamper, Decided, procs
<1>2. ASSUME NEW c \in Passes, PassDeadline(c)
      PROVE  Decided(p, i, k)
  BY <1>2, <1>a DEF PassDeadline, Decided, NoPush, NoPass
<1>3. CASE Crash
  BY <1>3, <1>a DEF Crash, Decided, NoPush, NoPass, NoTask, NoRetry
<1> QED
  BY <1>1, <1>2, <1>3 DEF Environment

\* For any number of pushes, retries and passes and every set of faults, also with the
\* switch set in the middle of a push: whatever queued or scheduled them, no process takes
\* up a node in maintenance (but for a push by hand), and who writes to it had been
\* decided to before.
THEOREM MaintenanceKept == Spec => HandsOff
<1>1. TypeInv /\ [Next]_vars =>
         [\A i \in Instances, k \in Kinds :
            row[i].maintenance =>
               /\ \A p \in Procs :
                     Decided(p, i, k)' /\ ~Decided(p, i, k) =>
                         p \in Syncs /\ task[p].pc = "idle" /\ push'[p].inst = i
               /\ node'[i][k] \in {node[i][k], Foreign} \/ \E p \in Procs : Decided(p, i, k)]_vars
  <2> SUFFICES ASSUME TypeInv, [Next]_vars, NEW i \in Instances, NEW k \in Kinds,
                      row[i].maintenance
               PROVE  /\ \A p \in Procs :
                            Decided(p, i, k)' /\ ~Decided(p, i, k) =>
                                p \in Syncs /\ task[p].pc = "idle" /\ push'[p].inst = i
                      /\ \/ node'[i][k] \in {node[i][k], Foreign}
                         \/ \E p \in Procs : Decided(p, i, k)
    OBVIOUS
  <2>1. ASSUME NEW p \in Procs, Decided(p, i, k)', ~Decided(p, i, k)
        PROVE  p \in Syncs /\ task[p].pc = "idle" /\ push'[p].inst = i
    <3>1. CASE UNCHANGED vars
      BY <2>1, <3>1 DEF vars, database, procs, Decided
    <3>2. CASE Operator
      BY <2>1, <3>2, OperatorDecides
    <3> QED
      BY <2>1, <3>1, <3>2, PushDecides, SyncDecides, RetryDecides, PassDecides,
         EnvironmentDecides DEF Next
  <2>2. ASSUME node'[i][k] \notin {node[i][k], Foreign}
        PROVE  \E p \in Procs : Decided(p, i, k)
    BY <2>2, WritersAreThere DEF Decided
  <2> QED
    BY <2>1, <2>2
<1> QED
  BY TypeInvariance, <1>1, PTL DEF Spec, HandsOff

----------------------------------------------------------------------------
(***************************************************************************)
(* Delivery.                                                               *)
(***************************************************************************)

\* The faults an edit survives without reconciliation: the others lose a task, a job or a
\* write, or let maintenance begin with a push in flight.
Harmless ==
    Faults \intersect {"overlap", "tamper", "refuse", "crash", "discard", "disable"} = {}

\* The shape of a push that sends its kinds one by one ...
PushKinds ==
    \A p \in Pushers :
        /\ push[p].pc # "verify"
        /\ push[p].pc = "none" => push[p].todo = {}
        /\ push[p].todo \subseteq push[p].kinds
        /\ push[p].pc = "wait" => push[p].todo = push[p].kinds
        /\ push[p].pc # "write" => push[p].kind = None
        /\ push[p].pc = "write" => push[p].kind \in push[p].todo

\* ... of a task that has not selected its instances, and of the instances it can select.
TaskRest == \A s \in Syncs : task[s].pc \in {"idle", "start"} => task[s].todo = {}

AllEnabled == \A i \in Instances : row[i].enabled

ShapeInv == PushKinds /\ TaskRest /\ AllEnabled

\* A push of k to i that was decided on and has not begun.
Coming(i, k) ==
    \/ \E s \in Syncs : /\ k \in task[s].kinds
                        /\ task[s].pc = "start" \/ i \in task[s].todo \ task[s].held
    \/ \E p \in Pushers : push[p].pc = "wait" /\ push[p].inst = i /\ k \in push[p].todo

\* What a push has sent, or read and is about to send, is the newest, or a newer one comes.
Sent ==
    \A p \in Pushers :
        push[p].pc \in Critical =>
            /\ \A k \in push[p].kinds \ push[p].todo :
                  node[push[p].inst][k] = desired[k] \/ Coming(push[p].inst, k)
            /\ push[p].pc = "write" =>
                  \/ push[p].value = desired[push[p].kind]
                  \/ Coming(push[p].inst, push[p].kind)

\* Owed, with a task about to queue counted only for the kinds it found no job of: it need
\* not reopen one it found and that was closed since.
Promised(i, k) ==
    \/ jobs[i][k] > 0
    \/ \E s \in Syncs :
          /\ k \in task[s].kinds
          /\ \/ task[s].pc = "start"
             \/ i \in task[s].todo
             \/ task[s].pc = "queue" /\ task[s].inst = i /\ k \notin task[s].found
    \/ \E p \in Pushers :
          /\ push[p].inst = i
          /\ k \in push[p].todo
          /\ push[p].kind = k => push[p].value = desired[k]

AllPromised ==
    \A i \in Instances, k \in Kinds :
        desired[k] > 0 => node[i][k] = desired[k] \/ Promised(i, k)

DeliveryInv == ShapeInv /\ Sent /\ AllPromised

LEMMA DeliveryInit == Init => DeliveryInv
  BY DEF Init, DeliveryInv, ShapeInv, PushKinds, TaskRest, AllEnabled, Sent, AllPromised,
         NoPush, NoTask, Critical, Pushers, Procs

LEMMA ShapePush ==
    ASSUME TypeInv, ShapeInv, NEW p \in Procs, PushLock(p) \/ PushStep(p)
    PROVE  ShapeInv'
<1>a. /\ push \in [Procs -> PushType]
      /\ push[p] \in PushType
      /\ Pushers \subseteq Procs
      /\ \A q \in Pushers : q \notin Passes
      /\ None \notin Kinds
  BY ConstantsAssumption DEF TypeInv, TypeOK, Pushers, Procs
<1>1. UNCHANGED <<row, task>>
  BY DEF PushLock, PushStep, PushRead, PushWrite, PushFailed, PushApplied, database
<1>2. PushKinds'
  <2>1. CASE PushLock(p)
    BY <2>1, <1>a DEF PushLock, PushType, ShapeInv, PushKinds
  <2>2. CASE PushRead(p)
    BY <2>2, <1>a DEF PushRead, PushType, ShapeInv, PushKinds
  <2>3. CASE PushWrite(p)
    BY <2>3, <1>a DEF PushWrite, KindDone, PushType, ShapeInv, PushKinds
  <2>4. CASE PushFailed(p) \/ PushApplied(p)
    BY <2>4, <1>a DEF PushFailed, PushApplied, NoPush, ShapeInv, PushKinds
  <2> QED
    BY <2>1, <2>2, <2>3, <2>4 DEF PushStep
<1> QED
  BY <1>1, <1>2 DEF ShapeInv, TaskRest, AllEnabled

\* A request is well shaped, and so is what waits for nothing.
LEMMA ShapeRequest ==
    ASSUME ShapeInv, push \in [Procs -> PushType], NEW p \in Procs, NEW i, NEW ks,
           push' = push \/ push' = [push EXCEPT ![p] = PushRequest(i, ks)]
    PROVE  PushKinds'
<1> DEFINE new == PushRequest(i, ks)
<1>1. /\ new.pc = "wait"
      /\ new.todo = ks
      /\ new.kinds = ks
      /\ new.kind = None
  BY DEF PushRequest, NoPush
<1> HIDE DEF new
<1>2. \A q \in Pushers : push'[q] \in {push[q], new}
  BY DEF Pushers, Procs, new
<1> QED
  BY <1>1, <1>2 DEF ShapeInv, PushKinds

LEMMA ShapeSync ==
    ASSUME TypeInv, ShapeInv, NEW s \in Syncs, SyncStep(s)
    PROVE  ShapeInv'
<1>a. /\ task \in [Syncs -> TaskType]
      /\ task[s] \in TaskType
      /\ push \in [Procs -> PushType]
      /\ s \in Procs
  BY DEF TypeInv, TypeOK, Procs
<1>1. \E i, ks : push' = push \/ push' = [push EXCEPT ![s] = PushRequest(i, ks)]
  BY DEF SyncStep, SyncSelect, SyncPush, SyncHold, SyncQueue, SyncDone
<1>2. PushKinds'
  BY <1>1, <1>a, ShapeRequest
<1>3. TaskRest'
  <2>1. CASE SyncSelect(s)
    BY <2>1, <1>a DEF SyncSelect, TaskType, ShapeInv, TaskRest
  <2>2. CASE SyncPush(s)
    BY <2>2, <1>a DEF SyncPush, TaskType, ShapeInv, TaskRest
  <2>3. CASE SyncHold(s)
    BY <2>3, <1>a DEF SyncHold, TaskType, ShapeInv, TaskRest
  <2>4. CASE SyncQueue(s)
    BY <2>4, <1>a DEF SyncQueue, TaskType, ShapeInv, TaskRest
  <2>5. CASE SyncDone(s)
    BY <2>5, <1>a DEF SyncDone, NoTask, ShapeInv, TaskRest
  <2> QED
    BY <2>1, <2>2, <2>3, <2>4, <2>5 DEF SyncStep
<1>4. UNCHANGED row
  BY DEF SyncStep, SyncSelect, SyncPush, SyncHold, SyncQueue, SyncDone, database
<1> QED
  BY <1>2, <1>3, <1>4 DEF ShapeInv, AllEnabled

LEMMA ShapeRetry ==
    ASSUME TypeInv, ShapeInv, NEW r \in Retries, RetryStep(r)
    PROVE  ShapeInv'
<1>a. push \in [Procs -> PushType] /\ r \in Procs
  BY DEF TypeInv, TypeOK, Procs
<1>1. \E i, ks : push' = push \/ push' = [push EXCEPT ![r] = PushRequest(i, ks)]
  BY DEF RetryStep, RetrySelect, RetryPush, RetryDone
<1>2. PushKinds'
  BY <1>1, <1>a, ShapeRequest
<1>3. UNCHANGED <<row, task>>
  BY DEF RetryStep, RetrySelect, RetryPush, RetryDone, database
<1> QED
  BY <1>2, <1>3 DEF ShapeInv, TaskRest, AllEnabled

\* A pass has a push of its own.
LEMMA PassElsewhere ==
    ASSUME TypeInv, NEW c \in Passes, PassStep(c) \/ PassDeadline(c)
    PROVE  \A p \in Pushers : p \in Procs /\ push'[p] = push[p]
<1>a. push \in [Procs -> PushType] /\ \A p \in Pushers : p \in Procs /\ p # c
  BY ConstantsAssumption DEF TypeInv, TypeOK, Pushers, Procs
<1>1. CASE PassStart(c) \/ PassBegin(c) \/ PassPull(c) \/ PassDone(c)
  BY <1>1, <1>a DEF PassStart, PassBegin, PassPull, PassDone
<1>2. CASE PassDiff(c)
  BY <1>2, <1>a DEF PassDiff
<1>3. CASE PassVerify(c) \/ PassPushFailed(c)
  BY <1>3, <1>a DEF PassVerify, PassPushFailed, Sorted
<1>4. CASE PassSettle(c) \/ PassDeadline(c)
  BY <1>4, <1>a DEF PassSettle, PassDeadline
<1> QED
  BY <1>1, <1>2, <1>3, <1>4 DEF PassStep

LEMMA ShapePass ==
    ASSUME TypeInv, ShapeInv, NEW c \in Passes, PassStep(c) \/ PassDeadline(c)
    PROVE  ShapeInv'
<1>1. UNCHANGED <<row, task>>
  BY DEF PassStep, PassStart, PassBegin, PassPull, PassDiff, PassVerify, PassPushFailed,
         PassSettle, PassDone, PassDeadline, database
<1>2. \A p \in Pushers : push'[p] = push[p]
  BY PassElsewhere
<1> QED
  BY <1>1, <1>2 DEF ShapeInv, PushKinds, TaskRest, AllEnabled

LEMMA ShapeOperator ==
    ASSUME Harmless, TypeInv, ShapeInv, Operator
    PROVE  ShapeInv'
<1>a. /\ row \in [Instances -> [enabled : BOOLEAN, maintenance : BOOLEAN]]
      /\ task \in [Syncs -> TaskType]
      /\ push \in [Procs -> PushType]
      /\ Syncs \subseteq Procs
  BY DEF TypeInv, TypeOK, Procs
<1>1. ASSUME NEW s \in Syncs,
             \/ \E ks \in EditScopes : Edit(s, ks)
             \/ \E i \in Instances : ManualPush(s, i)
             \/ ForceSync(s)
      PROVE  ShapeInv'
  <2>1. \E i, ks : push' = push \/ push' = [push EXCEPT ![s] = PushRequest(i, ks)]
    BY <1>1 DEF Edit, ManualPush, ForceSync
  <2>2. PushKinds'
    BY <2>1, <1>a, ShapeRequest
  <2>3. TaskRest'
    <3>1. ASSUME NEW e, task' = [task EXCEPT ![s] = e], e.todo = {}
          PROVE  TaskRest'
      BY <3>1, <1>a DEF ShapeInv, TaskRest
    <3>2. \A pc, ks : [NoTask EXCEPT !.pc = pc, !.kinds = ks].todo = {}
      BY DEF NoTask
    <3>3. CASE \E ks \in EditScopes : Edit(s, ks)
      <4>1. PICK ks \in EditScopes : Edit(s, ks)
        BY <3>3
      <4>2. task' = [task EXCEPT ![s] = [NoTask EXCEPT !.pc = "start", !.kinds = ks]]
        BY <4>1 DEF Edit
      <4> QED
        BY <4>2, <3>1, <3>2
    <3>4. CASE \E i \in Instances : ManualPush(s, i)
      <4>1. task' = [task EXCEPT ![s] = [NoTask EXCEPT !.pc = "each", !.kinds = Kinds]]
        BY <3>4 DEF ManualPush
      <4> QED
        BY <4>1, <3>1, <3>2
    <3>5. CASE ForceSync(s)
      <4>1. task' = [task EXCEPT ![s] = [NoTask EXCEPT !.pc = "start", !.kinds = Kinds]]
        BY <3>5 DEF ForceSync
      <4> QED
        BY <4>1, <3>1, <3>2
    <3> QED
      BY <1>1, <3>3, <3>4, <3>5
  <2>4. UNCHANGED row
    BY <1>1 DEF Edit, ManualPush, ForceSync, database
  <2> QED
    BY <2>2, <2>3, <2>4 DEF ShapeInv, AllEnabled
<1>2. CASE \/ \E i \in Instances : HoldBack(i) \/ Disable(i) \/ Enable(i)
           \/ \E i \in Instances, r \in Retries : EndMaintenance(i, r)
           \/ \E i \in Instances, k \in Kinds : DiscardJob(i, k)
  <2>1. UNCHANGED <<task, push>>
    BY <1>2 DEF HoldBack, Disable, Enable, EndMaintenance, DiscardJob, procs
  <2>2. AllEnabled'
    BY <1>2, <1>a DEF HoldBack, Disable, Enable, EndMaintenance, DiscardJob, Event, Harmless,
                      ShapeInv, AllEnabled
  <2> QED
    BY <2>1, <2>2 DEF ShapeInv, PushKinds, TaskRest
<1> QED
  BY <1>1, <1>2 DEF Operator

LEMMA ShapeEnvironment ==
    ASSUME Harmless, TypeInv, ShapeInv, Environment
    PROVE  ShapeInv'
<1>1. CASE \/ \E i \in Instances : GoDown(i) \/ ComeBack(i)
           \/ \E i \in Instances, k \in Kinds : Tamper(i, k)
  BY <1>1 DEF GoDown, ComeBack, Tamper, database, procs, ShapeInv, PushKinds, TaskRest, AllEnabled
<1>2. ~Crash
  BY DEF Crash, Event, Harmless
<1> QED
  BY <1>1, <1>2, ShapePass DEF Environment

\* What was sent stays so while its push goes on undisturbed.
LEMMA SentKept ==
    ASSUME TypeInv, Sent,
           \A p \in Pushers : push'[p].pc \in Critical => push'[p] = push[p],
           \A p \in Pushers, i \in Instances, k \in Kinds :
              push[p].pc \in Critical /\ push[p].inst = i =>
                 /\ node'[i][k] = node[i][k]
                 /\ desired'[k] = desired[k] \/ Coming(i, k)'
                 /\ Coming(i, k) => Coming(i, k)'
    PROVE  Sent'
<1> SUFFICES ASSUME NEW p \in Pushers, push'[p].pc \in Critical,
                    NEW i \in Instances, i = push[p].inst
             PROVE  /\ \A k \in push[p].kinds \ push[p].todo :
                          node'[i][k] = desired'[k] \/ Coming(i, k)'
                    /\ push[p].pc = "write" =>
                          \/ push[p].value = desired'[push[p].kind]
                          \/ Coming(i, push[p].kind)'
  BY DEF Sent, TypeInv, PushShape, Critical, Pushers, Procs
<1>1. /\ push[p].pc \in Critical
      /\ push[p].kinds \subseteq Kinds
      /\ push[p].pc = "write" => push[p].kind \in Kinds
  BY DEF TypeInv, TypeOK, PushShape, PushType, Pushers, Procs
<1>2. /\ \A k \in push[p].kinds \ push[p].todo : node[i][k] = desired[k] \/ Coming(i, k)
      /\ push[p].pc = "write" =>
            push[p].value = desired[push[p].kind] \/ Coming(i, push[p].kind)
  BY <1>1 DEF Sent
<1>3. \A k \in Kinds : /\ node'[i][k] = node[i][k]
                       /\ desired'[k] = desired[k] \/ Coming(i, k)'
                       /\ Coming(i, k) => Coming(i, k)'
  BY <1>1
<1> HIDE DEF Coming
<1> QED
  BY <1>1, <1>2, <1>3

\* What was promised stays so if no step breaks a promise.
LEMMA PromisesKept ==
    ASSUME AllPromised,
           \A i \in Instances, k \in Kinds :
              /\ node'[i][k] = node[i][k]
              /\ desired'[k] = desired[k] \/ Promised(i, k)'
              /\ Promised(i, k) => Promised(i, k)'
    PROVE  AllPromised'
  BY DEF AllPromised

\* A node with a push to it is not in maintenance.
LEMMA PushedTo ==
    ASSUME TypeInv, LeftAlone, NEW p \in Pushers, NEW i \in Instances, push[p].inst = i
    PROVE  ~row[i].maintenance
  BY DEF LeftAlone, Pushers, Procs

LEMMA SyncPromises ==
    ASSUME TypeInv, ShapeInv, NEW s \in Syncs, SyncStep(s),
           NEW i \in Instances, NEW k \in Kinds
    PROVE  /\ Promised(i, k) => Promised(i, k)'
           /\ ~row[i].maintenance /\ Coming(i, k) => Coming(i, k)'
<1>a. /\ task \in [Syncs -> TaskType]
      /\ task[s] \in TaskType
      /\ push \in [Procs -> PushType]
      /\ jobs \in [Instances -> [Kinds -> Nat]]
      /\ s \in Procs /\ s \in Pushers /\ Pushers \subseteq Procs
      /\ \A t \in Syncs : t # s => task'[t] = task[t]
      /\ UNCHANGED desired
  BY DEF TypeInv, TypeOK, Procs, Pushers, SyncStep, SyncSelect, SyncPush, SyncHold, SyncQueue,
         SyncDone, database
<1>1. CASE SyncSelect(s)
  <2>1. /\ task'[s].pc = "each"
        /\ task'[s].todo = Instances
        /\ task'[s].held = {j \in Instances : row[j].maintenance}
        /\ task'[s].kinds = task[s].kinds
    BY <1>1, <1>a DEF SyncSelect, TaskType, ShapeInv, AllEnabled
  <2>2. task[s].pc = "start" /\ task[s].todo = {}
    BY <1>1 DEF SyncSelect, ShapeInv, TaskRest
  <2>3. UNCHANGED <<jobs, push>>
    BY <1>1 DEF SyncSelect, database
  <2> QED
    BY <2>1, <2>2, <2>3, <1>a DEF Promised, Coming
<1>2. CASE SyncPush(s)
  <2>1. PICK j \in task[s].todo \ task[s].held :
           /\ task' = [task EXCEPT ![s].todo = @ \ {j}]
           /\ push' = [push EXCEPT ![s] = PushRequest(j, task[s].kinds)]
    BY <1>2 DEF SyncPush
  <2>2. /\ task[s].pc = "each"
        /\ push[s].pc = "none"
        /\ UNCHANGED jobs
    BY <1>2 DEF SyncPush, database
  <2>3. /\ task'[s].pc = "each"
        /\ task'[s].todo = task[s].todo \ {j}
        /\ task'[s].held = task[s].held
        /\ task'[s].kinds = task[s].kinds
    BY <2>1, <2>2, <1>a DEF TaskType
  <2>4. /\ push'[s].pc = "wait"
        /\ push'[s].inst = j
        /\ push'[s].todo = task[s].kinds
        /\ push'[s].kind = None
    BY <2>1, <1>a DEF PushRequest, NoPush
  <2>5. /\ \A q \in Pushers : q # s => push'[q] = push[q]
        /\ None \notin Kinds
    BY <2>1, <1>a, ConstantsAssumption
  <2>6. Promised(i, k) => Promised(i, k)'
    <3>1. CASE i = j /\ k \in task[s].kinds
      BY <3>1, <2>4, <2>5, <1>a DEF Promised
    <3>2. CASE ~(i = j /\ k \in task[s].kinds)
      <4>1. push[s].inst = i => k \notin push[s].todo
        BY <2>2, <1>a DEF ShapeInv, PushKinds
      <4> QED
        BY <3>2, <4>1, <2>2, <2>3, <2>5, <1>a DEF Promised
    <3> QED
      BY <3>1, <3>2
  <2>7. Coming(i, k) => Coming(i, k)'
    <3>1. CASE i = j /\ k \in task[s].kinds
      BY <3>1, <2>4, <2>5, <1>a DEF Coming
    <3>2. CASE ~(i = j /\ k \in task[s].kinds)
      BY <3>2, <2>2, <2>3, <2>5, <1>a DEF Coming
    <3> QED
      BY <3>1, <3>2
  <2> QED
    BY <2>6, <2>7
<1>3. CASE SyncHold(s)
  <2>1. PICK j \in task[s].todo \intersect task[s].held :
           task' = [task EXCEPT ![s] =
              [@ EXCEPT !.pc = "queue", !.todo = task[s].todo \ {j}, !.inst = j,
                        !.found = {m \in task[s].kinds : jobs[j][m] > 0}]]
    BY <1>3 DEF SyncHold
  <2>2. task[s].pc = "each" /\ UNCHANGED <<jobs, push>>
    BY <1>3 DEF SyncHold, database
  <2>3. /\ task'[s].pc = "queue"
        /\ task'[s].todo = task[s].todo \ {j}
        /\ task'[s].held = task[s].held
        /\ task'[s].inst = j
        /\ task'[s].found = {m \in task[s].kinds : jobs[j][m] > 0}
        /\ task'[s].kinds = task[s].kinds
    BY <2>1, <1>a DEF TaskType
  <2>4. Promised(i, k) => Promised(i, k)'
    <3>1. CASE i = j /\ k \in task[s].kinds
      BY <3>1, <2>2, <2>3 DEF Promised
    <3>2. CASE ~(i = j /\ k \in task[s].kinds)
      BY <3>2, <2>2, <2>3, <1>a DEF Promised
    <3> QED
      BY <3>1, <3>2
  <2>5. Coming(i, k) => Coming(i, k)'
    BY <2>2, <2>3, <1>a DEF Coming
  <2> QED
    BY <2>4, <2>5
<1>4. CASE SyncQueue(s)
  <2>1. PICK reopened \in SUBSET {m \in task[s].found : jobs[task[s].inst][m] = 0} :
           jobs' = [jobs EXCEPT ![task[s].inst] = [m \in Kinds |->
              IF m \in reopened \/ m \in task[s].kinds \ task[s].found
              THEN jobs[task[s].inst][m] + 1 ELSE jobs[task[s].inst][m]]]
    BY <1>4 DEF SyncQueue
  <2>2. /\ jobs[i][k] > 0 => jobs'[i][k] > 0
        /\ task[s].inst = i /\ k \in task[s].kinds \ task[s].found => jobs'[i][k] > 0
    BY <2>1, <1>a
  <2>3. /\ task[s].pc = "queue"
        /\ task'[s].pc = "each"
        /\ task'[s].todo = task[s].todo
        /\ task'[s].held = task[s].held
        /\ task'[s].kinds = task[s].kinds
        /\ UNCHANGED push
    BY <1>4, <1>a DEF SyncQueue, TaskType
  <2> QED
    BY <2>2, <2>3, <1>a DEF Promised, Coming
<1>5. CASE SyncDone(s)
  <2>1. /\ task[s].pc = "each" /\ task[s].todo = {}
        /\ UNCHANGED <<jobs, push>>
    BY <1>5 DEF SyncDone, database
  <2> QED
    BY <2>1, <1>a DEF Promised, Coming
<1> QED
  BY <1>1, <1>2, <1>3, <1>4, <1>5 DEF SyncStep

\* A process that asks for a push and forgets nothing.
LEMMA RequestPromises ==
    ASSUME TypeInv, ShapeInv, NEW p \in Pushers, push[p].pc = "none",
           NEW j \in Instances, NEW ks, push' = [push EXCEPT ![p] = PushRequest(j, ks)],
           UNCHANGED <<desired, jobs>>,
           \A t \in Syncs : task[t].pc # "idle" => task'[t] = task[t],
           NEW i \in Instances, NEW k \in Kinds
    PROVE  /\ Promised(i, k) => Promised(i, k)'
           /\ Coming(i, k) => Coming(i, k)'
<1>1. /\ push[p].todo = {}
      /\ \A q \in Pushers : q # p => push'[q] = push[q]
  BY DEF ShapeInv, PushKinds, TypeInv, TypeOK, Pushers, Procs
<1>2. \A t \in Syncs : task[t].pc = "idle" => task[t].todo = {}
  BY DEF ShapeInv, TaskRest
<1>3. Promised(i, k) => Promised(i, k)'
  <2>1. CASE jobs[i][k] > 0
    BY <2>1 DEF Promised
  <2>2. ASSUME NEW t \in Syncs, k \in task[t].kinds,
               \/ task[t].pc = "start"
               \/ i \in task[t].todo
               \/ task[t].pc = "queue" /\ task[t].inst = i /\ k \notin task[t].found
        PROVE  Promised(i, k)'
    <3>1. task'[t] = task[t]
      BY <2>2, <1>2
    <3> QED
      BY <2>2, <3>1 DEF Promised
  <2>3. ASSUME NEW q \in Pushers, push[q].inst = i, k \in push[q].todo,
               push[q].kind = k => push[q].value = desired[k]
        PROVE  Promised(i, k)'
    BY <2>3, <1>1 DEF Promised
  <2> QED
    BY <2>1, <2>2, <2>3 DEF Promised
<1>4. Coming(i, k) => Coming(i, k)'
  <2>1. ASSUME NEW t \in Syncs, k \in task[t].kinds,
               task[t].pc = "start" \/ i \in task[t].todo \ task[t].held
        PROVE  Coming(i, k)'
    <3>1. task'[t] = task[t]
      BY <2>1, <1>2
    <3> QED
      BY <2>1, <3>1 DEF Coming
  <2>2. ASSUME NEW q \in Pushers, push[q].pc = "wait", push[q].inst = i, k \in push[q].todo
        PROVE  Coming(i, k)'
    BY <2>2, <1>1 DEF Coming
  <2> QED
    BY <2>1, <2>2 DEF Coming
<1> QED
  BY <1>3, <1>4

\* Nothing that a promise rests on has changed.
LEMMA SamePromises ==
    ASSUME UNCHANGED <<desired, jobs, task>>, \A p \in Pushers : push'[p] = push[p],
           NEW i \in Instances, NEW k \in Kinds
    PROVE  Promised(i, k)' = Promised(i, k) /\ Coming(i, k)' = Coming(i, k)
  BY DEF Promised, Coming

\* Steps that write to no node, drop no promise and touch no push under way.
LEMMA DeliveryQuiet ==
    ASSUME TypeInv, LeftAlone, DeliveryInv, ShapeInv', UNCHANGED node,
           \A p \in Pushers : push'[p].pc \in Critical => push'[p] = push[p],
           \A i \in Instances, k \in Kinds :
              /\ desired'[k] = desired[k] \/ (Promised(i, k)' /\ Coming(i, k)')
              /\ Promised(i, k) => Promised(i, k)'
              /\ ~row[i].maintenance /\ Coming(i, k) => Coming(i, k)'
    PROVE  DeliveryInv'
<1>1. \A p \in Pushers, i \in Instances :
         push[p].inst = i => ~row[i].maintenance
  BY PushedTo
<1>2. Sent'
  <2> HIDE DEF Coming
  <2> QED
    BY <1>1, SentKept DEF DeliveryInv
<1>3. AllPromised'
  BY PromisesKept DEF DeliveryInv
<1> QED
  BY <1>2, <1>3 DEF DeliveryInv

LEMMA DeliverySync ==
    ASSUME TypeInv, LeftAlone, DeliveryInv, NEW s \in Syncs, SyncStep(s)
    PROVE  DeliveryInv'
<1>a. push \in [Procs -> PushType] /\ s \in Procs /\ Pushers \subseteq Procs
  BY DEF TypeInv, TypeOK, Procs, Pushers
<1>1. ShapeInv /\ ShapeInv'
  BY ShapeSync DEF DeliveryInv
<1>2. UNCHANGED <<node, desired>>
  BY DEF SyncStep, SyncSelect, SyncPush, SyncHold, SyncQueue, SyncDone, nodes, database
<1>3. \A p \in Pushers : push'[p].pc \in Critical => push'[p] = push[p]
  <2>1. CASE SyncPush(s)
    BY <1>a, <2>1 DEF SyncPush, PushRequest, NoPush, Critical
  <2>2. CASE SyncSelect(s) \/ SyncHold(s) \/ SyncQueue(s) \/ SyncDone(s)
    BY <2>2 DEF SyncSelect, SyncHold, SyncQueue, SyncDone
  <2> QED
    BY <2>1, <2>2 DEF SyncStep
<1>4. \A i \in Instances, k \in Kinds :
         /\ Promised(i, k) => Promised(i, k)'
         /\ ~row[i].maintenance /\ Coming(i, k) => Coming(i, k)'
  BY <1>1, SyncPromises
<1> HIDE DEF Promised, Coming
<1> QED
  BY <1>1, <1>2, <1>3, <1>4, DeliveryQuiet

LEMMA DeliveryRetry ==
    ASSUME TypeInv, LeftAlone, DeliveryInv, NEW r \in Retries, RetryStep(r)
    PROVE  DeliveryInv'
<1>a. /\ push \in [Procs -> PushType]
      /\ r \in Procs /\ r \in Pushers /\ Pushers \subseteq Procs
      /\ retry[r] \in RetryType
  BY DEF TypeInv, TypeOK, Procs, Pushers
<1>1. ShapeInv /\ ShapeInv'
  BY ShapeRetry DEF DeliveryInv
<1>2. UNCHANGED <<node, desired, jobs, task>>
  BY DEF RetryStep, RetrySelect, RetryPush, RetryDone, nodes, database
<1>3. \A p \in Pushers : push'[p].pc \in Critical => push'[p] = push[p]
  BY <1>a DEF RetryStep, RetrySelect, RetryPush, RetryDone, PushRequest, NoPush, Critical
<1>4. ASSUME NEW i \in Instances, NEW k \in Kinds
      PROVE  /\ Promised(i, k) => Promised(i, k)'
             /\ Coming(i, k) => Coming(i, k)'
  <2>1. CASE RetrySelect(r) \/ RetryDone(r)
    BY <2>1, <1>2, SamePromises DEF RetrySelect, RetryDone
  <2>2. CASE RetryPush(r)
    <3>1. PICK t \in retry[r].rows : push' = [push EXCEPT ![r] = PushRequest(t[1], {t[2]})]
      BY <2>2 DEF RetryPush
    <3>2. t[1] \in Instances /\ push[r].pc = "none"
      BY <2>2, <3>1, <1>a DEF RetryType, RetryPush
    <3> QED
      BY <3>1, <3>2, <1>a, <1>1, <1>2, RequestPromises
  <2> QED
    BY <2>1, <2>2 DEF RetryStep
<1> HIDE DEF Promised, Coming
<1> QED
  BY <1>1, <1>2, <1>3, <1>4, DeliveryQuiet

LEMMA DeliveryOperator ==
    ASSUME Harmless, TypeInv, LockInv, LeftAlone, DeliveryInv, Operator
    PROVE  DeliveryInv'
<1>a. /\ task \in [Syncs -> TaskType]
      /\ push \in [Procs -> PushType]
      /\ Syncs \subseteq Pushers /\ Pushers \subseteq Procs
      /\ PushOwned
  BY DEF TypeInv, TypeOK, Procs, Pushers, LockInv
<1>b. ShapeInv /\ ShapeInv'
  BY ShapeOperator DEF DeliveryInv
<1>1. ASSUME NEW s \in Syncs, NEW ks \in SUBSET Kinds, task[s].pc = "idle",
             task' = [task EXCEPT ![s] = [NoTask EXCEPT !.pc = "start", !.kinds = ks]],
             \A k \in Kinds \ ks : desired'[k] = desired[k],
             UNCHANGED <<node, jobs, push>>
      PROVE  DeliveryInv'
  <2>1. /\ task'[s].pc = "start"
        /\ task'[s].kinds = ks
        /\ \A t \in Syncs : t # s => task'[t] = task[t]
        /\ task[s].todo = {}
    BY <1>1, <1>a, <1>b DEF NoTask, ShapeInv, TaskRest
  <2>2. ASSUME NEW i \in Instances, NEW k \in ks
        PROVE  Promised(i, k)' /\ Coming(i, k)'
    BY <2>1 DEF Promised, Coming
  <2>3. ASSUME NEW i \in Instances, NEW k \in Kinds \ ks
        PROVE  /\ Promised(i, k) => Promised(i, k)'
               /\ Coming(i, k) => Coming(i, k)'
    BY <1>1, <2>1 DEF Promised, Coming
  <2> HIDE DEF Promised, Coming
  <2> QED
    BY <1>1, <1>b, <2>2, <2>3, DeliveryQuiet
<1>2. ASSUME NEW s \in Syncs, NEW ks \in EditScopes, Edit(s, ks)
      PROVE  DeliveryInv'
  <2>1. ks \in SUBSET Kinds
    BY DEF EditScopes
  <2>2. \A k \in Kinds \ ks : desired'[k] = desired[k]
    BY <1>2 DEF Edit, Edited
  <2> QED
    BY <1>1, <1>2, <2>1, <2>2 DEF Edit, nodes
<1>3. ASSUME NEW s \in Syncs, ForceSync(s)
      PROVE  DeliveryInv'
  BY <1>1, <1>3 DEF ForceSync, nodes, database
<1>4. ASSUME NEW s \in Syncs, NEW j \in Instances, ManualPush(s, j)
      PROVE  DeliveryInv'
  <2>1. /\ task[s].pc = "idle"
        /\ push' = [push EXCEPT ![s] = PushRequest(j, Kinds)]
        /\ \A t \in Syncs : task[t].pc # "idle" => task'[t] = task[t]
        /\ UNCHANGED <<node, desired, jobs>>
    BY <1>4, <1>a DEF ManualPush, nodes, database
  <2>2. push[s].pc = "none"
    BY <2>1, <1>a DEF PushOwned
  <2>3. \A i \in Instances, k \in Kinds :
           /\ Promised(i, k) => Promised(i, k)'
           /\ Coming(i, k) => Coming(i, k)'
    BY <2>1, <2>2, <1>a, <1>b, RequestPromises
  <2>4. \A p \in Pushers : push'[p].pc \in Critical => push'[p] = push[p]
    BY <2>1, <1>a DEF PushRequest, NoPush, Critical
  <2> HIDE DEF Promised, Coming
  <2> QED
    BY <2>1, <2>3, <2>4, <1>b, DeliveryQuiet
<1>5. CASE \/ \E i \in Instances : HoldBack(i) \/ Enable(i)
           \/ \E i \in Instances, r \in Retries : EndMaintenance(i, r)
  <2>1. UNCHANGED <<node, desired, jobs, task, push>>
    BY <1>5 DEF HoldBack, Enable, EndMaintenance, procs, nodes
  <2>2. \A i \in Instances, k \in Kinds :
           Promised(i, k)' = Promised(i, k) /\ Coming(i, k)' = Coming(i, k)
    BY <2>1, SamePromises
  <2> HIDE DEF Promised, Coming
  <2> QED
    BY <2>1, <2>2, <1>b, DeliveryQuiet
<1>6. ~\E i \in Instances : Disable(i) \/ \E k \in Kinds : DiscardJob(i, k)
  BY DEF Disable, DiscardJob, Event, Harmless
<1> QED
  BY <1>2, <1>3, <1>4, <1>5, <1>6 DEF Operator

LEMMA DeliveryEnvironment ==
    ASSUME Harmless, TypeInv, LeftAlone, DeliveryInv, Environment
    PROVE  DeliveryInv'
<1>1. ShapeInv'
  BY ShapeEnvironment DEF DeliveryInv
<1>2. /\ ~Crash
      /\ ~\E i \in Instances, k \in Kinds : Tamper(i, k)
  BY DEF Crash, Tamper, Event, Harmless
<1>3. /\ UNCHANGED <<node, desired, jobs, task>>
      /\ \A p \in Pushers : push'[p] = push[p]
  <2>1. CASE \E i \in Instances : GoDown(i) \/ ComeBack(i)
    BY <2>1 DEF GoDown, ComeBack, database, procs
  <2>2. CASE \E c \in Passes : PassDeadline(c)
    BY <2>2, PassElsewhere DEF PassDeadline, database, nodes
  <2> QED
    BY <1>2, <2>1, <2>2 DEF Environment
<1>4. \A i \in Instances, k \in Kinds :
         Promised(i, k)' = Promised(i, k) /\ Coming(i, k)' = Coming(i, k)
  BY <1>3, SamePromises
<1> HIDE DEF Promised, Coming
<1> QED
  BY <1>1, <1>3, <1>4, DeliveryQuiet

\* A write spoils no node that holds the newest revision, and touches no other node.
LEMMA LandedKeeps ==
    ASSUME TypeInv, FreshInv, UNCHANGED desired, NEW p \in Procs, push[p].pc = "write",
           node' = Landed(p), NEW i \in Instances, NEW k \in Kinds
    PROVE  /\ node[i][k] = desired[k] => node'[i][k] = desired[k]
           /\ i # push[p].inst \/ k # push[p].kind => node'[i][k] = node[i][k]
           /\ i = push[p].inst /\ k = push[p].kind => node'[i][k] = push[p].value
<1>1. /\ node \in NodeType
      /\ push[p].inst \in Instances /\ push[p].kind \in Kinds
      /\ push[p].value \in Nat
      /\ desired[push[p].kind] \in Nat
  BY DEF TypeInv, TypeOK, PushShape, PushType, NodeType
<1>2. node'[i][k] = IF i = push[p].inst /\ k = push[p].kind THEN push[p].value ELSE node[i][k]
  BY <1>1 DEF Landed, NodeType
<1>3. /\ node[push[p].inst][push[p].kind] <= push[p].value
      /\ push[p].value <= desired[push[p].kind]
  BY DEF FreshInv, WriteFresh
<1> QED
  BY <1>1, <1>2, <1>3

\* Whoever writes is alone at the node.
LEMMA AloneInside ==
    ASSUME TypeInv, LockMatchesHolder, NEW p \in Procs, push[p].pc \in Critical,
           NEW q \in Procs, push[q].pc \in Critical, push[p].inst = push[q].inst
    PROVE  p = q
<1>1. push[p].inst \in Instances
  BY DEF TypeInv, PushShape, Critical
<1>2. lock[push[p].inst] = p /\ lock[push[p].inst] = q
  BY <1>1 DEF LockMatchesHolder
<1> QED
  BY <1>2

LEMMA DeliveryPass ==
    ASSUME Harmless, TypeInv, LockInv, FreshInv, LeftAlone, DeliveryInv,
           NEW c \in Passes, PassStep(c) \/ PushLock(c) \/ PushStep(c)
    PROVE  DeliveryInv'
<1>a. /\ push \in [Procs -> PushType]
      /\ c \in Procs /\ Pushers \subseteq Procs
      /\ \A p \in Pushers : p # c
      /\ LockMatchesHolder
  BY ConstantsAssumption DEF TypeInv, TypeOK, Procs, Pushers, LockInv
<1>b. ShapeInv /\ ShapeInv'
  BY ShapePass, ShapePush, <1>a DEF DeliveryInv
<1>1. /\ UNCHANGED <<desired, jobs, task>>
      /\ UNCHANGED node \/ (push[c].pc = "write" /\ node' = Landed(c))
  <2>1. CASE PassStep(c)
    BY <2>1 DEF PassStep, PassStart, PassBegin, PassPull, PassDiff, PassVerify, PassPushFailed,
                PassSettle, PassDone, CallFails, nodes, database
  <2>2. CASE PushLock(c) \/ PushStep(c)
    <3>1. ~PushFailed(c) /\ ~PushApplied(c)
      BY <1>a DEF PushFailed, PushApplied, Pushers
    <3> QED
      BY <2>2, <3>1 DEF PushLock, PushStep, PushRead, PushWrite, Event, Harmless, nodes, database
  <2> QED
    BY <2>1, <2>2
<1>2. \A p \in Pushers : push'[p] = push[p]
  <2>1. CASE PassStep(c)
    BY <2>1, PassElsewhere
  <2>2. CASE PushLock(c) \/ PushStep(c)
    BY <2>2, <1>a DEF PushLock, PushStep, PushRead, PushWrite, PushFailed, PushApplied
  <2> QED
    BY <2>1, <2>2
<1>3. \A i \in Instances, k \in Kinds :
         Promised(i, k)' = Promised(i, k) /\ Coming(i, k)' = Coming(i, k)
  BY <1>1, <1>2, SamePromises
<1>4. CASE UNCHANGED node
  <2> HIDE DEF Promised, Coming
  <2> QED
    BY <1>1, <1>2, <1>3, <1>4, <1>b, DeliveryQuiet
<1>5. CASE push[c].pc = "write" /\ node' = Landed(c)
  <2>1. AllPromised'
    <3> HIDE DEF Promised
    <3>1. \A i \in Instances, k \in Kinds :
             node[i][k] = desired[k] => node'[i][k] = desired[k]
      BY <1>1, <1>5, <1>a, LandedKeeps
    <3> QED
      BY <3>1, <1>1, <1>3 DEF DeliveryInv, AllPromised
  <2>2. Sent'
    <3> HIDE DEF Coming
    <3>1. \A p \in Pushers, i \in Instances, k \in Kinds :
             push[p].pc \in Critical /\ push[p].inst = i => node'[i][k] = node[i][k]
      <4> SUFFICES ASSUME NEW p \in Pushers, NEW i \in Instances, NEW k \in Kinds,
                          push[p].pc \in Critical, push[p].inst = i
                   PROVE  node'[i][k] = node[i][k]
        OBVIOUS
      <4>1. push[c].inst # i
        BY <1>5, <1>a, AloneInside DEF Critical
      <4> QED
        BY <4>1, <1>1, <1>5, <1>a, LandedKeeps
    <3> QED
      BY <3>1, <1>1, <1>2, <1>3, SentKept DEF DeliveryInv
  <2> QED
    BY <2>1, <2>2, <1>b DEF DeliveryInv
<1> QED
  BY <1>1, <1>4, <1>5

\* What is coming is promised: a push that waits has read nothing yet.
LEMMA ComingPromised ==
    ASSUME ShapeInv', NEW i \in Instances, NEW k \in Kinds, Coming(i, k)'
    PROVE  Promised(i, k)'
<1>1. CASE \E s \in Syncs : /\ k \in task'[s].kinds
                            /\ task'[s].pc = "start" \/ i \in task'[s].todo \ task'[s].held
  BY <1>1 DEF Promised
<1>2. CASE \E p \in Pushers : push'[p].pc = "wait" /\ push'[p].inst = i /\ k \in push'[p].todo
  <2>1. None \notin Kinds
    BY ConstantsAssumption
  <2> QED
    BY <1>2, <2>1 DEF ShapeInv, PushKinds, Promised
<1> QED
  BY <1>1, <1>2 DEF Coming

\* A push moves, at a node where it is alone: what the others sent is as they sent it.
LEMMA SentOthers ==
    ASSUME TypeInv, LockMatchesHolder, Sent, NEW p \in Pushers,
           push[p].pc \in Critical \/ (push[p].pc = "wait" /\ lock[push[p].inst] = None),
           UNCHANGED <<desired, task>>, \A q \in Pushers \ {p} : push'[q] = push[q],
           \A i \in Instances \ {push[p].inst} : node'[i] = node[i],
           NEW q \in Pushers \ {p}, push[q].pc \in Critical,
           NEW i \in Instances, i = push[q].inst
    PROVE  /\ \A k \in push[q].kinds \ push[q].todo : node'[i][k] = desired[k] \/ Coming(i, k)'
           /\ push[q].pc = "write" =>
                 push[q].value = desired[push[q].kind] \/ Coming(i, push[q].kind)'
<1>1. /\ p \in Procs /\ q \in Procs
      /\ push[p].inst \in Instances
      /\ push[q].kinds \subseteq Kinds
      /\ push[q].pc = "write" => push[q].kind \in Kinds
  BY DEF TypeInv, TypeOK, PushShape, PushType, Critical, Pushers, Procs
<1>2. i # push[p].inst
  <2>1. lock[i] = q
    BY <1>1 DEF LockMatchesHolder
  <2>2. q # None /\ q # p
    BY <1>1, ConstantsAssumption
  <2> QED
    BY <2>1, <2>2, <1>1, AloneInside
<1>3. \A k \in Kinds : Coming(i, k) => Coming(i, k)'
  BY <1>2 DEF Coming
<1>4. /\ \A k \in push[q].kinds \ push[q].todo : node[i][k] = desired[k] \/ Coming(i, k)
      /\ push[q].pc = "write" =>
            push[q].value = desired[push[q].kind] \/ Coming(i, push[q].kind)
  BY DEF Sent
<1> HIDE DEF Coming
<1> QED
  BY <1>1, <1>2, <1>3, <1>4

\* Its own part of the two invariants is then what is left to show.
LEMMA PushDelivers ==
    ASSUME TypeInv, LockMatchesHolder, DeliveryInv, ShapeInv', NEW p \in Pushers,
           push[p].pc \in Critical \/ (push[p].pc = "wait" /\ lock[push[p].inst] = None),
           UNCHANGED <<desired, task>>, \A q \in Pushers \ {p} : push'[q] = push[q],
           \A i \in Instances \ {push[p].inst} : node'[i] = node[i] /\ jobs'[i] = jobs[i],
           push'[p].pc \in Critical => push'[p].inst = push[p].inst,
           NEW i \in Instances, i = push[p].inst,
           push'[p].pc \in Critical =>
              \A k \in push'[p].kinds \ push'[p].todo : node'[i][k] = desired[k] \/ Coming(i, k)',
           push'[p].pc = "write" =>
              push'[p].value = desired[push'[p].kind],
           \A k \in Kinds :
              desired[k] > 0 => node'[i][k] = desired[k] \/ Promised(i, k)'
    PROVE  DeliveryInv'
<1>1. Sent'
  <2> SUFFICES ASSUME NEW q \in Pushers, push'[q].pc \in Critical,
                      NEW j \in Instances, j = push'[q].inst
               PROVE  /\ \A k \in push'[q].kinds \ push'[q].todo :
                            node'[j][k] = desired[k] \/ Coming(j, k)'
                      /\ push'[q].pc = "write" =>
                            \/ push'[q].value = desired[push'[q].kind]
                            \/ \E k \in Kinds : k = push'[q].kind /\ Coming(j, k)'
    <3>1. \A q \in Pushers : push'[q].pc \in Critical => push'[q].inst \in Instances
      BY DEF TypeInv, PushShape, Critical, Pushers, Procs
    <3> QED
      BY <3>1 DEF Sent
  <2>1. CASE q = p
    <3> HIDE DEF Coming
    <3> QED
      BY <2>1
  <2>2. CASE q # p
    <3>1. push'[q] = push[q]
      BY <2>2
    <3>2. push[q].pc = "write" => push[q].kind \in Kinds
      BY DEF TypeInv, PushShape, Pushers, Procs
    <3>3. /\ \A k \in push[q].kinds \ push[q].todo : node'[j][k] = desired[k] \/ Coming(j, k)'
          /\ push[q].pc = "write" =>
                push[q].value = desired[push[q].kind] \/ Coming(j, push[q].kind)'
      BY <3>1, <2>2, SentOthers DEF DeliveryInv
    <3> QED
      BY <3>1, <3>2, <3>3
  <2> QED
    BY <2>1, <2>2
<1>2. AllPromised'
  <2> SUFFICES ASSUME NEW j \in Instances, NEW k \in Kinds, j # i, desired[k] > 0
               PROVE  node'[j][k] = desired[k] \/ Promised(j, k)'
    BY DEF AllPromised
  <2>1. node[j][k] = desired[k] \/ Promised(j, k)
    BY DEF DeliveryInv, AllPromised
  <2>2. Promised(j, k) => Promised(j, k)'
    BY DEF Promised
  <2> HIDE DEF Promised
  <2> QED
    BY <2>1, <2>2
<1> QED
  BY <1>1, <1>2 DEF DeliveryInv

LEMMA DeliveryPush ==
    ASSUME Harmless, TypeInv, LockInv, FreshInv, DeliveryInv,
           NEW p \in Pushers, PushLock(p) \/ PushStep(p),
           NEW i \in Instances, i = push[p].inst
    PROVE  DeliveryInv'
<1>a. /\ push \in [Procs -> PushType]
      /\ jobs \in [Instances -> [Kinds -> Nat]]
      /\ node \in NodeType
      /\ p \in Procs /\ p \notin Passes /\ push[p] \in PushType
      /\ Pushers \subseteq Procs
      /\ LockMatchesHolder
      /\ None \notin Kinds
      /\ NoPush.pc \notin Critical /\ NoPush.todo = {}
  BY ConstantsAssumption DEF TypeInv, TypeOK, Procs, Pushers, LockInv, NodeType, NoPush, Critical
<1>b. /\ ShapeInv /\ ShapeInv' /\ Sent
      /\ push[p].todo \subseteq push[p].kinds
      /\ push[p].pc = "wait" => push[p].todo = push[p].kinds
      /\ push[p].pc # "write" => push[p].kind = None
      /\ push[p].pc = "write" => push[p].kind \in push[p].todo
  BY <1>a, ShapePush DEF DeliveryInv, ShapeInv, PushKinds
<1>c. /\ UNCHANGED <<desired, task>>
      /\ push[p].pc \in Critical \/ (push[p].pc = "wait" /\ lock[push[p].inst] = None)
      /\ \A q \in Pushers \ {p} : push'[q] = push[q]
  BY <1>a DEF PushLock, PushStep, PushRead, PushWrite, PushFailed, PushApplied, ReadingBack,
              database, Critical
<1>k. push[p].pc = "write" => push[p].kind \in Kinds
  BY <1>a DEF TypeInv, PushShape
<1>o. \A k \in Kinds : desired[k] > 0 => node[i][k] = desired[k] \/ Promised(i, k)
  BY DEF DeliveryInv, AllPromised
<1>t. push[p].pc \in Critical =>
         /\ \A k \in push[p].kinds \ push[p].todo : node[i][k] = desired[k] \/ Coming(i, k)
         /\ push[p].pc = "write" => push[p].value = desired[push[p].kind] \/ Coming(i, push[p].kind)
  BY <1>b DEF Sent
\* A push that is under way is not what is coming.
<1>d. ASSUME push[p].pc \in Critical, NEW k
      PROVE  Coming(i, k) => Coming(i, k)'
  <2>1. push[p].pc # "wait"
    BY <1>d DEF Critical
  <2> QED
    BY <2>1, <1>c DEF Coming
<1>1. CASE PushLock(p)
  <2>1. /\ UNCHANGED <<node, jobs>>
        /\ push'[p].inst = push[p].inst
        /\ push'[p].pc = "locked"
        /\ push'[p].kinds = push'[p].todo
        /\ push'[p].todo = push[p].todo
        /\ push'[p].kind = None
        /\ push[p].pc = "wait"
    BY <1>1, <1>a, <1>b DEF PushLock, PushType, nodes, database
  <2>2. \A k \in Kinds : Promised(i, k) => Promised(i, k)'
    BY <2>1, <1>c, <1>a DEF Promised
  <2> HIDE DEF Promised, Coming
  <2> QED
    BY <2>1, <2>2, <1>a, <1>b, <1>c, <1>o, PushDelivers
<1>2. CASE PushRead(p)
  <2>1. PICK k \in push[p].todo : push' = [push EXCEPT ![p] =
           [push[p] EXCEPT !.pc = "write", !.kind = k, !.value = desired[k]]]
    BY <1>2 DEF PushRead
  <2>2. /\ UNCHANGED <<node, jobs>>
        /\ push[p].pc = "locked"
        /\ push'[p].inst = push[p].inst
        /\ push'[p].pc = "write"
        /\ push'[p].kinds = push[p].kinds
        /\ push'[p].todo = push[p].todo
        /\ push'[p].kind = k
        /\ push'[p].value = desired[k]
    BY <1>2, <2>1, <1>a DEF PushRead, PushType, nodes, database
  <2>3. \A m \in Kinds : Promised(i, m) => Promised(i, m)'
    BY <2>2, <1>c, <1>a, <1>b DEF Promised
  <2> HIDE DEF Promised, Coming
  <2>4. \A m \in push'[p].kinds \ push'[p].todo : node'[i][m] = desired[m] \/ Coming(i, m)'
    BY <2>2, <1>d, <1>t DEF Critical
  <2>5. push'[p].value = desired[push'[p].kind]
    BY <2>2
  <2> QED
    BY <2>2, <2>3, <2>4, <2>5, <1>a, <1>b, <1>c, <1>o, PushDelivers
<1>3. CASE PushWrite(p)
  <2>k. PICK k \in Kinds : k = push[p].kind
    BY <1>3, <1>k DEF PushWrite
  <2>1. /\ push[p].pc = "write"
        /\ node' = Landed(p)
        /\ push' = [push EXCEPT ![p] = KindDone(p)]
        /\ UNCHANGED jobs
    BY <1>3, <1>a DEF PushWrite, Event, Harmless, database
  <2>2. /\ push'[p].inst = push[p].inst
        /\ push'[p].pc = "locked"
        /\ push'[p].kinds = push[p].kinds
        /\ push'[p].todo = push[p].todo \ {k}
        /\ push'[p].kind = None
    BY <2>1, <2>k, <1>a DEF KindDone, PushType
  <2>3. /\ \A j \in Instances \ {i} : node'[j] = node[j]
        /\ \A m \in Kinds \ {k} : node'[i][m] = node[i][m]
        /\ node'[i][k] = push[p].value
    BY <2>1, <2>k, <1>a DEF Landed, NodeType
  <2>4. \A m \in Kinds \ {k} : Promised(i, m) => Promised(i, m)'
    BY <2>1, <2>2, <2>k, <1>c, <1>a DEF Promised
  <2>5. \A m \in Kinds : Coming(i, m) => Coming(i, m)'
    BY <2>1, <1>d DEF Critical
  <2>6. \A m \in Kinds : Coming(i, m)' => Promised(i, m)'
    BY <1>b, ComingPromised
  <2> HIDE DEF Promised, Coming
  <2>7. node'[i][k] = desired[k] \/ Coming(i, k)'
    BY <2>1, <2>3, <2>5, <2>k, <1>t DEF Critical
  <2>8. \A m \in push'[p].kinds \ push'[p].todo : node'[i][m] = desired[m] \/ Coming(i, m)'
    BY <2>1, <2>2, <2>3, <2>5, <2>7, <1>a, <1>t DEF Critical, PushType
  <2>9. \A m \in Kinds : desired[m] > 0 => node'[i][m] = desired[m] \/ Promised(i, m)'
    BY <2>3, <2>4, <2>6, <2>7, <1>o
  <2> QED
    BY <2>1, <2>2, <2>3, <2>8, <2>9, <1>a, <1>b, <1>c, PushDelivers
<1>4. CASE PushFailed(p)
  <2>1. /\ push[p].pc \in Critical
        /\ push' = [push EXCEPT ![p] = NoPush]
        /\ jobs' = QueueJobs(i, push[p].kinds)
        /\ UNCHANGED node \/ (push[p].pc = "write" /\ node' = Landed(p))
    BY <1>4 DEF PushFailed, ReadingBack, CallFails, Critical
  <2>2. /\ push'[p].pc \notin Critical /\ push'[p].todo = {}
        /\ \A j \in Instances \ {i} : jobs'[j] = jobs[j]
        /\ \A m \in push[p].kinds : jobs'[i][m] > 0
        /\ \A m \in Kinds : jobs[i][m] > 0 => jobs'[i][m] > 0
    BY <2>1, <1>a DEF QueueJobs, PushType
  <2>3. \A j \in Instances \ {i} : node'[j] = node[j]
    BY <2>1, <1>a DEF Landed, NodeType
  <2>4. \A m \in Kinds : node[i][m] = desired[m] => node'[i][m] = desired[m]
    BY <2>1, <1>a, <1>c, LandedKeeps
  <2>5. \A m \in Kinds : Promised(i, m) => Promised(i, m)'
    BY <2>1, <2>2, <1>a, <1>b, <1>c DEF Promised
  <2> HIDE DEF Promised, Coming
  <2>6. push'[p].pc # "write"
    BY <2>2 DEF Critical
  <2> QED
    BY <2>1, <2>2, <2>3, <2>4, <2>5, <2>6, <1>a, <1>b, <1>c, <1>o, PushDelivers
<1>5. CASE PushApplied(p)
  <2>1. /\ push[p].pc = "locked" /\ push[p].todo = {}
        /\ push' = [push EXCEPT ![p] = NoPush]
        /\ jobs' = CloseJobs(i, push[p].kinds)
        /\ UNCHANGED node
    BY <1>5 DEF PushApplied, ReadingBack, nodes
  <2>2. /\ push'[p].pc \notin Critical /\ push'[p].todo = {}
        /\ \A j \in Instances \ {i} : jobs'[j] = jobs[j]
        /\ \A m \in Kinds \ push[p].kinds : jobs'[i][m] = jobs[i][m]
    BY <2>1, <1>a DEF CloseJobs
  <2>3. \A m \in Kinds \ push[p].kinds : Promised(i, m) => Promised(i, m)'
    BY <2>1, <2>2, <1>a, <1>c DEF Promised
  <2>4. \A m \in Kinds : Coming(i, m) => Coming(i, m)'
    BY <2>1, <1>d DEF Critical
  <2>5. \A m \in Kinds : Coming(i, m)' => Promised(i, m)'
    BY <1>b, ComingPromised
  <2> HIDE DEF Promised, Coming
  <2>6. \A m \in push[p].kinds : node[i][m] = desired[m] \/ Coming(i, m)
    BY <2>1, <1>t DEF Critical
  <2>7. \A m \in Kinds : desired[m] > 0 => node'[i][m] = desired[m] \/ Promised(i, m)'
    BY <2>1, <2>3, <2>4, <2>5, <2>6, <1>o
  <2>8. push'[p].pc # "write"
    BY <2>2 DEF Critical
  <2> QED
    BY <2>1, <2>2, <2>7, <2>8, <1>a, <1>b, <1>c, PushDelivers
<1> QED
  BY <1>1, <1>2, <1>3, <1>4, <1>5 DEF PushStep

LEMMA DeliveryInvariance ==
    ASSUME Harmless
    PROVE  Spec => []DeliveryInv
<1>1. TypeInv /\ LockInv /\ FreshInv /\ LeftAlone /\ DeliveryInv /\ [Next]_vars => DeliveryInv'
  <2> SUFFICES ASSUME TypeInv, LockInv, FreshInv, LeftAlone, DeliveryInv, [Next]_vars
               PROVE  DeliveryInv'
    OBVIOUS
  <2>1. ASSUME NEW p \in Procs, PushLock(p) \/ PushStep(p)
        PROVE  DeliveryInv'
    <3>1. CASE p \in Passes
      BY <2>1, <3>1, DeliveryPass
    <3>2. CASE p \in Pushers
      <4>1. push[p].inst \in Instances
        BY <2>1 DEF TypeInv, PushShape, PushLock, PushStep, PushRead, PushWrite, PushFailed,
                    PushApplied, ReadingBack
      <4> QED
        BY <2>1, <3>2, <4>1, DeliveryPush
    <3> QED
      BY <3>1, <3>2 DEF Procs, Pushers
  <2>2. CASE Next
    BY <2>1, <2>2, DeliverySync, DeliveryRetry, DeliveryPass, DeliveryOperator,
       DeliveryEnvironment DEF Next
  <2>3. CASE UNCHANGED vars
    BY <2>3 DEF vars, database, nodes, procs, DeliveryInv, ShapeInv, PushKinds, TaskRest,
                AllEnabled, Sent, AllPromised, Coming, Promised
  <2> QED
    BY <2>2, <2>3
<1>2. Spec => []LeftAlone
  BY AloneInvariance DEF Harmless
<1> QED
  BY DeliveryInit, TypeInvariance, LockInvariance, FreshInvariance, <1>1, <1>2, PTL DEF Spec

\* Whatever number of nodes, tasks and retry passes there is, and however edits, manual
\* pushes, failing calls, outages and maintenance interleave with them: a node that does
\* not hold the newest revision of a kind is owed it by an open job, a task or a push.
\* No correction of a reconciliation pass is needed for it.
THEOREM EditsDelivered ==
    ASSUME Harmless
    PROVE  Spec => []NothingForgotten
<1>1. DeliveryInv => NothingForgotten
  BY DEF DeliveryInv, AllPromised, Promised, NothingForgotten, Owed, Pushers
<1> QED
  BY DeliveryInvariance, <1>1, PTL
=============================================================================

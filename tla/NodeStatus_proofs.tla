-------------------------- MODULE NodeStatus_proofs -------------------------
(* The type invariant of NodeStatus, for every value of its constants.     *)
EXTENDS NodeStatus, TLAPS

\* The texts of failed calls are last_error texts.
LEMMA CallErrors ==
    \A k : PushError(k) \in Errors /\ PullError(k) \in Errors
  BY DEF PushError, PullError, Errors

LEMMA IdleType == Idle \in SessType
  BY DEF Idle, SessType, Statuses, Errors

\* A session that loads the row, or is left with what it just wrote.
LEMMA ViewType ==
    ASSUME TypeOK
    PROVE  View \in [status : Statuses, error : Errors]
  BY DEF TypeOK, View

LEMMA PushRequestType ==
    ASSUME NEW view \in [status : Statuses, error : Errors], NEW ks \in SUBSET Kinds
    PROVE  PushRequest(view, ks) \in SessType
  BY DEF PushRequest, Idle, SessType, Statuses, Errors

LEMMA SavedType ==
    ASSUME TypeOK, NEW p \in Procs, NEW status \in Statuses, NEW error \in Errors
    PROVE  Saved(p, status, error) \in
               [enabled : BOOLEAN, maintenance : BOOLEAN, status : Statuses, error : Errors]
  BY DEF TypeOK, Saved

LEMMA NextRowType ==
    ASSUME TypeOK, NEW p \in Procs, NEW status \in Statuses, NEW error \in Errors
    PROVE  NextRow(p, status, error) \in SessType
  <1>1. sess[p].todo \in SUBSET Kinds
    BY DEF TypeOK, SessType
  <1> QED
    BY <1>1 DEF NextRow, Idle, SessType, Statuses, Errors

LEMMA ReplayType ==
    ASSUME TypeOK, NEW h \in Procs, NEW status \in Statuses, NEW error \in Errors
    PROVE  Replay(h, status, error) \in SessType
  <1>1. OpenRows \in SUBSET Kinds
    BY DEF TypeOK, OpenRows
  <1> QED
    BY <1>1 DEF Replay, Idle, SessType, Statuses, Errors

\* What was told keeps its type whatever is told next.
ToldType == [last : {"none", "outage", "recovery"}, reported : SUBSET Errors,
             again : BOOLEAN]

LEMMA ToldTypes ==
    ASSUME told \in ToldType
    PROVE  /\ Alarmed \in ToldType
           /\ \A t \in ToldType, e \in Errors : Reported(t, e) \in ToldType
           /\ \A s : Recovered(s) \in ToldType
  <1>1. Alarmed \in ToldType
    BY DEF Alarmed, ToldType
  <1>2. ASSUME NEW t \in ToldType, NEW e \in Errors
        PROVE  Reported(t, e) \in ToldType
    <2>1. ASSUME NEW b \in BOOLEAN
          PROVE  [t EXCEPT !.reported = t.reported \union {e}, !.again = b] \in ToldType
      BY <2>1 DEF ToldType
    <2>2. (e \in t.reported) \in BOOLEAN
      OBVIOUS
    <2> QED
      BY <2>1, <2>2, Zenon DEF Reported
  <1>3. ASSUME NEW s
        PROVE  Recovered(s) \in ToldType
    BY <1>3 DEF Recovered, ToldType
  <1> QED
    BY <1>1, <1>2, <1>3

\* A call keeps the type of the sessions and of the event counter.
LEMMA CallType ==
    ASSUME TypeOK, NEW p \in Procs, NEW answered \in SessType,
           NEW failed \in {"pushFailed", "probeFailed", "pullFailed"}, NEW error \in Errors,
           Call(p, answered, failed, error)
    PROVE  sess' \in [Procs -> SessType] /\ events' \in Nat
  <1>1. sess \in [Procs -> SessType] /\ events \in Nat
    BY DEF TypeOK
  <1>2. [sess[p] EXCEPT !.pc = failed, !.error = error] \in SessType
    BY <1>1 DEF SessType
  <1> QED
    BY <1>1, <1>2 DEF Call, Event

\* One step of one process, by role.
LEMMA TypeStep ==
    ASSUME TypeOK, [Next]_vars
    PROVE  TypeOK'
  <1>a. /\ row \in [enabled : BOOLEAN, maintenance : BOOLEAN,
                    status : Statuses, error : Errors]
        /\ open \in SUBSET Kinds
        /\ up \in BOOLEAN
        /\ sess \in [Procs -> SessType]
        /\ told \in ToldType
        /\ events \in Nat
    BY DEF TypeOK, ToldType
  <1>b. /\ row' \in [enabled : BOOLEAN, maintenance : BOOLEAN,
                     status : Statuses, error : Errors]
        /\ open' \in SUBSET Kinds
        /\ up' \in BOOLEAN
        /\ sess' \in [Procs -> SessType]
        /\ told' \in ToldType
        /\ events' \in Nat
        => TypeOK'
    BY DEF TypeOK, ToldType
  <1>c. /\ Alarmed \in ToldType
        /\ \A t \in ToldType, e \in Errors : Reported(t, e) \in ToldType
        /\ \A s : Recovered(s) \in ToldType
    BY <1>a, ToldTypes
  <1>d. \A p \in Procs : sess[p] \in SessType
    BY <1>a
  <1>e. \A p \in Procs :
          /\ sess[p].view \in [status : Statuses, error : Errors]
          /\ sess[p].error \in Errors
          /\ sess[p].todo \in SUBSET Kinds
          /\ sess[p].kinds \in SUBSET Kinds
          /\ sess[p].left \in SUBSET Kinds
    BY <1>d DEF SessType
  <1>f. \A s \in SessType, p \in Procs : [sess EXCEPT ![p] = s] \in [Procs -> SessType]
    BY <1>a
  <1>g. {"online", "unreachable", "disabled"} \subseteq Statuses /\ "" \in Errors
    BY DEF Statuses, Errors
  <1>1. ASSUME NEW p \in Procs, PushLock(p)
        PROVE  TypeOK'
    <2>1. [sess[p] EXCEPT !.pc = "push"] \in SessType
      BY <1>d DEF SessType
    <2> QED
      BY <1>1, <1>a, <1>b, <1>f, <2>1 DEF PushLock
  <1>2. ASSUME NEW p \in Procs, PushKind(p)
        PROVE  TypeOK'
    <2> DEFINE k == First(sess[p].left)
               s == [sess[p] EXCEPT !.left = sess[p].left \ {k}]
    <2>1. s \in SessType
      BY <1>d DEF SessType
    <2>2. Call(p, s, "pushFailed", PushError(k))
      BY <1>2 DEF PushKind
    <2>3. sess' \in [Procs -> SessType] /\ events' \in Nat
      <3> HIDE DEF s, k
      <3> QED
        BY <2>1, <2>2, CallErrors, CallType
    <2> QED
      BY <1>2, <1>a, <1>b, <2>3 DEF PushKind
  <1>3. ASSUME NEW p \in Procs, PushReadBack(p)
        PROVE  TypeOK'
    <2> DEFINE s == [sess[p] EXCEPT !.pc = "pushed"]
               r == [sess[p] EXCEPT !.pc = "pushed", !.error = "not kept"]
    <2>1. s \in SessType /\ r \in SessType
      <3>1. sess[p] \in SessType
        BY <1>d
      <3>2. s \in SessType
        BY <3>1 DEF SessType
      <3>3. r \in SessType
        BY <3>1 DEF SessType, Errors
      <3> QED
        BY <3>2, <3>3
    <2>2. "GET filtering/status" \in Errors
      BY DEF Errors
    <2>3. \/ Call(p, s, "pushFailed", "GET filtering/status")
          \/ sess' = [sess EXCEPT ![p] = r] /\ Event("refuse")
          \/ sess' = [sess EXCEPT ![p] = s] /\ events' = events
      BY <1>3 DEF PushReadBack
    <2>4. sess' \in [Procs -> SessType] /\ events' \in Nat
      <3> HIDE DEF s, r
      <3>1. CASE Call(p, s, "pushFailed", "GET filtering/status")
        BY <3>1, <2>1, <2>2, CallType
      <3>2. CASE sess' = [sess EXCEPT ![p] = r] /\ Event("refuse")
        BY <3>2, <2>1, <1>a, <1>f DEF Event
      <3>3. CASE sess' = [sess EXCEPT ![p] = s] /\ events' = events
        BY <3>3, <2>1, <1>a, <1>f
      <3> QED
        BY <3>1, <3>2, <3>3, <2>3
    <2> QED
      BY <1>3, <1>a, <1>b, <2>4 DEF PushReadBack
  <1>4. ASSUME NEW p \in Procs, PushFailed(p)
        PROVE  TypeOK'
    <2>1. Saved(p, "unreachable", sess[p].error) \in
              [enabled : BOOLEAN, maintenance : BOOLEAN, status : Statuses, error : Errors]
      BY <1>e, <1>g, SavedType
    <2>2. NextRow(p, "unreachable", sess[p].error) \in SessType
      BY <1>e, <1>g, NextRowType
    <2>3. told' \in ToldType
      <3> DEFINE alarmed == IF sess[p].view.status = "online" THEN Alarmed ELSE told
      <3>1. alarmed \in ToldType
        BY <1>a, <1>c
      <3>2. told' \in {Reported(alarmed, sess[p].error), alarmed}
        BY <1>4 DEF PushFailed
      <3> HIDE DEF alarmed
      <3> QED
        BY <3>1, <3>2, <1>c, <1>e
    <2>4. open' \in SUBSET Kinds
      BY <1>4, <1>a, <1>e DEF PushFailed
    <2> QED
      BY <1>4, <1>a, <1>b, <1>f, <2>1, <2>2, <2>3, <2>4 DEF PushFailed
  <1>5. ASSUME NEW p \in Procs, PushApplied(p)
        PROVE  TypeOK'
    <2>1. Saved(p, "online", sess[p].error) \in
              [enabled : BOOLEAN, maintenance : BOOLEAN, status : Statuses, error : Errors]
      BY <1>e, <1>g, SavedType
    <2>2. NextRow(p, "online", sess[p].error) \in SessType
      BY <1>e, <1>g, NextRowType
    <2>3. open' \in SUBSET Kinds
      BY <1>5, <1>a DEF PushApplied
    <2>4. told' \in ToldType
      <3> DEFINE back == Recovered(sess[p].view.status)
      <3>1. back \in ToldType
        BY <1>c
      <3>2. Reported(back, sess[p].error) \in ToldType
        <4> HIDE DEF back
        <4> QED
          BY <3>1, <1>c, <1>e
      <3> QED
        BY <1>5, <3>1, <3>2 DEF PushApplied
    <2> QED
      BY <1>5, <1>b, <1>a, <1>f, <2>1, <2>2, <2>3, <2>4 DEF PushApplied
  <1>6. ASSUME NEW p \in Procs, NEW ks \in EditScopes, SyncStart(p, ks)
        PROVE  TypeOK'
    <2>1. ks \in SUBSET Kinds
      BY <1>6 DEF EditScopes
    <2>2. PushRequest(View, ks) \in SessType
      BY <2>1, ViewType, PushRequestType
    <2> QED
      BY <1>6, <1>a, <1>b, <1>f, <2>1, <2>2 DEF SyncStart
  <1>7. ASSUME NEW p \in Procs, ManualPush(p)
        PROVE  TypeOK'
    <2>1. PushRequest(View, Kinds) \in SessType
      BY ViewType, PushRequestType
    <2> QED
      BY <1>7, <1>a, <1>b, <1>f, <2>1 DEF ManualPush, Event
  <1>8. ASSUME NEW p \in Procs, RetryStart(p)
        PROVE  TypeOK'
    <2> DEFINE s == [Idle EXCEPT !.pc = "rows", !.view = View, !.todo = OpenRows]
    <2>1. OpenRows \in SUBSET Kinds
      BY <1>a DEF OpenRows
    <2>2. s \in SessType
      BY <2>1, ViewType DEF Idle, SessType, Statuses, Errors
    <2> QED
      BY <1>8, <1>a, <1>b, <1>f, <2>2 DEF RetryStart
  <1>9. ASSUME NEW p \in Procs, RetryPush(p)
        PROVE  TypeOK'
    <2>1. PICK k \in sess[p].todo : sess' = [sess EXCEPT ![p] =
              [PushRequest(sess[p].view, {k}) EXCEPT !.todo = sess[p].todo \ {k}]]
      BY <1>9 DEF RetryPush
    <2>2. PushRequest(sess[p].view, {k}) \in SessType
      BY <1>e, PushRequestType
    <2>3. [PushRequest(sess[p].view, {k}) EXCEPT !.todo = sess[p].todo \ {k}] \in SessType
      BY <1>e, <2>2 DEF SessType
    <2> QED
      BY <1>9, <1>a, <1>b, <1>f, <2>1, <2>3 DEF RetryPush
  <1>10. ASSUME NEW h \in Procs, Test(h)
         PROVE  TypeOK'
    <2> DEFINE s == [Idle EXCEPT !.pc = "probe", !.view = View]
               r == [row EXCEPT !.status = "disabled"]
    <2>1. s \in SessType
      BY ViewType DEF Idle, SessType, Statuses, Errors
    <2>2. r \in [enabled : BOOLEAN, maintenance : BOOLEAN,
                 status : Statuses, error : Errors]
      BY <1>a, <1>g
    <2> QED
      BY <1>10, <1>a, <1>b, <1>f, <2>1, <2>2 DEF Test
  <1>11. ASSUME NEW h \in Procs, Probe(h)
         PROVE  TypeOK'
    <2> DEFINE s == [sess[h] EXCEPT !.pc = "probed"]
    <2>1. s \in SessType
      BY <1>d DEF SessType
    <2>2. Call(h, s, "probeFailed", "GET status")
      BY <1>11 DEF Probe
    <2>3. "GET status" \in Errors
      BY DEF Errors
    <2>4. sess' \in [Procs -> SessType] /\ events' \in Nat
      <3> HIDE DEF s
      <3> QED
        BY <2>1, <2>2, <2>3, CallType
    <2> QED
      BY <1>11, <1>a, <1>b, <2>4 DEF Probe
  <1>12. ASSUME NEW h \in Procs, ProbeFailed(h)
         PROVE  TypeOK'
    <2>1. Saved(h, "unreachable", sess[h].error) \in
              [enabled : BOOLEAN, maintenance : BOOLEAN, status : Statuses, error : Errors]
      BY <1>e, <1>g, SavedType
    <2>2. Replay(h, "unreachable", sess[h].error) \in SessType
      BY <1>e, <1>g, ReplayType
    <2> QED
      BY <1>12, <1>a, <1>b, <1>c, <1>f, <2>1, <2>2 DEF ProbeFailed
  <1>13. ASSUME NEW h \in Procs, Probed(h)
         PROVE  TypeOK'
    <2>1. Saved(h, "online", "") \in
              [enabled : BOOLEAN, maintenance : BOOLEAN, status : Statuses, error : Errors]
      BY <1>g, SavedType
    <2>2. Replay(h, "online", "") \in SessType
      BY <1>g, ReplayType
    <2> QED
      BY <1>13, <1>a, <1>b, <1>c, <1>f, <2>1, <2>2 DEF Probed
  <1>14. ASSUME NEW h \in Procs, NEW enabled \in BOOLEAN, NEW maintenance \in BOOLEAN,
                Switch(h, enabled, maintenance)
         PROVE  TypeOK'
    <2> DEFINE status == Switched(enabled, maintenance)
               r == [row EXCEPT !.enabled = enabled, !.maintenance = maintenance,
                                !.status = status]
               s == [Idle EXCEPT !.pc = "probe", !.replay = row.maintenance,
                                 !.view = [status |-> status, error |-> row.error]]
    <2>1. status \in Statuses
      BY DEF Switched, Statuses
    <2>2. r \in [enabled : BOOLEAN, maintenance : BOOLEAN,
                 status : Statuses, error : Errors]
      <3> HIDE DEF status
      <3> QED
        BY <2>1, <1>a
    <2>3. s \in SessType
      <3>1. row.maintenance \in BOOLEAN /\ row.error \in Errors
        BY <1>a
      <3> HIDE DEF status
      <3> QED
        BY <2>1, <3>1 DEF Idle, SessType, Statuses, Errors
    <2>4. row' = r /\ sess' \in {sess, [sess EXCEPT ![h] = s]} /\ events' = events + 1
      BY <1>14 DEF Switch, Event
    <2> HIDE DEF r, s, status
    <2>5. sess' \in [Procs -> SessType]
      BY <2>3, <2>4, <1>a, <1>f
    <2> QED
      BY <1>14, <1>a, <1>b, <2>2, <2>4, <2>5 DEF Switch
  <1>15. ASSUME NEW c \in Procs, PassStart(c)
         PROVE  TypeOK'
    <2> DEFINE s == [Idle EXCEPT !.pc = "pull", !.view = View, !.left = Kinds]
    <2>1. s \in SessType
      BY ViewType DEF Idle, SessType, Statuses, Errors
    <2> QED
      BY <1>15, <1>a, <1>b, <1>f, <2>1 DEF PassStart
  <1>16. ASSUME NEW c \in Procs, PassPull(c)
         PROVE  TypeOK'
    <2> DEFINE k == First(sess[c].left)
               left == sess[c].left \ {k}
               s == [sess[c] EXCEPT !.left = left,
                                    !.pc = IF left = {} THEN "pulled" ELSE "pull"]
    <2>1. s \in SessType
      BY <1>d DEF SessType
    <2>2. Call(c, s, "pullFailed", PullError(k))
      BY <1>16 DEF PassPull
    <2>3. sess' \in [Procs -> SessType] /\ events' \in Nat
      <3> HIDE DEF s, k
      <3> QED
        BY <2>1, <2>2, CallErrors, CallType
    <2> QED
      BY <1>16, <1>a, <1>b, <2>3 DEF PassPull
  <1>17. ASSUME NEW c \in Procs, PassFailed(c)
         PROVE  TypeOK'
    <2>1. Saved(c, "unreachable", sess[c].error) \in
              [enabled : BOOLEAN, maintenance : BOOLEAN, status : Statuses, error : Errors]
      BY <1>e, <1>g, SavedType
    <2> QED
      BY <1>17, <1>a, <1>b, <1>c, <1>f, <2>1, IdleType DEF PassFailed
  <1>18. ASSUME NEW c \in Procs, PassPulled(c)
         PROVE  TypeOK'
    <2> DEFINE s == [sess[c] EXCEPT !.pc = "fix", !.previous = sess[c].view.status,
                                    !.view = [status |-> "online", error |-> ""]]
    <2>1. s \in SessType
      BY <1>d, <1>g DEF SessType
    <2>2. Saved(c, "online", "") \in
              [enabled : BOOLEAN, maintenance : BOOLEAN, status : Statuses, error : Errors]
      BY <1>g, SavedType
    <2> QED
      BY <1>18, <1>a, <1>b, <1>f, <2>1, <2>2 DEF PassPulled
  <1>19. ASSUME NEW c \in Procs, PassDone(c) \/ PassDeadline(c)
         PROVE  TypeOK'
    BY <1>19, <1>a, <1>b, <1>c, <1>f, IdleType DEF PassDone, PassDeadline, Event
  <1>20. ASSUME GoDown \/ ComeBack
         PROVE  TypeOK'
    <2>1. told' \in ToldType
      BY <1>20, <1>a DEF GoDown, ComeBack, NewPeriod, ToldType
    <2>2. up' \in BOOLEAN
      BY <1>20, Zenon DEF GoDown, ComeBack
    <2>3. events' \in Nat
      BY <1>20, <1>a DEF GoDown, ComeBack, Event
    <2>4. row' = row /\ open' = open /\ sess' = sess
      BY <1>20 DEF GoDown, ComeBack
    <2> QED
      BY <1>a, <1>b, <2>1, <2>2, <2>3, <2>4
  <1>21. CASE Crash
    BY <1>21, <1>a, <1>b, IdleType DEF Crash, Event
  <1>22. CASE UNCHANGED vars
    BY <1>22 DEF TypeOK, vars
  <1> QED
    BY <1>1, <1>2, <1>3, <1>4, <1>5, <1>6, <1>7, <1>8, <1>9, <1>10, <1>11, <1>12, <1>13,
       <1>14, <1>15, <1>16, <1>17, <1>18, <1>19, <1>20, <1>21, <1>22
       DEF Next, PushStep, ProbeStep, PassStep, Operator, Environment, Procs

\* Every variable of NodeStatus keeps its type: in particular each session that loaded
\* the row holds a status and an error the row could have had.
THEOREM TypeCorrect == Spec => []TypeOK
  <1>1. ASSUME Init
        PROVE  TypeOK
    <2>1. row \in [enabled : BOOLEAN, maintenance : BOOLEAN,
                   status : Statuses, error : Errors]
      BY <1>1 DEF Init, Statuses, Errors
    <2>2. up \in BOOLEAN
      BY <1>1, Zenon DEF Init
    <2>3. told \in [last : {"none", "outage", "recovery"}, reported : SUBSET Errors,
                    again : BOOLEAN]
      BY <1>1 DEF Init
    <2>4. open \in SUBSET Kinds /\ sess \in [Procs -> SessType] /\ events \in Nat
      BY <1>1, IdleType DEF Init
    <2> QED
      BY <2>1, <2>2, <2>3, <2>4 DEF TypeOK
  <1>2. TypeOK /\ [Next]_vars => TypeOK'
    BY TypeStep
  <1> QED
    BY <1>1, <1>2, PTL DEF Spec
=============================================================================

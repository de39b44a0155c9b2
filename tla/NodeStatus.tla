---------------------------- MODULE NodeStatus ----------------------------
(***************************************************************************)
(* What the hub says about one node: the status and last_error columns of  *)
(* its row, and the notices sent to the operator.                          *)
(*                                                                         *)
(* Pushes, retries, probes and reconciliation passes all write the status, *)
(* each through a database session of its own.  A session loads the row    *)
(* once and keeps what it loaded (expire_on_commit=False): the "previous"  *)
(* status that decides on a notice, and the value an UPDATE is compared    *)
(* with, are the session's and may be old.                                 *)
(*                                                                         *)
(* A failed or finished call is handled in one step: commit, then notices. *)
(* A pass is the exception: it commits the status long before it notifies. *)
(***************************************************************************)
EXTENDS Naturals

CONSTANTS
    Kinds,      \* the payload kinds in use
    Pushers,    \* sync_all tasks, manual pushes and retry passes that can run at once
    Handlers,   \* PATCH /instances/{id} and POST /instances/{id}/test
    Passes,     \* reconciliation passes
    Faults,     \* what may happen besides edits, tests, retries and passes
    MaxEvents   \* bound: how often anything in Faults happens

AllFaults ==
    {"outage",    \* the node goes down
     "error",     \* the node answers a call with an error
     "refuse",    \* the node accepts a push and keeps something else
     "switch",    \* the operator disables, enables, holds back or releases the node
     "manual",    \* the operator presses Push
     "deadline",  \* a pass runs into pass_deadline
     "crash"}     \* the process ends and starts again

Procs == Pushers \union Handlers \union Passes

ASSUME NodeStatusAssumption ==
    /\ Kinds \subseteq {"rules", "filters", "settings"}
    /\ "rules" \in Kinds
    /\ Pushers \intersect (Handlers \union Passes) = {}
    /\ Handlers \intersect Passes = {}
    /\ Faults \subseteq AllFaults
    /\ MaxEvents \in Nat

VARIABLES
    row,     \* the instance's row
    open,    \* the kinds with an open job
    up,      \* the node answers
    sess,    \* sess[p]: where process p is and what its session holds
    told,    \* what the operator was told
    events   \* how often anything in Faults happened

vars == <<row, open, up, sess, told, events>>

Statuses == {"unknown", "online", "unreachable", "disabled", "maintenance"}

\* The texts last_error can hold.  A call that fails is named by its method and path,
\* and push_kind puts the section's name in front.
Errors == {"", "GET filtering/status", "section: GET dns_info", "GET dns_info",
           "GET status", "not kept"}

PushError(k) == IF k = "settings" THEN "section: GET dns_info" ELSE "GET filtering/status"

PullError(k) == IF k = "settings" THEN "GET dns_info" ELSE "GET filtering/status"

\* The order of ALL_KINDS.
First(ks) ==
    CHOOSE k \in ks :
        \/ k = "rules"
        \/ k = "filters" /\ "rules" \notin ks
        \/ ks = {"settings"}

ReadsBack(ks) == ks \intersect {"rules", "filters"} # {}

Active == row.enabled /\ ~row.maintenance

View == [status |-> row.status, error |-> row.error]

Idle == [pc |-> "idle", view |-> [status |-> "unknown", error |-> ""],
         todo |-> {}, kinds |-> {}, left |-> {}, error |-> "",
         replay |-> FALSE, previous |-> "unknown"]

SessType ==
    [pc : {"idle", "rows", "wait", "push", "pushed", "pushFailed",
           "probe", "probed", "probeFailed", "pull", "pulled", "pullFailed", "fix"},
     view : [status : Statuses, error : Errors],
     todo : SUBSET Kinds, kinds : SUBSET Kinds, left : SUBSET Kinds,
     error : Errors, replay : BOOLEAN, previous : Statuses]

\* The shape of every variable.
TypeOK ==
    /\ row \in [enabled : BOOLEAN, maintenance : BOOLEAN,
                status : Statuses, error : Errors]
    /\ open \in SUBSET Kinds
    /\ up \in BOOLEAN
    /\ sess \in [Procs -> SessType]
    /\ told \in [last : {"none", "outage", "recovery"},
                 reported : SUBSET Errors, again : BOOLEAN]
    /\ events \in Nat

\* A node that was added and has answered its first probe.
Init ==
    /\ row = [enabled |-> TRUE, maintenance |-> FALSE, status |-> "online", error |-> ""]
    /\ open = {}
    /\ up = TRUE
    /\ sess = [p \in Procs |-> Idle]
    /\ told = [last |-> "none", reported |-> {}, again |-> FALSE]
    /\ events = 0

Event(f) ==
    /\ f \in Faults
    /\ events < MaxEvents
    /\ events' = events + 1

----------------------------------------------------------------------------
(***************************************************************************)
(* What the processes share.                                               *)
(***************************************************************************)

\* Session p sets status and last_error and commits: an UPDATE of the columns that
\* differ from what the session holds.
Saved(p, status, error) ==
    [row EXCEPT !.status = IF status = sess[p].view.status THEN @ ELSE status,
                !.error = IF error = sess[p].view.error THEN @ ELSE error]

\* instance.unreachable
Alarmed == [told EXCEPT !.last = "outage", !.again = FALSE]

\* push.failed, because of e
Reported(t, e) ==
    [t EXCEPT !.reported = t.reported \union {e}, !.again = e \in t.reported]

\* notify_if_recovered
Recovered(previous) ==
    IF previous = "unreachable" THEN [told EXCEPT !.last = "recovery", !.again = FALSE] ELSE told

\* A call on the node comes back with an answer, or fails with the error given.
Call(p, answered, failed, error) ==
    \/ /\ up
       /\ sess' = [sess EXCEPT ![p] = answered]
       /\ UNCHANGED events
    \/ /\ up => Event("error")
       /\ ~up => UNCHANGED events
       /\ sess' = [sess EXCEPT ![p] = [sess[p] EXCEPT !.pc = failed, !.error = error]]

Pushing == {"push", "pushed", "pushFailed"}

PushRequest(view, ks) == [Idle EXCEPT !.pc = "wait", !.view = view, !.kinds = ks, !.left = ks]

\* async with push_lock(instance.id)
PushLock(p) ==
    /\ sess[p].pc = "wait"
    /\ \A q \in Procs : sess[q].pc \notin Pushing
    /\ sess' = [sess EXCEPT ![p].pc = "push"]
    /\ UNCHANGED <<row, open, up, told, events>>

\* push_kind for one kind after the other ...
PushKind(p) ==
    /\ sess[p].pc = "push"
    /\ sess[p].left # {}
    /\ LET k == First(sess[p].left) IN
          Call(p, [sess[p] EXCEPT !.left = sess[p].left \ {k}], "pushFailed", PushError(k))
    /\ UNCHANGED <<row, open, up, told>>

\* ... then not_kept.
PushReadBack(p) ==
    /\ sess[p].pc = "push"
    /\ sess[p].left = {}
    /\ \/ /\ ReadsBack(sess[p].kinds)
          /\ \/ Call(p, [sess[p] EXCEPT !.pc = "pushed"], "pushFailed", "GET filtering/status")
             \/ /\ up
                /\ Event("refuse")
                /\ sess' = [sess EXCEPT ![p] =
                      [sess[p] EXCEPT !.pc = "pushed", !.error = "not kept"]]
       \/ /\ ~ReadsBack(sess[p].kinds)
          /\ sess' = [sess EXCEPT ![p].pc = "pushed"]
          /\ UNCHANGED events
    /\ UNCHANGED <<row, open, up, told>>

\* On to the next row of a retry pass; a task has none.
NextRow(p, status, error) ==
    IF sess[p].todo = {} THEN Idle
    ELSE [Idle EXCEPT !.pc = "rows", !.todo = sess[p].todo,
                      !.view = [status |-> status, error |-> error]]

\* A notice says that the push failed if the node was online or the error is another
\* one, and that the node is unreachable if it was online.
PushFailed(p) ==
    /\ sess[p].pc = "pushFailed"
    /\ LET wasOnline == sess[p].view.status = "online"
           news == wasOnline \/ sess[p].view.error # sess[p].error
           alarmed == IF wasOnline THEN Alarmed ELSE told IN
          told' = IF news THEN Reported(alarmed, sess[p].error) ELSE alarmed
    /\ row' = Saved(p, "unreachable", sess[p].error)
    /\ open' = open \union sess[p].kinds
    /\ sess' = [sess EXCEPT ![p] = NextRow(p, "unreachable", sess[p].error)]
    /\ UNCHANGED <<up, events>>

\* error is "" or what the node did not keep: told each time, not queued.
PushApplied(p) ==
    /\ sess[p].pc = "pushed"
    /\ row' = Saved(p, "online", sess[p].error)
    /\ open' = open \ sess[p].kinds
    /\ LET back == Recovered(sess[p].view.status) IN
          told' = IF sess[p].error = "" THEN back ELSE Reported(back, sess[p].error)
    /\ sess' = [sess EXCEPT ![p] = NextRow(p, "online", sess[p].error)]
    /\ UNCHANGED <<up, events>>

----------------------------------------------------------------------------
(***************************************************************************)
(* sync_all, the manual push and process_retry_queue.                      *)
(***************************************************************************)

EditScopes == {{k} : k \in Kinds} \union {Kinds}

\* A sync task loads the enabled instances; for one held back it queues.
SyncStart(p, ks) ==
    /\ sess[p].pc = "idle"
    /\ row.enabled
    /\ \/ /\ row.maintenance
          /\ open' = open \union ks
          /\ UNCHANGED sess
       \/ /\ ~row.maintenance
          /\ sess' = [sess EXCEPT ![p] = PushRequest(View, ks)]
          /\ UNCHANGED open
    /\ UNCHANGED <<row, up, told, events>>

\* POST /instances/{id}/push, whatever the switches say.
ManualPush(p) ==
    /\ Event("manual")
    /\ sess[p].pc = "idle"
    /\ sess' = [sess EXCEPT ![p] = PushRequest(View, Kinds)]
    /\ UNCHANGED <<row, open, up, told>>

\* The rows a retry pass selects.
OpenRows == IF Active THEN open ELSE {}

RetryStart(p) ==
    /\ sess[p].pc = "idle"
    /\ OpenRows # {}
    /\ sess' = [sess EXCEPT ![p] =
          [Idle EXCEPT !.pc = "rows", !.view = View, !.todo = OpenRows]]
    /\ UNCHANGED <<row, open, up, told, events>>

\* One job after the other, all through the session that loaded the row at the start.
RetryPush(p) ==
    /\ sess[p].pc = "rows"
    /\ \E k \in sess[p].todo :
          sess' = [sess EXCEPT ![p] =
             [PushRequest(sess[p].view, {k}) EXCEPT !.todo = sess[p].todo \ {k}]]
    /\ UNCHANGED <<row, open, up, told, events>>

----------------------------------------------------------------------------
(***************************************************************************)
(* check_instance, from POST /test and at the end of a PATCH.              *)
(***************************************************************************)

\* A disabled node is not asked.
Test(h) ==
    /\ sess[h].pc = "idle"
    /\ \/ /\ row.enabled
          /\ sess' = [sess EXCEPT ![h] = [Idle EXCEPT !.pc = "probe", !.view = View]]
          /\ UNCHANGED row
       \/ /\ ~row.enabled
          /\ row' = [row EXCEPT !.status = "disabled"]
          /\ UNCHANGED sess
    /\ UNCHANGED <<open, up, told, events>>

Probe(h) ==
    /\ sess[h].pc = "probe"
    /\ Call(h, [sess[h] EXCEPT !.pc = "probed"], "probeFailed", "GET status")
    /\ UNCHANGED <<row, open, up, told>>

\* After a PATCH that ended a maintenance the queue is replayed, in the same session.
Replay(h, status, error) ==
    IF sess[h].replay /\ OpenRows # {}
    THEN [Idle EXCEPT !.pc = "rows", !.todo = OpenRows,
                      !.view = [status |-> status, error |-> error]]
    ELSE Idle

ProbeFailed(h) ==
    /\ sess[h].pc = "probeFailed"
    /\ row' = Saved(h, "unreachable", sess[h].error)
    /\ told' = IF sess[h].view.status = "online" THEN Alarmed ELSE told
    /\ sess' = [sess EXCEPT ![h] = Replay(h, "unreachable", sess[h].error)]
    /\ UNCHANGED <<open, up, events>>

Probed(h) ==
    /\ sess[h].pc = "probed"
    /\ row' = Saved(h, "online", "")
    /\ told' = Recovered(sess[h].view.status)
    /\ sess' = [sess EXCEPT ![h] = Replay(h, "online", "")]
    /\ UNCHANGED <<open, up, events>>

\* Mutant: the status is cleared to nothing at all.
SwitchedToBlank(enabled, maintenance) ==
    IF ~enabled THEN "disabled" ELSE IF maintenance THEN "maintenance" ELSE ""

\* Disabled wins over maintenance; otherwise the status is cleared rather than guessed.
Switched(enabled, maintenance) ==
    IF ~enabled THEN "disabled" ELSE IF maintenance THEN "maintenance" ELSE "unknown"

\* PATCH of one switch.
Switch(h, enabled, maintenance) ==
    /\ Event("switch")
    /\ sess[h].pc = "idle"
    /\ (enabled = row.enabled) # (maintenance = row.maintenance)
    /\ LET status == Switched(enabled, maintenance) IN
          /\ row' = [row EXCEPT !.enabled = enabled, !.maintenance = maintenance,
                                !.status = status]
          /\ sess' = IF enabled /\ ~maintenance
                     THEN [sess EXCEPT ![h] =
                             [Idle EXCEPT !.pc = "probe", !.replay = row.maintenance,
                                          !.view = [status |-> status, error |-> row.error]]]
                     ELSE sess
    /\ UNCHANGED <<open, up, told>>

----------------------------------------------------------------------------
(***************************************************************************)
(* reconcile_instance.                                                     *)
(***************************************************************************)

PassStart(c) ==
    /\ sess[c].pc = "idle"
    /\ Active
    /\ sess' = [sess EXCEPT ![c] =
          [Idle EXCEPT !.pc = "pull", !.view = View, !.left = Kinds]]
    /\ UNCHANGED <<row, open, up, told, events>>

\* pull_state asks for one kind after the other.
PassPull(c) ==
    /\ sess[c].pc = "pull"
    /\ LET k == First(sess[c].left)
           left == sess[c].left \ {k} IN
          Call(c, [sess[c] EXCEPT !.left = left, !.pc = IF left = {} THEN "pulled" ELSE "pull"],
               "pullFailed", PullError(k))
    /\ UNCHANGED <<row, open, up, told>>

\* Mutant: the status is compared after it was overwritten.
PassFailedSilent(c) ==
    /\ sess[c].pc = "pullFailed"
    /\ row' = Saved(c, "unreachable", sess[c].error)
    /\ sess' = [sess EXCEPT ![c] = Idle]
    /\ UNCHANGED <<open, up, told, events>>

PassFailed(c) ==
    /\ sess[c].pc = "pullFailed"
    /\ row' = Saved(c, "unreachable", sess[c].error)
    /\ told' = IF sess[c].view.status = "online" THEN Alarmed ELSE told
    /\ sess' = [sess EXCEPT ![c] = Idle]
    /\ UNCHANGED <<open, up, events>>

\* Mutant: a pass fills in a status nobody knows and leaves the rest to the pushes.
PassPulledUnknown(c) ==
    /\ sess[c].pc = "pulled"
    /\ row' = IF sess[c].view.status = "unknown" THEN Saved(c, "online", "") ELSE row
    /\ sess' = [sess EXCEPT ![c] =
          [sess[c] EXCEPT !.pc = "fix", !.previous = sess[c].view.status]]
    /\ UNCHANGED <<open, up, told, events>>

\* The node answered: online, committed before the pass talks to it again.
PassPulled(c) ==
    /\ sess[c].pc = "pulled"
    /\ row' = Saved(c, "online", "")
    /\ sess' = [sess EXCEPT ![c] =
          [sess[c] EXCEPT !.pc = "fix", !.previous = sess[c].view.status,
                          !.view = [status |-> "online", error |-> ""]]]
    /\ UNCHANGED <<open, up, told, events>>

\* Corrections made, verdict committed: now the recovery is announced.
PassDone(c) ==
    /\ sess[c].pc = "fix"
    /\ told' = Recovered(sess[c].previous)
    /\ sess' = [sess EXCEPT ![c] = Idle]
    /\ UNCHANGED <<row, open, up, events>>

\* pass_deadline: cancelled where it waits.
PassDeadline(c) ==
    /\ Event("deadline")
    /\ sess[c].pc # "idle"
    /\ sess' = [sess EXCEPT ![c] = Idle]
    /\ UNCHANGED <<row, open, up, told>>

----------------------------------------------------------------------------
\* What was reported is counted per outage.
NewPeriod == told' = [told EXCEPT !.reported = {}, !.again = FALSE]

GoDown ==
    /\ Event("outage")
    /\ up
    /\ up' = FALSE
    /\ NewPeriod
    /\ UNCHANGED <<row, open, sess>>

ComeBack ==
    /\ ~up
    /\ up' = TRUE
    /\ NewPeriod
    /\ UNCHANGED <<row, open, sess, events>>

Crash ==
    /\ Event("crash")
    /\ sess' = [p \in Procs |-> Idle]
    /\ UNCHANGED <<row, open, up, told>>

----------------------------------------------------------------------------
PushStep(p) ==
    \/ PushKind(p) \/ PushReadBack(p) \/ PushFailed(p) \/ PushApplied(p) \/ RetryPush(p)

ProbeStep(h) == Probe(h) \/ ProbeFailed(h) \/ Probed(h)

PassStep(c) ==
    PassStart(c) \/ PassPull(c) \/ PassFailed(c) \/ PassPulled(c) \/ PassDone(c)

Operator ==
    \/ \E p \in Pushers, ks \in EditScopes : SyncStart(p, ks)
    \/ \E p \in Pushers : ManualPush(p) \/ RetryStart(p)
    \/ \E h \in Handlers : Test(h)
    \/ \E h \in Handlers, e, m \in BOOLEAN : Switch(h, e, m)

Environment ==
    \/ GoDown \/ ComeBack \/ Crash
    \/ \E c \in Passes : PassDeadline(c)

Next ==
    \/ \E p \in Pushers \union Handlers : PushLock(p) \/ PushStep(p)
    \/ \E h \in Handlers : ProbeStep(h)
    \/ \E c \in Passes : PassStep(c)
    \/ Operator
    \/ Environment

Spec == Init /\ [][Next]_vars

\* Ready coroutines run, calls end, the workers wake up, and the lock serves its
\* waiters in order.  Nothing is assumed of the operator or of the node.
Fairness ==
    /\ \A p \in Pushers \union Handlers :
          SF_vars(PushLock(p)) /\ WF_vars(PushStep(p))
    /\ \A h \in Handlers : WF_vars(ProbeStep(h))
    /\ \A c \in Passes : WF_vars(PassStep(c))

FairSpec == Spec /\ Fairness

----------------------------------------------------------------------------
(***************************************************************************)
(* Properties.                                                             *)
(***************************************************************************)

Quiet == \A p \in Procs : sess[p].pc = "idle"

\* Once the node stays up or stays down, the card of an active node says so, whatever
\* stale sessions, switches, deadlines and restarts came before (models.InstanceStatus).
StatusSettles ==
    <>[](Active => row.status = IF up THEN "online" ELSE "unreachable")

\* A node shown online that goes down with nothing in flight is announced, by whoever
\* meets it first, unless it comes back or the operator takes it over before.
OutageTold ==
    (Quiet /\ Active /\ row.status = "online" /\ ~up)
        ~> (told.last = "outage" \/ up \/ ~Active)

\* One push.failed per outage and reason ("however often the hub tries in between",
\* docs/operations.md).
SaysItOnce == ~told.again

\* When nothing is in flight and the card says online, the last thing the operator was
\* told is not that the node is unreachable (notify.notify_if_recovered).
RecoveryTold == Quiet /\ row.status = "online" => told.last # "outage"
=============================================================================

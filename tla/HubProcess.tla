----------------------------- MODULE HubProcess -----------------------------
(***************************************************************************)
(* The hub as a process: main.lifespan, the supervisor of the background   *)
(* workers, the event bus with the pages that listen to it, and the        *)
(* watchdog that says when reconciliation has gone quiet.                  *)
(*                                                                         *)
(* The sections under the bus's lock await nothing, so each is one step,   *)
(* and so is the whole of lifespan's finally up to the gather.  uvicorn    *)
(* leaves lifespan only when the requests in flight are over.  An event is *)
(* a number; 0 is the sentinel _CLOSED.                                    *)
(***************************************************************************)
EXTENDS Integers, Sequences, FiniteSets

CONSTANTS
    Workers,        \* the supervised loops
    Watchdog,       \* the one of them that watches reconciliation
    Streams,        \* pages with an open event stream
    QueueSize,      \* EventBus's queue_size, 200 in the code
    GracefulTimeout,   \* whether uvicorn cancels requests that outlast its patience
    MaxCrashes,     \* bound: how often a worker ends by a fault
    MaxEvents,      \* bound: how many events are published
    MaxSwitches     \* bound: how often reconciliation is switched or has nothing to do

ASSUME HubProcessAssumption ==
    /\ Watchdog \in Workers /\ GracefulTimeout \in BOOLEAN
    /\ QueueSize \in Nat \ {0}
    /\ MaxCrashes \in Nat /\ MaxEvents \in Nat /\ MaxSwitches \in Nat

VARIABLES
    stage,      \* serving, draining the requests; of lifespan gathering, disposed
    worker,     \* worker[w]: running, backing off or ended; failures in a row; whether it
                \* has run for HEALTHY_AFTER
    crashes,    \* how often a worker was ended by a fault
    stream,     \* stream[s]: absent, open, ended; its queue
    events,     \* how many events were published
    active,     \* whether reconciliation is on and has something to replicate
    pass,       \* the last recorded pass: none, recent or overdue
    reported,   \* the watchdog's own note that it has told of a stall
    told,       \* the watchdog's notices, the last one and whether it repeated itself
    switches    \* how often active changed

processVars ==
    <<stage, worker, crashes, stream, events, active, pass, reported, told, switches>>

FreshWorker == [pc |-> "running", failures |-> 0, healthy |-> FALSE]
NoStream == [pc |-> "absent", queue |-> <<>>, subscribed |-> FALSE]

Closing == stage \in {"gathering", "disposed"}

Runs(w) == worker[w].pc = "running"

-----------------------------------------------------------------------------
(* supervise.                                                               *)

FailuresAfter(w) == IF worker[w].healthy THEN 1 ELSE worker[w].failures + 1

\* The factory raised, returned, or was cancelled with no shutdown on.  What the watchdog
\* noted is a local of the loop that ended.
WorkerEnds(w) ==
    /\ ~Closing /\ Runs(w) /\ crashes < MaxCrashes
    /\ crashes' = crashes + 1
    /\ worker' = [worker EXCEPT ![w] = [pc |-> "backoff", failures |-> FailuresAfter(w),
                                        healthy |-> FALSE]]
    /\ reported' = IF w = Watchdog THEN FALSE ELSE reported
    /\ told' = IF w = Watchdog THEN [told EXCEPT !.last = "nothing"] ELSE told
    /\ UNCHANGED <<stage, stream, events, active, pass, switches>>

\* Mutant: a worker that failed twice in a row stays down.
RestartOnce(w) ==
    /\ ~Closing /\ worker[w].pc = "backoff" /\ worker[w].failures < 2
    /\ worker' = [worker EXCEPT ![w].pc = "running"]
    /\ UNCHANGED <<stage, crashes, stream, events, active, pass, reported, told, switches>>

\* The wait for stop has timed out.
Restart(w) ==
    /\ ~Closing /\ worker[w].pc = "backoff"
    /\ worker' = [worker EXCEPT ![w].pc = "running"]
    /\ UNCHANGED <<stage, crashes, stream, events, active, pass, reported, told, switches>>

\* HEALTHY_AFTER has passed since it started.
BecomesHealthy(w) ==
    /\ Runs(w) /\ worker[w].failures > 0 /\ ~worker[w].healthy
    /\ worker' = [worker EXCEPT ![w].healthy = TRUE]
    /\ UNCHANGED <<stage, crashes, stream, events, active, pass, reported, told, switches>>

\* Mutant: the wait of the backoff swallows it.
CancelledWhileRunning(w) ==
    /\ Closing /\ Runs(w)
    /\ worker' = [worker EXCEPT ![w].pc = "ended"]
    /\ UNCHANGED <<stage, crashes, stream, events, active, pass, reported, told, switches>>

\* The cancellation arrives, in the factory or in the backoff, with stop set.
WorkerCancelled(w) ==
    /\ Closing /\ worker[w].pc # "ended"
    /\ worker' = [worker EXCEPT ![w].pc = "ended"]
    /\ UNCHANGED <<stage, crashes, stream, events, active, pass, reported, told, switches>>

-----------------------------------------------------------------------------
(* EventBus.                                                                *)

\* _closing
Flagged == Closing

Fits(s) == Len(stream[s].queue) < QueueSize

\* put_nowait for every subscriber, dropped where the queue is full.
Offered(event) ==
    [s \in Streams |->
        IF stream[s].subscribed /\ Fits(s)
        THEN [stream[s] EXCEPT !.queue = Append(@, event)] ELSE stream[s]]

Publish ==
    /\ events < MaxEvents
    /\ events' = events + 1
    /\ stream' = Offered(events + 1)
    /\ UNCHANGED <<stage, worker, crashes, active, pass, reported, told, switches>>

\* A page opens its stream, or opens it again; a request that was under way when the
\* signal came still does.  One that comes after close leaves again at once.
Subscribe(s) ==
    /\ \/ stage = "serving" /\ stream[s].pc \in {"absent", "ended"}
       \/ stage = "draining" /\ stream[s].pc = "absent"
    /\ stream' = [stream EXCEPT ![s] =
          IF Flagged THEN [NoStream EXCEPT !.pc = "ended"]
          ELSE [pc |-> "open", queue |-> <<>>, subscribed |-> TRUE]]
    /\ UNCHANGED <<stage, worker, crashes, events, active, pass, reported, told, switches>>

\* A payload is sent and the flag looked at, the sentinel ends it.  A stream that waits
\* has room for the sentinel, so the keep-alive's look at the flag never decides anything.
Deliver(s) ==
    /\ stream[s].pc = "open" /\ stream[s].queue # <<>>
    /\ stream' = [stream EXCEPT ![s] =
          IF Head(@.queue) = 0 \/ Flagged
          THEN [NoStream EXCEPT !.pc = "ended"] ELSE [@ EXCEPT !.queue = Tail(@)]]
    /\ UNCHANGED <<stage, worker, crashes, events, active, pass, reported, told, switches>>

\* The page is closed, or its connection lost.
Disconnect(s) ==
    /\ stream[s].pc = "open"
    /\ stream' = [stream EXCEPT ![s] = [NoStream EXCEPT !.pc = "ended"]]
    /\ UNCHANGED <<stage, worker, crashes, events, active, pass, reported, told, switches>>

-----------------------------------------------------------------------------
(* Shutting down.  uvicorn takes no more connections and waits for the      *)
(* requests in flight, with --timeout-graceful-shutdown for so long only;   *)
(* then lifespan sets stop, closes the bus, cancels the workers, and        *)
(* disposes of the database when they have all gone.                        *)

Terminate ==
    /\ stage = "serving"
    /\ stage' = "draining"
    /\ UNCHANGED <<worker, crashes, stream, events, active, pass, reported, told, switches>>

InFlight == \E s \in Streams : stream[s].pc = "open"

CancelRequests ==
    /\ GracefulTimeout /\ stage = "draining" /\ InFlight
    /\ stage' = "gathering"
    /\ stream' = [s \in Streams |-> [NoStream EXCEPT !.pc = "ended"]]
    /\ UNCHANGED <<worker, crashes, events, active, pass, reported, told, switches>>

Stop ==
    /\ stage = "draining" /\ ~InFlight
    /\ stage' = "gathering"
    /\ stream' = Offered(0)
    /\ UNCHANGED <<worker, crashes, events, active, pass, reported, told, switches>>

Gathered == \A w \in Workers : worker[w].pc = "ended"

DisposeDb ==
    /\ stage = "gathering" /\ Gathered
    /\ stage' = "disposed"
    /\ UNCHANGED <<worker, crashes, stream, events, active, pass, reported, told, switches>>

-----------------------------------------------------------------------------
(* Reconciliation and its watchdog.                                         *)

\* record_pass, by the timer, or by the operator's button while reconciliation is off too.
RecordPass ==
    /\ ~Closing /\ pass # "recent"
    /\ pass' = "recent"
    /\ UNCHANGED <<stage, worker, crashes, stream, events, active, reported, told, switches>>

\* Three intervals go by without one.
PassAges ==
    /\ pass = "recent"
    /\ pass' = "overdue"
    /\ UNCHANGED <<stage, worker, crashes, stream, events, active, reported, told, switches>>

\* The switch, the first entry of an empty hub, the last one removed.
Switch ==
    /\ switches < MaxSwitches
    /\ switches' = switches + 1
    /\ active' = ~active
    /\ UNCHANGED <<stage, worker, crashes, stream, events, pass, reported, told>>

Stalled == active /\ pass = "overdue"

Notice(what) == told' = [last |-> what, twice |-> told.twice \/ told.last = what]

Unreported == ~reported

\* One check of watchdog_worker; one that raises is skipped.
WatchdogCheck ==
    /\ ~Closing /\ Runs(Watchdog)
    /\ \/ Stalled /\ Unreported /\ reported' = TRUE /\ Notice("stopped")
       \/ ~Stalled /\ reported /\ reported' = FALSE /\ Notice("running")
    /\ UNCHANGED <<stage, worker, crashes, stream, events, active, pass, switches>>

ProcessInit ==
    /\ stage = "serving"
    /\ worker = [w \in Workers |-> FreshWorker]
    /\ crashes = 0
    /\ stream = [s \in Streams |-> NoStream]
    /\ events = 0
    /\ active = FALSE /\ pass = "none"
    /\ reported = FALSE /\ told = [last |-> "nothing", twice |-> FALSE]
    /\ switches = 0

ProcessNext ==
    \/ \E w \in Workers :
          WorkerEnds(w) \/ Restart(w) \/ BecomesHealthy(w) \/ WorkerCancelled(w)
    \/ Publish
    \/ \E s \in Streams : Subscribe(s) \/ Deliver(s) \/ Disconnect(s)
    \/ Terminate \/ CancelRequests \/ Stop \/ DisposeDb
    \/ RecordPass \/ PassAges \/ Switch \/ WatchdogCheck

\* Backoffs end, cancellations arrive, a page reads what it is sent, and the watchdog wakes
\* up every minute.
ProcessFairness ==
    /\ \A w \in Workers : WF_processVars(Restart(w)) /\ WF_processVars(WorkerCancelled(w))
    /\ \A s \in Streams : WF_processVars(Deliver(s))
    /\ WF_processVars(CancelRequests) /\ WF_processVars(Stop) /\ WF_processVars(DisposeDb)
    /\ WF_processVars(WatchdogCheck)

ProcessFairSpec == ProcessInit /\ [][ProcessNext]_processVars /\ ProcessFairness

-----------------------------------------------------------------------------
(* Properties.                                                              *)

\* A shutdown comes to its end, whatever pages are open and wherever its workers are.
\* main.py:151: an open event stream "never ends on its own" and is closed for that; the
\* unit's timeout on top of it "should never be reached" (adguardhub.service:30).
ShutdownEnds == stage = "draining" ~> stage = "disposed"

\* A stall that lasts is told, and not told over and over by the same watchdog.
StallTold ==
    /\ []~told.twice
    /\ [](Stalled => <>(reported \/ ~Stalled \/ Closing))
=============================================================================

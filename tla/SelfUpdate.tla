----------------------------- MODULE SelfUpdate -----------------------------
(***************************************************************************)
(* Upgrading the hub: services/updates.py's cached look for a newer        *)
(* release, and services/selfupdate.py's request, which a systemd path     *)
(* unit hands to the updater of packaging/ and whose progress the hub      *)
(* reads back from the updater's log.                                      *)
(*                                                                         *)
(* A release is its number; 0 is a version that does not parse, a          *)
(* development build.  Files have no clock here: what read_run compares is *)
(* which of the two was written last, and whether that is long ago.        *)
(***************************************************************************)
EXTENDS Integers, FiniteSets

CONSTANTS
    Tabs,           \* requests for the update status under way at once
    MaxReleases,    \* bound: releases made
    MaxPresses,     \* bound: how often the button is pressed
    MaxChecks,      \* bound: how often GitHub is asked
    MaxForced       \* bound: how often somebody insists

ASSUME SelfUpdateAssumption ==
    MaxReleases \in Nat \ {0} /\ MaxPresses \in Nat /\ MaxChecks \in Nat /\ MaxForced \in Nat

VARIABLES
    running,    \* the release the hub runs
    released,   \* the newest release
    answer,     \* UpdateChecker._cached
    tab,        \* tab[t]: where a request for the status is
    checks,     \* how often GitHub was asked, forced, and how many answers went stale
    watched,    \* whether the path unit is installed and enabled
    trigger,    \* the trigger file: there, newer than the log, there for too long
    updateLog,  \* the updater's log: empty, its last line, too old; which run's it is and how
                \* often the button had been pressed when its last line was written
    updater,    \* the oneshot unit: rest, starting, truncated, working, and whether the
                \* installer has restarted the hub
    presses,    \* how often the button was pressed
    attempts    \* how often the updater ran, and the presses when it last started

updateVars == <<running, released, answer, tab, checks, watched, trigger, updateLog, updater,
                presses, attempts>>

NoAnswer == [there |-> FALSE, latest |-> 0, newer |-> FALSE, error |-> FALSE, stale |-> FALSE]

NoTrigger == [there |-> FALSE, newer |-> FALSE, waited |-> FALSE]

-----------------------------------------------------------------------------
(* UpdateChecker.                                                           *)

\* Mutant: whatever is not what runs is offered.
IsDifferent(latest, current) == latest # 0 /\ latest # current

\* is_newer
IsNewer(latest, current) == latest # 0 /\ current # 0 /\ latest > current

\* get, up to the lock.
AskStatus(t) ==
    /\ tab[t].pc = "rest"
    /\ \E force \in BOOLEAN :
          /\ force => checks.forced < MaxForced
          /\ tab' = [tab EXCEPT ![t] = [pc |-> "wait", force |-> force]]
          /\ checks' = [checks EXCEPT !.forced = @ + (IF force THEN 1 ELSE 0)]
    /\ UNCHANGED <<running, released, answer, watched, trigger, updateLog, updater, presses, attempts>>

FreshAnswer == answer.there /\ ~answer.stale

\* The lock is taken; the cached answer may have come meanwhile.
TakeAnswer(t) ==
    /\ tab[t].pc = "wait" /\ \A u \in Tabs : tab[u].pc # "fetch"
    /\ IF ~tab[t].force /\ FreshAnswer
       THEN tab' = [tab EXCEPT ![t].pc = "rest"] /\ UNCHANGED checks
       ELSE /\ checks.made < MaxChecks
            /\ tab' = [tab EXCEPT ![t].pc = "fetch"]
            /\ checks' = [checks EXCEPT !.made = @ + 1]
    /\ UNCHANGED <<running, released, answer, watched, trigger, updateLog, updater, presses, attempts>>

\* A failure is an answer too, kept for a shorter time, and names no release.
AnswerComes(t) ==
    /\ tab[t].pc = "fetch"
    /\ \E latest \in {0, released} :
          answer' = [there |-> TRUE, latest |-> latest, newer |-> IsNewer(latest, running),
                     error |-> latest = 0, stale |-> FALSE]
    /\ tab' = [tab EXCEPT ![t].pc = "rest"]
    /\ UNCHANGED <<running, released, checks, watched, trigger, updateLog, updater, presses, attempts>>

AnswerAges ==
    /\ FreshAnswer
    /\ answer' = [answer EXCEPT !.stale = TRUE]
    /\ checks' = [checks EXCEPT !.dropped = @ + 1]
    /\ UNCHANGED <<running, released, tab, watched, trigger, updateLog, updater, presses, attempts>>

Release ==
    /\ released < MaxReleases
    /\ released' = released + 1
    /\ UNCHANGED <<running, answer, tab, checks, watched, trigger, updateLog, updater, presses, attempts>>

-----------------------------------------------------------------------------
(* request, and the two units.                                              *)

\* Mutant: a press is let go while a run is on.
PressedAtRest ==
    IF updater.pc = "rest" THEN [there |-> TRUE, newer |-> TRUE, waited |-> FALSE] ELSE trigger

\* The empty file, created or truncated.
Pressed == [there |-> TRUE, newer |-> TRUE, waited |-> FALSE]

Press ==
    /\ presses < MaxPresses
    /\ presses' = presses + 1
    /\ trigger' = Pressed
    /\ UNCHANGED <<running, released, answer, tab, checks, watched, updateLog, updater, attempts>>

\* STALLED_AFTER has passed since the trigger was written.
TriggerWaits ==
    /\ trigger.there /\ ~trigger.waited
    /\ trigger' = [trigger EXCEPT !.waited = TRUE]
    /\ UNCHANGED <<running, released, answer, tab, checks, watched, updateLog, updater, presses, attempts>>

\* The path unit fires on the file's existence, when the service does not run, and the
\* service removes the file first.
PickUp ==
    /\ watched /\ trigger.there /\ updater.pc = "rest"
    /\ trigger' = NoTrigger
    /\ updater' = [pc |-> "starting", restarted |-> FALSE]
    /\ attempts' = [made |-> attempts.made + 1, heard |-> presses]
    /\ UNCHANGED <<running, released, answer, tab, checks, watched, updateLog, presses>>

\* A write makes the log younger than a trigger that is there.
Logged(empty, marker) ==
    /\ updateLog' = [there |-> TRUE, empty |-> empty, marker |-> marker, old |-> FALSE,
                     run |-> attempts.made, until |-> presses]
    /\ trigger' = [trigger EXCEPT !.newer = FALSE]

Truncate ==
    /\ updater.pc = "starting"
    /\ updater' = [updater EXCEPT !.pc = "truncated"]
    /\ Logged(TRUE, "none")
    /\ UNCHANGED <<running, released, answer, tab, checks, watched, presses, attempts>>

\* The script and the installer print.
Output ==
    /\ updater.pc \in {"truncated", "working"}
    /\ updater' = [updater EXCEPT !.pc = "working"]
    /\ Logged(FALSE, "none")
    /\ UNCHANGED <<running, released, answer, tab, checks, watched, presses, attempts>>

\* The installer puts the newest release in place and starts the hub again.
RestartHub ==
    /\ updater.pc = "working" /\ ~updater.restarted
    /\ updater' = [updater EXCEPT !.restarted = TRUE]
    /\ running' = released
    /\ answer' = NoAnswer
    /\ tab' = [t \in Tabs |-> [pc |-> "rest", force |-> FALSE]]
    /\ checks' = [checks EXCEPT !.dropped = @ + 1]
    /\ UNCHANGED <<released, watched, trigger, updateLog, presses, attempts>>

\* The script's trap.
UpdaterExits ==
    /\ updater.pc = "working"
    /\ updater' = [updater EXCEPT !.pc = "rest"]
    /\ Logged(FALSE, IF updater.restarted THEN "ok" ELSE "failed")
    /\ UNCHANGED <<running, released, answer, tab, checks, watched, presses, attempts>>

\* The unit's time is over or the machine goes down: the script ends without its trap, it may
\* be before it came to its log.
UpdaterKilled ==
    /\ updater.pc # "rest"
    /\ updater' = [updater EXCEPT !.pc = "rest"]
    /\ UNCHANGED <<running, released, answer, tab, checks, watched, trigger, updateLog, presses, attempts>>

\* RECENT_SECONDS without a line.
UpdateLogAges ==
    /\ updateLog.there /\ ~updateLog.old
    /\ updateLog' = [updateLog EXCEPT !.old = TRUE]
    /\ UNCHANGED <<running, released, answer, tab, checks, watched, trigger, updater, presses, attempts>>

-----------------------------------------------------------------------------
(* read_run.                                                                *)

\* Mutant: the request is not held against the log.
NotSuperseded == FALSE

Superseded == trigger.there /\ updateLog.there /\ trigger.newer

Previous == updateLog.old \/ Superseded

ReportedStarted == updateLog.there /\ ~updateLog.empty /\ ~Previous

ReportedFinished == updateLog.marker # "none" /\ ~Previous

ReportedStalled == trigger.there /\ ~ReportedStarted /\ trigger.waited

ReportedRunning == (trigger.there \/ ReportedStarted) /\ ~ReportedFinished /\ ~ReportedStalled

UpdateInit ==
    /\ running \in 0 .. MaxReleases /\ released = 1
    /\ answer = NoAnswer
    /\ tab = [t \in Tabs |-> [pc |-> "rest", force |-> FALSE]]
    /\ checks = [made |-> 0, forced |-> 0, dropped |-> 0]
    /\ watched \in BOOLEAN
    /\ trigger = NoTrigger
    /\ updateLog = [there |-> FALSE, empty |-> TRUE, marker |-> "none", old |-> FALSE,
                    run |-> 0, until |-> 0]
    /\ updater = [pc |-> "rest", restarted |-> FALSE]
    /\ presses = 0
    /\ attempts = [made |-> 0, heard |-> 0]

UpdateNext ==
    \/ \E t \in Tabs : AskStatus(t) \/ TakeAnswer(t) \/ AnswerComes(t)
    \/ AnswerAges \/ Release
    \/ Press \/ TriggerWaits
    \/ PickUp \/ Truncate \/ Output \/ RestartHub \/ UpdaterExits \/ UpdaterKilled
    \/ UpdateLogAges

\* systemd looks at the file and ends a unit that takes too long, and clocks run.
UpdateFairness ==
    /\ WF_updateVars(PickUp) /\ WF_updateVars(TriggerWaits)
    /\ WF_updateVars(Truncate) /\ WF_updateVars(UpdaterExits \/ UpdaterKilled)
    /\ WF_updateVars(updater.pc = "truncated" /\ Output)

UpdateSpec == UpdateInit /\ [][UpdateNext]_updateVars

-----------------------------------------------------------------------------
(* Properties.                                                              *)

\* read_run's comparison of the request with the log: what is reported as finished, if it is
\* the newest run, has ended and was written to after the last press - a press that came
\* after the last line is not told that line.  It may have come during the run.
OutcomeNotOld ==
    ReportedFinished /\ updateLog.run = attempts.made =>
        updateLog.until = presses /\ updater.pc = "rest"

\* selfupdate.py:129: the log that is reported belongs to "whatever is happening now" and not
\* to "some earlier upgrade": to the run of the last press.  Violated: the lines that a run
\* writes after a press made during it make the log younger than that request.
OutcomeIsThisRun ==
    ReportedFinished => updateLog.run = attempts.made /\ attempts.heard = presses

\* adguardhub-update.service: "One request, one attempt; a failure waits for a person."
\* Every press is followed by a run that starts after it, or, on a hub nobody watches, by
\* the word that nothing picked it up; and no run comes without a press.
OneRequestOneAttempt ==
    /\ [](attempts.made <= presses)
    /\ \A k \in 1 .. MaxPresses :
          presses >= k ~> attempts.heard >= k \/ (~watched /\ ReportedStalled)

\* The hub offers nothing but what is newer than what it runs, an upgrade later too, and
\* asks GitHub once for all who ask until the answer has gone stale or somebody insists.
OffersTrue ==
    /\ answer.newer => running # 0 /\ answer.latest > running
    /\ checks.made <= 1 + checks.forced + checks.dropped
=============================================================================

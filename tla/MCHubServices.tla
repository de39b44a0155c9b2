--------------------------- MODULE MCHubServices ---------------------------
(***************************************************************************)
(* One model of the hub's services beside the sync engine.  They share no  *)
(* state, so each behaviour moves one of them, the one in focus, and the   *)
(* others stay where they start: the model is as large as their sum.       *)
(***************************************************************************)
EXTENDS NodeSession, NodeCaches, SignIn, HubProcess, QueryLog, DriftLog, DriftArchive,
        Payloads, SelfUpdate

CONSTANTS na, nb

\* The enabled instances, in the order they are polled, and the one that never answers.
PolledNodes == <<na, nb>>
SilentNodes == <<na>>

VARIABLE focus

vars == <<focus, sessionVars, cacheVars, signInVars, processVars, queryLogVars, driftVars,
          archiveVars, payloadVars, updateVars>>

Services == {"session", "caches", "sign-in", "process", "query log", "drift log", "archive",
             "payloads", "update"}

\* Where a service begins whose inputs are not in question.
PayloadAtRest ==
    /\ wanted = Chosen("rules", <<>>, <<>>, <<>>) /\ onNode = wanted
    /\ pushing = [NoPushing EXCEPT !.pc = "off"]
    /\ outcome = NoOutcome /\ touches = 0 /\ faults = 0

Init ==
    /\ focus \in Services
    /\ SessionInit /\ CacheInit /\ SignInInit /\ ProcessInit /\ QueryLogInit
    /\ DriftInit /\ ArchiveInit
    /\ IF focus = "payloads" THEN PayloadInit ELSE PayloadAtRest
    /\ UpdateInit /\ (focus = "update" \/ (running = 1 /\ watched))

SessionStep ==
    /\ focus = "session" /\ SessionNext
    /\ UNCHANGED <<focus, cacheVars, signInVars, processVars, queryLogVars, driftVars,
                   archiveVars, payloadVars, updateVars>>

CacheStep ==
    /\ focus = "caches" /\ CacheNext
    /\ UNCHANGED <<focus, sessionVars, signInVars, processVars, queryLogVars, driftVars,
                   archiveVars, payloadVars, updateVars>>

SignInStep ==
    /\ focus = "sign-in" /\ SignInNext
    /\ UNCHANGED <<focus, sessionVars, cacheVars, processVars, queryLogVars, driftVars,
                   archiveVars, payloadVars, updateVars>>

ProcessStep ==
    /\ focus = "process" /\ ProcessNext
    /\ UNCHANGED <<focus, sessionVars, cacheVars, signInVars, queryLogVars, driftVars,
                   archiveVars, payloadVars, updateVars>>

QueryLogStep ==
    /\ focus = "query log" /\ QueryLogNext
    /\ UNCHANGED <<focus, sessionVars, cacheVars, signInVars, processVars, driftVars,
                   archiveVars, payloadVars, updateVars>>

DriftStep ==
    /\ focus = "drift log" /\ DriftNext
    /\ UNCHANGED <<focus, sessionVars, cacheVars, signInVars, processVars, queryLogVars,
                   archiveVars, payloadVars, updateVars>>

ArchiveStep ==
    /\ focus = "archive" /\ ArchiveNext
    /\ UNCHANGED <<focus, sessionVars, cacheVars, signInVars, processVars, queryLogVars,
                   driftVars, payloadVars, updateVars>>

PayloadStep ==
    /\ focus = "payloads" /\ PayloadNext
    /\ UNCHANGED <<focus, sessionVars, cacheVars, signInVars, processVars, queryLogVars,
                   driftVars, archiveVars, updateVars>>

UpdateStep ==
    /\ focus = "update" /\ UpdateNext
    /\ UNCHANGED <<focus, sessionVars, cacheVars, signInVars, processVars, queryLogVars,
                   driftVars, archiveVars, payloadVars>>

Next ==
    \/ SessionStep
    \/ CacheStep
    \/ SignInStep
    \/ ProcessStep
    \/ QueryLogStep
    \/ DriftStep
    \/ ArchiveStep
    \/ PayloadStep
    \/ UpdateStep

Spec == Init /\ [][Next]_vars

\* What a service is fair to is disabled while it is not in focus.
FairSpec ==
    /\ Spec
    /\ SessionFairness /\ CacheFairness /\ SignInFairness /\ ProcessFairness
    /\ QueryLogFairness /\ PayloadFairness /\ UpdateFairness
=============================================================================

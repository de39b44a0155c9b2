------------------------------ MODULE SignIn ------------------------------
(***************************************************************************)
(* Signing in to the hub: api/auth.py's setup, login and password change,  *)
(* deps.py's Basic Auth of the AdGuard-compatible API with the remembered  *)
(* credentials of security.VerifiedCredentials, and services/throttle.py's *)
(* count of failures per source.                                           *)
(*                                                                         *)
(* Hashing takes a thread, and so time: a request is admitted by the       *)
(* throttle before it and counted after it, and the account it loaded may  *)
(* have another password by then.  A password is the number of the change  *)
(* that set it, 0 is one that never was.                                   *)
(***************************************************************************)
EXTENDS Integers, Sequences, SequencesExt, FiniteSets

CONSTANTS
    Visits,         \* requests under way at once
    NoVisit,
    Sources,        \* addresses requests come from
    MaxFailures,    \* throttle.MAX_FAILURES, 10 in the code
    MaxTracked,     \* throttle.MAX_TRACKED_SOURCES, 4096 in the code
    MaxPasswords,   \* bound: how often a password is set
    MaxVisits       \* bound: how many requests are made

ASSUME SignInAssumption ==
    /\ NoVisit \notin Visits /\ IsFiniteSet(Visits)
    /\ MaxFailures \in Nat \ {0} /\ MaxTracked \in Nat \ {0}
    /\ MaxPasswords \in Nat /\ MaxVisits \in Nat

VARIABLES
    account,     \* the password the account has, 0 while there is none
    accounts,    \* how many accounts there are
    setupLock,   \* who holds _setup_lock
    visit,       \* visit[v]: where request v is and what it loaded
    tracked,     \* the throttle's entries, the one that expires soonest first
    remembered,  \* the passwords VerifiedCredentials takes without hashing
    visits,      \* how many requests were made
    tried        \* history, read by no action: tried[s] is how often source s has failed since
                 \* its slate was last clean, and how often the full table dropped its entry since

signInVars == <<account, accounts, setupLock, visit, tracked, remembered, visits, tried>>

NotTried == [wrong |-> 0, lost |-> 0]

NoSignIn == [pc |-> "rest", door |-> "none", source |-> "none", given |-> 0, loaded |-> 0]

Leave(v) == visit' = [visit EXCEPT ![v] = NoSignIn]

-----------------------------------------------------------------------------
(* The throttle.  An entry is live until the window after its last failure. *)

IndexOf(entries, source) == {i \in DOMAIN entries : entries[i].source = source}

FailuresOf(source) ==
    IF \E i \in IndexOf(tracked, source) : tracked[i].live
    THEN tracked[CHOOSE i \in IndexOf(tracked, source) : TRUE].count ELSE 0

Without(entries, source) ==
    IF IndexOf(entries, source) = {} THEN entries
    ELSE RemoveAt(entries, CHOOSE i \in IndexOf(entries, source) : TRUE)

\* Mutant: the failures of a locked-out source are not looked at.
AdmittedAlways(source) == TRUE

\* retry_after
Admitted(source) == FailuresOf(source) < MaxFailures

\* The entries that have run out come first.
Live == SubSeq(tracked, 1 + Cardinality({i \in DOMAIN tracked : ~tracked[i].live}), Len(tracked))

\* _evict_expired, for a source that is new or has run out.
Room ==
    IF Len(tracked) < MaxTracked THEN tracked
    ELSE IF Len(Live) < MaxTracked THEN Live ELSE Tail(Live)

\* The sources whose failures still count and which make room for another all the same.
Evicted(source) ==
    {s \in Sources \ {source} :
        FailuresOf(source) = 0 /\ FailuresOf(s) > 0 /\ IndexOf(Room, s) = {}}

\* record_failure; each failure restarts the clock.
Counted(source) ==
    LET rest == Without(IF FailuresOf(source) > 0 THEN tracked ELSE Room, source)
    IN  Append(rest, [source |-> source, count |-> FailuresOf(source) + 1, live |-> TRUE])

\* record_failure and record_success, as seen by who counts for himself.
FailedOnceMore(source) ==
    tried' = [s \in Sources |->
        [wrong |-> tried[s].wrong + (IF s = source THEN 1 ELSE 0),
         lost  |-> tried[s].lost + (IF s \in Evicted(source) THEN 1 ELSE 0)]]

CleanSlate(source) == tried' = [tried EXCEPT ![source] = NotTried]

\* The window of the entry that expires next is over.
WindowEnds ==
    /\ \E i \in DOMAIN tracked :
          /\ tracked[i].live /\ \A j \in 1 .. i - 1 : ~tracked[j].live
          /\ tracked' = [tracked EXCEPT ![i].live = FALSE]
          /\ CleanSlate(tracked[i].source)
    /\ UNCHANGED <<account, accounts, setupLock, visit, remembered, visits>>

-----------------------------------------------------------------------------
(* Setting up: the look for an account and the insert under one lock.       *)

\* Mutant: without the lock.
SetupFreeAlways == TRUE

SetupFree == setupLock = NoVisit

StartSetup(v) ==
    /\ visit[v].pc = "rest" /\ visits < MaxVisits /\ SetupFree
    /\ visits' = visits + 1
    /\ IF account # 0 THEN UNCHANGED <<visit, setupLock>>
       ELSE /\ visit' = [visit EXCEPT ![v] = [NoSignIn EXCEPT !.pc = "hashing", !.door = "setup"]]
            /\ setupLock' = v
    /\ UNCHANGED <<account, accounts, tracked, remembered, tried>>

CreateAdmin(v) ==
    /\ visit[v].pc = "hashing" /\ visit[v].door = "setup"
    /\ account' = 1 /\ accounts' = accounts + 1
    /\ setupLock' = NoVisit
    /\ Leave(v)
    /\ UNCHANGED <<tracked, remembered, visits, tried>>

-----------------------------------------------------------------------------
(* The login forms and Basic Auth.                                          *)

\* A source that is let through has its account loaded; Basic Auth asks the remembered
\* credentials first.
Arrive(v) ==
    /\ visit[v].pc = "rest" /\ visits < MaxVisits
    /\ visits' = visits + 1
    /\ \E source \in Sources, given \in 0 .. account, door \in {"login", "basic"} :
          /\ Admitted(source)
          /\ IF door = "basic" /\ given \in remembered
             THEN /\ tracked' = Without(tracked, source) /\ CleanSlate(source)
                  /\ UNCHANGED visit
             ELSE /\ visit' = [visit EXCEPT ![v] =
                         [pc |-> "checking", door |-> door, source |-> source,
                          given |-> given, loaded |-> account]]
                  /\ tracked' = IF FailuresOf(source) = 0 THEN Without(tracked, source)
                                ELSE tracked
                  /\ UNCHANGED tried
    /\ UNCHANGED <<account, accounts, setupLock, remembered>>

\* check_password is back: counted and refused, or the slate is clean.
Checked(v) ==
    /\ visit[v].pc = "checking" /\ visit[v].door \in {"login", "basic"}
    /\ LET right == visit[v].given # 0 /\ visit[v].given = visit[v].loaded IN
       /\ tracked' = IF right THEN Without(tracked, visit[v].source)
                     ELSE Counted(visit[v].source)
       /\ IF right THEN CleanSlate(visit[v].source) ELSE FailedOnceMore(visit[v].source)
       /\ remembered' = IF right /\ visit[v].door = "basic"
                        THEN remembered \union {visit[v].given} ELSE remembered
    /\ Leave(v)
    /\ UNCHANGED <<account, accounts, setupLock, visits>>

\* Mutant: what was remembered once stays.
RememberedStays == remembered = {} /\ UNCHANGED signInVars

\* VerifiedCredentials' five minutes are over.
RememberedExpires ==
    /\ \E password \in remembered : remembered' = remembered \ {password}
    /\ UNCHANGED <<account, accounts, setupLock, visit, tracked, visits, tried>>

-----------------------------------------------------------------------------
(* Changing the password, by whoever holds a cookie issued under it.        *)

StartPasswordChange(v) ==
    /\ visit[v].pc = "rest" /\ visits < MaxVisits /\ account \in 1 .. MaxPasswords - 1
    /\ visits' = visits + 1
    /\ \E given \in 0 .. account :
          visit' = [visit EXCEPT ![v] =
                       [pc |-> "checking", door |-> "password", source |-> "none",
                        given |-> given, loaded |-> account]]
    /\ UNCHANGED <<account, accounts, setupLock, tracked, remembered, tried>>

CurrentChecked(v) ==
    /\ visit[v].pc = "checking" /\ visit[v].door = "password"
    /\ IF visit[v].given = visit[v].loaded
       THEN visit' = [visit EXCEPT ![v].pc = "commit"] ELSE Leave(v)
    /\ UNCHANGED <<account, accounts, setupLock, tracked, remembered, visits, tried>>

CommitPassword(v) ==
    /\ visit[v].pc = "commit" /\ account < MaxPasswords
    /\ account' = account + 1
    /\ visit' = [visit EXCEPT ![v].pc = "forget"]
    /\ UNCHANGED <<accounts, setupLock, tracked, remembered, visits, tried>>

ForgetAll(v) ==
    /\ visit[v].pc = "forget"
    /\ remembered' = {}
    /\ Leave(v)
    /\ UNCHANGED <<account, accounts, setupLock, tracked, visits, tried>>

SignInInit ==
    /\ account = 0 /\ accounts = 0
    /\ setupLock = NoVisit
    /\ visit = [v \in Visits |-> NoSignIn]
    /\ tracked = <<>>
    /\ remembered = {}
    /\ visits = 0
    /\ tried = [s \in Sources |-> NotTried]

SignInNext ==
    \/ \E v \in Visits :
          \/ StartSetup(v) \/ CreateAdmin(v)
          \/ Arrive(v) \/ Checked(v)
          \/ StartPasswordChange(v) \/ CurrentChecked(v) \/ CommitPassword(v) \/ ForgetAll(v)
    \/ WindowEnds \/ RememberedExpires

\* Clocks run, and hashing and commits come back.
SignInFairness ==
    /\ WF_signInVars(WindowEnds) /\ WF_signInVars(RememberedExpires)
    /\ \A v \in Visits : WF_signInVars(Checked(v) \/ ForgetAll(v))

SignInSpec == SignInInit /\ [][SignInNext]_signInVars

-----------------------------------------------------------------------------
(* Properties.                                                              *)

\* Two first-run requests do not both find no account and create one.
OneAdmin == accounts <= 1

\* How often a source really fails before its slate is clean again - by a success, or by a
\* window without a failure.  throttle.py:10 says ten times in five minutes; hashing between
\* the look and the count lets through what is already under way, and each time the full
\* table drops the source's entry (throttle.py:164) it may all begin anew.  No more than that.
TriesBounded ==
    /\ \A s \in Sources :
          tried[s].wrong <= (MaxFailures - 1 + Cardinality(Visits)) * (1 + tried[s].lost)
    /\ Len(tracked) <= MaxTracked

\* auth.py:137: the old password stops working in the credential cache as well - at the
\* latest when the five minutes of a check the change overtook are over.
OldPasswordForgotten == <>[](remembered \subseteq {account})
=============================================================================

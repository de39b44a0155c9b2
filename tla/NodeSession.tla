---------------------------- MODULE NodeSession ----------------------------
(***************************************************************************)
(* How the hub's requests share one AdGuard login: adapters/session.py's   *)
(* store of cookies, and AdGuardAdapter's _ensure_session, _login and      *)
(* _request, for the callers - the query log poller, a push, a probe, a    *)
(* page - that reach one node at the same time.                            *)
(*                                                                         *)
(* A cookie is the number of the login that handed it out, 0 is none.      *)
(* A transport error ends a call like a refusal; it is the answer "down".  *)
(***************************************************************************)
EXTENDS Integers, FiniteSets

CONSTANTS
    Callers,       \* adapters at work on the node
    NoCaller,
    MaxLapses,     \* bound: how often the node loses its sessions
    MaxForgets,    \* bound: how often the instance is edited
    MaxRounds      \* bound: how many requests each caller makes

ASSUME NodeSessionAssumption == NoCaller \notin Callers /\ MaxForgets \in Nat

VARIABLES
    entry,      \* the store's entry for the node: cookie, cool-down, which entry it is
    loginLock,  \* loginLock[g]: who holds the lock of the g-th entry
    call,       \* call[c]: where caller c's request is
    accepted,   \* the cookies the node accepts
    limited,    \* whether the node answers 429
    password,   \* whether the stored password is the node's
    logins,     \* how many logins the node was asked for
    lapses      \* how often the node lost its sessions

sessionVars == <<entry, loginLock, call, accepted, limited, password, logins, lapses>>

NoRequest == [pc |-> "rest", cookie |-> 0, gen |-> 0, attempt |-> 1, why |-> {}, round |-> 0]

FreshEntry(g) == [gen |-> g, cookie |-> 0, blocked |-> FALSE]

At(c, pc) == call[c].pc = pc

Going(c, pc) == call' = [call EXCEPT ![c].pc = pc]

Ended(c, outcome) == call' = [call EXCEPT ![c].pc = outcome]

Underway(c) == call[c].pc \notin {"rest", "ok", "failed"}

\* Whatever happens to the node or the row while a request is under way may be why it fails.
Blame(what) ==
    [c \in Callers |-> IF Underway(c) THEN [call[c] EXCEPT !.why = @ \union {what}] ELSE call[c]]

-----------------------------------------------------------------------------
(* A request.                                                               *)

\* _ensure_session: the cached cookie, or the lock of the entry as it is now.
EnsureSession(c) ==
    /\ call[c].pc \in {"rest", "ok", "failed"} /\ call[c].round < MaxRounds
    /\ LET why == (IF entry.blocked THEN {"blocked"} ELSE {})
                  \union (IF limited THEN {"limited"} ELSE {})
                  \union (IF ~password THEN {"password"} ELSE {})
       IN call' = [call EXCEPT ![c] =
                     [pc |-> IF entry.cookie # 0 THEN "send" ELSE "wait",
                      cookie |-> entry.cookie, gen |-> entry.gen, attempt |-> 1,
                      why |-> why, round |-> call[c].round + 1]]
    /\ UNCHANGED <<entry, loginLock, accepted, limited, password, logins, lapses>>

\* The wait is over; somebody may have logged in meanwhile, which only the first way looks at.
TakeLock(c) ==
    /\ At(c, "wait") /\ loginLock[call[c].gen] = NoCaller
    /\ \/ /\ call[c].attempt = 1 /\ entry.cookie # 0
          /\ call' = [call EXCEPT ![c].pc = "send", ![c].cookie = entry.cookie]
          /\ UNCHANGED <<loginLock, logins>>
       \/ /\ call[c].attempt = 2 \/ entry.cookie = 0
          /\ entry.blocked
          /\ Ended(c, "failed")
          /\ UNCHANGED <<loginLock, logins>>
       \/ /\ call[c].attempt = 2 \/ entry.cookie = 0
          /\ ~entry.blocked
          /\ Going(c, "login")
          /\ loginLock' = [loginLock EXCEPT ![call[c].gen] = c]
          /\ logins' = logins + 1
    /\ UNCHANGED <<entry, accepted, limited, password, lapses>>

\* Mutant: the lock is given back by a login that succeeds.
UnlockedIfOk(c) ==
    IF limited \/ ~password THEN loginLock ELSE [loginLock EXCEPT ![call[c].gen] = NoCaller]

Unlocked(c) == [loginLock EXCEPT ![call[c].gen] = NoCaller]

\* The store's methods find the entry by its key, or make a new one.
LoginAnswered(c) ==
    /\ At(c, "login")
    /\ loginLock' = Unlocked(c)
    /\ \/ /\ limited
          /\ entry' = [entry EXCEPT !.cookie = 0, !.blocked = TRUE]
          /\ call' = [Blame("blocked") EXCEPT ![c].pc = "failed"]
          /\ UNCHANGED accepted
       \/ /\ ~limited /\ ~password
          /\ Ended(c, "failed")
          /\ UNCHANGED <<entry, accepted>>
       \/ /\ ~limited /\ password
          /\ accepted' = accepted \union {logins}
          /\ entry' = [entry EXCEPT !.cookie = logins, !.blocked = FALSE]
          /\ call' = [call EXCEPT ![c].pc = "send", ![c].cookie = logins]
    /\ UNCHANGED <<limited, password, logins, lapses>>

\* Mutant: a 401 is final.
NoRetryLeft(c) == FALSE

MayRetry(c) == call[c].attempt = 1

\* _send's answer: 429, 401 for a cookie the node has forgotten - once more with a new
\* login - or what was asked for.
Answered(c) ==
    /\ At(c, "send")
    /\ \/ /\ limited
          /\ entry' = [entry EXCEPT !.cookie = 0, !.blocked = TRUE]
          /\ call' = [Blame("blocked") EXCEPT ![c].pc = "failed"]
       \/ /\ ~limited /\ call[c].cookie \in accepted
          /\ Ended(c, "ok") /\ UNCHANGED entry
       \/ /\ ~limited /\ call[c].cookie \notin accepted /\ MayRetry(c)
          /\ entry' = [entry EXCEPT !.cookie = 0]
          /\ call' = [call EXCEPT ![c].pc = "wait", ![c].attempt = 2, ![c].gen = entry.gen]
       \/ /\ ~limited /\ call[c].cookie \notin accepted /\ ~MayRetry(c)
          /\ Ended(c, "failed") /\ UNCHANGED entry
    /\ UNCHANGED <<loginLock, accepted, limited, password, logins, lapses>>

-----------------------------------------------------------------------------
(* Around it.                                                               *)

\* The node restarts or its sessions run out.
Lapse ==
    /\ lapses < MaxLapses /\ accepted # {}
    /\ accepted' = {}
    /\ lapses' = lapses + 1
    /\ call' = [c \in Callers |->
                  IF Underway(c)
                  THEN [call[c] EXCEPT !.why = @ \union
                            {IF call[c].attempt = 2 THEN "lapsed again" ELSE "lapsed"}]
                  ELSE call[c]]
    /\ UNCHANGED <<entry, loginLock, limited, password, logins>>

\* The node's brute-force protection trips, and lets go.
Limit ==
    /\ ~limited /\ logins > 1
    /\ limited' = TRUE
    /\ call' = Blame("limited")
    /\ UNCHANGED <<entry, loginLock, accepted, password, logins, lapses>>

LimitOver ==
    /\ limited /\ limited' = FALSE
    /\ UNCHANGED <<entry, loginLock, call, accepted, password, logins, lapses>>

\* blocked_until has passed.
CoolDownOver ==
    /\ entry.blocked /\ entry' = [entry EXCEPT !.blocked = FALSE]
    /\ UNCHANGED <<loginLock, call, accepted, limited, password, logins, lapses>>

\* update_instance and delete_instance forget the entry, a lock somebody holds included.
Forget ==
    /\ entry.gen < MaxForgets
    /\ entry' = FreshEntry(entry.gen + 1)
    /\ \E right \in BOOLEAN :
          /\ password' = right
          /\ call' = IF right THEN call ELSE Blame("password")
    /\ UNCHANGED <<loginLock, accepted, limited, logins, lapses>>

SessionInit ==
    /\ entry = FreshEntry(0)
    /\ loginLock = [g \in 0 .. MaxForgets |-> NoCaller]
    /\ call = [c \in Callers |-> NoRequest]
    /\ accepted = {} /\ limited = FALSE /\ password = TRUE
    /\ logins = 0 /\ lapses = 0

RequestStep(c) == EnsureSession(c) \/ TakeLock(c) \/ LoginAnswered(c) \/ Answered(c)

SessionNext ==
    \/ \E c \in Callers : RequestStep(c)
    \/ Lapse \/ Limit \/ LimitOver \/ CoolDownOver \/ Forget

\* A lock is handed on and the node's answer or the transport's error comes.
SessionFairness ==
    \A c \in Callers : WF_sessionVars(TakeLock(c) \/ LoginAnswered(c) \/ Answered(c))

SessionSpec == SessionInit /\ [][SessionNext]_sessionVars

-----------------------------------------------------------------------------
(* Properties.                                                              *)

\* A request with the right password fails only for what the node did meanwhile: it was
\* limiting, or lost its sessions a second time after the request had logged in anew.
\* What other callers do to the shared entry never makes one fail.
FailureExplained ==
    \A c \in Callers :
        At(c, "failed") =>
            call[c].why \intersect {"password", "limited", "blocked", "lapsed again"} # {}

\* A lock belongs to the one caller that is logging in with it, so that no way out of
\* _login leaves the node closed to everybody else.
LockHeldByLogin ==
    \A g \in 0 .. MaxForgets :
        \A c \in Callers : loginLock[g] = c <=> At(c, "login") /\ call[c].gen = g

\* Every request comes to an end, whatever becomes of the lock it waits for.
RequestsEnd == \A c \in Callers : Underway(c) ~> ~Underway(c)
=============================================================================

------------------------- MODULE HubServices_proofs -------------------------
(***************************************************************************)
(* Proofs about the hub's services: signing in, the update of the hub      *)
(* itself, and what speaks to the nodes: the session with each and what   *)
(* is cached of them.                                                      *)
(***************************************************************************)
EXTENDS SignIn, SelfUpdate, NodeSession, NodeCaches,
        FiniteSetTheorems, SequenceTheorems, TLAPS

\* The numbers up to n are n.
LEMMA CountedUpTo ==
    ASSUME NEW n \in Nat
    PROVE  IsFiniteSet(1 .. n) /\ Cardinality(1 .. n) = n
BY FS_Interval

(***************************************************************************)
(* SignIn, for any number of requests, sources and failures: the account   *)
(* is made once.  Between the look for an account and the insert a request *)
(* hashes, and nobody else may look meanwhile: the setup lock is its own,  *)
(* and there is no account yet.                                            *)
(***************************************************************************)

Hashing(v) == visit[v].pc = "hashing" /\ visit[v].door = "setup"

VisitFcn == visit = [v \in Visits |-> visit[v]]

AccountCounted ==
    /\ account \in Nat
    /\ accounts = IF account = 0 THEN 0 ELSE 1

SetupLocked == \A v \in Visits : Hashing(v) => setupLock = v /\ account = 0

\* Only an account that exists has its password changed.
ChangesExisting ==
    \A v \in Visits : visit[v].pc = "commit" => account # 0 /\ visit[v].door = "password"

OnlyPasswords == \A v \in Visits : visit[v].door = "password" => account # 0

SignInInv ==
    VisitFcn /\ AccountCounted /\ SetupLocked /\ ChangesExisting /\ OnlyPasswords

LEMMA SignInInitHolds == SignInInit => SignInInv
BY DEF SignInInit, SignInInv, VisitFcn, AccountCounted, SetupLocked, ChangesExisting,
       OnlyPasswords, Hashing, NoSignIn

\* A step that at most ends one request and leaves the account and the lock alone.
LEMMA LeavingKeeps ==
    ASSUME SignInInv, NEW v \in Visits, Leave(v) \/ UNCHANGED visit,
           UNCHANGED <<account, accounts, setupLock>>
    PROVE  SignInInv'
<1>1. VisitFcn' /\ \A w \in Visits : visit'[w] \in {visit[w], NoSignIn}
  BY DEF SignInInv, VisitFcn, Leave
<1>2. /\ NoSignIn.pc # "hashing" /\ NoSignIn.pc # "commit"
      /\ NoSignIn.door # "password"
  BY DEF NoSignIn
<1> QED BY <1>1, <1>2
    DEF SignInInv, AccountCounted, SetupLocked, ChangesExisting, OnlyPasswords, Hashing

LEMMA SetupKeeps ==
    ASSUME SignInInv, NEW v \in Visits, StartSetup(v)
    PROVE  SignInInv'
<1>1. SetupFree /\ UNCHANGED <<account, accounts>>
  BY DEF StartSetup
<1>2. CASE account # 0
  BY <1>1, <1>2, LeavingKeeps DEF StartSetup
<1>3. CASE account = 0
  <2> DEFINE new == [NoSignIn EXCEPT !.pc = "hashing", !.door = "setup"]
  <2>1. visit' = [visit EXCEPT ![v] = new] /\ setupLock' = v
    BY <1>3 DEF StartSetup
  <2>2. new.pc = "hashing" /\ new.door = "setup"
    BY DEF NoSignIn
  <2> HIDE DEF new
  <2>3. VisitFcn' /\ visit'[v] = new /\ \A w \in Visits : w # v => visit'[w] = visit[w]
    BY <2>1 DEF SignInInv, VisitFcn
  <2>4. \A w \in Visits : ~Hashing(w)
    BY <1>1, SignInAssumption DEF SignInInv, SetupLocked, SetupFree
  <2>5. SetupLocked'
    BY <1>1, <1>3, <2>1, <2>3, <2>4 DEF SetupLocked, Hashing
  <2>6. ChangesExisting' /\ OnlyPasswords'
    BY <1>1, <2>2, <2>3 DEF SignInInv, ChangesExisting, OnlyPasswords
  <2> QED BY <1>1, <2>3, <2>5, <2>6 DEF SignInInv, AccountCounted
<1> QED BY <1>2, <1>3

\* The insert, of the one request that hashes.
LEMMA CreateKeeps ==
    ASSUME SignInInv, NEW v \in Visits, CreateAdmin(v)
    PROVE  SignInInv'
<1>1. /\ Hashing(v) /\ account' = 1 /\ accounts' = accounts + 1 /\ Leave(v)
  BY DEF CreateAdmin, Hashing
<1>2. account = 0 /\ accounts = 0 /\ \A w \in Visits : Hashing(w) => w = v
  BY <1>1 DEF SignInInv, SetupLocked, AccountCounted
<1>3. /\ VisitFcn' /\ visit'[v] = NoSignIn
      /\ \A w \in Visits : w # v => visit'[w] = visit[w]
  BY <1>1 DEF SignInInv, VisitFcn, Leave
<1>4. \A w \in Visits : ~Hashing(w)'
  BY <1>2, <1>3 DEF Hashing, NoSignIn
<1>5. AccountCounted'
  BY <1>1, <1>2 DEF AccountCounted
<1>6. ChangesExisting' /\ OnlyPasswords'
  BY <1>1, <1>2, <1>3 DEF SignInInv, ChangesExisting, OnlyPasswords, NoSignIn
<1>7. SetupLocked'
  BY <1>4 DEF SetupLocked
<1> QED BY <1>3, <1>5, <1>6, <1>7 DEF SignInInv

LEMMA ArriveKeeps ==
    ASSUME SignInInv, NEW v \in Visits, Arrive(v) \/ StartPasswordChange(v)
    PROVE  SignInInv'
<1>1. /\ UNCHANGED <<account, accounts, setupLock>>
      /\ \/ UNCHANGED visit
         \/ \E new : /\ visit' = [visit EXCEPT ![v] = new] /\ new.pc = "checking"
                     /\ new.door = "password" => account # 0
  <2>1. CASE Arrive(v)
    <3>1. UNCHANGED <<account, accounts, setupLock>>
      BY <2>1 DEF Arrive
    <3>2. PICK source \in Sources, given \in 0 .. account, door \in {"login", "basic"} :
             \/ UNCHANGED visit
             \/ visit' = [visit EXCEPT ![v] =
                            [pc |-> "checking", door |-> door, source |-> source,
                             given |-> given, loaded |-> account]]
      BY <2>1 DEF Arrive
    <3> DEFINE new == [pc |-> "checking", door |-> door, source |-> source,
                       given |-> given, loaded |-> account]
    <3>3. new.pc = "checking" /\ new.door # "password"
      OBVIOUS
    <3> HIDE DEF new
    <3>4. UNCHANGED visit \/ visit' = [visit EXCEPT ![v] = new]
      BY <3>2 DEF new
    <3> QED BY <3>1, <3>3, <3>4
  <2>2. CASE StartPasswordChange(v)
    <3>1. UNCHANGED <<account, accounts, setupLock>> /\ account # 0
      BY <2>2 DEF StartPasswordChange
    <3>2. PICK given \in 0 .. account :
             visit' = [visit EXCEPT ![v] =
                          [pc |-> "checking", door |-> "password", source |-> "none",
                           given |-> given, loaded |-> account]]
      BY <2>2 DEF StartPasswordChange
    <3> DEFINE new == [pc |-> "checking", door |-> "password", source |-> "none",
                       given |-> given, loaded |-> account]
    <3>3. new.pc = "checking"
      OBVIOUS
    <3> QED BY <3>1, <3>2, <3>3
  <2> QED BY <2>1, <2>2
<1>2. CASE UNCHANGED visit
  BY <1>1, <1>2, LeavingKeeps
<1>3. ASSUME NEW new, visit' = [visit EXCEPT ![v] = new], new.pc = "checking",
             new.door = "password" => account # 0
      PROVE  SignInInv'
  <2>1. VisitFcn' /\ visit'[v] = new /\ \A w \in Visits : w # v => visit'[w] = visit[w]
    BY <1>3 DEF SignInInv, VisitFcn
  <2> QED BY <1>1, <1>3, <2>1
      DEF SignInInv, AccountCounted, SetupLocked, ChangesExisting, OnlyPasswords, Hashing
<1> QED BY <1>1, <1>2, <1>3

LEMMA ChangeKeeps ==
    ASSUME SignInInv, NEW v \in Visits, CurrentChecked(v) \/ CommitPassword(v)
    PROVE  SignInInv'
<1>1. CASE CurrentChecked(v)
  <2>1. CASE visit[v].given # visit[v].loaded
    BY <1>1, <2>1, LeavingKeeps DEF CurrentChecked
  <2>2. CASE visit[v].given = visit[v].loaded
    <3>1. /\ visit[v].door = "password" /\ UNCHANGED <<account, accounts, setupLock>>
          /\ visit' = [visit EXCEPT ![v] = [visit[v] EXCEPT !.pc = "commit"]]
      BY <1>1, <2>2 DEF CurrentChecked
    <3>2. account # 0
      BY <3>1 DEF SignInInv, OnlyPasswords
    <3>3. VisitFcn' /\ \A w \in Visits : w # v => visit'[w] = visit[w]
      BY <3>1 DEF SignInInv, VisitFcn
    <3>4. SetupLocked'
      BY <3>1, <3>2, <3>3 DEF SignInInv, SetupLocked, Hashing
    <3> QED BY <3>1, <3>2, <3>3, <3>4 DEF SignInInv, AccountCounted, ChangesExisting, OnlyPasswords
  <2> QED BY <2>1, <2>2
<1>2. CASE CommitPassword(v)
  <2>1. /\ visit[v].pc = "commit" /\ account' = account + 1 /\ UNCHANGED <<accounts, setupLock>>
        /\ visit' = [visit EXCEPT ![v] = [visit[v] EXCEPT !.pc = "forget"]]
    BY <1>2 DEF CommitPassword
  <2>2. account # 0 /\ account' # 0 /\ account' \in Nat
    BY <2>1 DEF SignInInv, ChangesExisting, AccountCounted
  <2>3. \A w \in Visits : ~Hashing(w)
    BY <2>2 DEF SignInInv, SetupLocked
  <2>4. VisitFcn' /\ \A w \in Visits : w # v => visit'[w] = visit[w]
    BY <2>1 DEF SignInInv, VisitFcn
  <2>5. visit'[v].door = "password"
    <3>1. visit'[v] = [visit[v] EXCEPT !.pc = "forget"]
      BY <2>1 DEF SignInInv, VisitFcn
    <3>2. visit[v].door = "password"
      BY <2>1 DEF SignInInv, ChangesExisting
    <3> QED BY <3>1, <3>2
  <2>6. SetupLocked'
    BY <2>3, <2>4, <2>5 DEF SetupLocked, Hashing
  <2>7. AccountCounted'
    BY <2>1, <2>2 DEF SignInInv, AccountCounted
  <2>8. ChangesExisting' /\ OnlyPasswords'
    BY <2>2, <2>4, <2>5 DEF SignInInv, ChangesExisting, OnlyPasswords
  <2> QED BY <2>4, <2>6, <2>7, <2>8 DEF SignInInv
<1> QED BY <1>1, <1>2

LEMMA SignInStepKeeps == SignInInv /\ [SignInNext]_signInVars => SignInInv'
<1> SUFFICES ASSUME SignInInv, [SignInNext]_signInVars
             PROVE  SignInInv'
  OBVIOUS
<1>1. ASSUME NEW v \in Visits,
             \/ StartSetup(v) \/ CreateAdmin(v)
             \/ Arrive(v) \/ Checked(v)
             \/ StartPasswordChange(v) \/ CurrentChecked(v) \/ CommitPassword(v) \/ ForgetAll(v)
      PROVE  SignInInv'
  <2>1. CASE Checked(v) \/ ForgetAll(v)
    BY <2>1, LeavingKeeps DEF Checked, ForgetAll
  <2> QED BY <1>1, <2>1, SetupKeeps, CreateKeeps, ArriveKeeps, ChangeKeeps
<1>2. CASE WindowEnds \/ RememberedExpires \/ UNCHANGED signInVars
  <2>1. UNCHANGED <<account, accounts, setupLock, visit>>
    BY <1>2 DEF WindowEnds, RememberedExpires, signInVars
  <2> QED BY <2>1 DEF SignInInv, VisitFcn, AccountCounted, SetupLocked, ChangesExisting,
                     OnlyPasswords, Hashing
<1> QED BY <1>1, <1>2 DEF SignInNext

\* Two first-run requests do not both find no account and create one.
THEOREM AccountMadeOnce == SignInSpec => []OneAdmin
<1>1. SignInInv => OneAdmin
  BY DEF SignInInv, AccountCounted, OneAdmin
<1> QED BY <1>1, SignInInitHolds, SignInStepKeeps, PTL DEF SignInSpec

-----------------------------------------------------------------------------
(* The throttle.  A failure is counted after the request was let through,   *)
(* so the invariant adds to a source's count the requests of it that are    *)
(* still hashing: each of them may be counted yet.                          *)

Entries == [source : Sources, count : Nat, live : BOOLEAN]

\* Requests that were let through and may still turn out to be failures.
Trying(source) ==
    {v \in Visits : /\ visit[v].pc = "checking" /\ visit[v].door \in {"login", "basic"}
                    /\ visit[v].source = source}

\* An entry to a source.
OneEach(entries) ==
    /\ entries \in Seq(Entries)
    /\ \A i, j \in 1 .. Len(entries) : entries[i].source = entries[j].source => i = j

TriesLimit == MaxFailures - 1 + Cardinality(Visits)

Spent(tally) == tally.count + Cardinality(Trying(tally.source)) <= TriesLimit

NoneOverspent == \A i \in 1 .. Len(tracked) : Spent(tracked[i])

FromASource ==
    \A v \in Visits : visit[v].pc = "checking" /\ visit[v].door \in {"login", "basic"} =>
        visit[v].source \in Sources

ThrottleInv ==
    /\ VisitFcn /\ FromASource
    /\ OneEach(tracked) /\ Len(tracked) <= MaxTracked
    /\ NoneOverspent

LEMMA ThrottleInitHolds == SignInInit => ThrottleInv
<1> SUFFICES ASSUME SignInInit PROVE ThrottleInv
  OBVIOUS
<1>1. tracked = <<>> /\ Len(tracked) = 0 /\ tracked \in Seq(Entries)
  BY DEF SignInInit
<1>2. VisitFcn /\ FromASource
  BY DEF SignInInit, NoSignIn, VisitFcn, FromASource
<1> QED BY <1>1, <1>2, SignInAssumption DEF ThrottleInv, OneEach, NoneOverspent

LEMMA EntriesTyped ==
    ASSUME NEW entries, OneEach(entries), NEW i \in 1 .. Len(entries)
    PROVE  entries[i].source \in Sources /\ entries[i].count \in Nat
<1>1. entries[i] \in Entries
  BY DEF OneEach
<1> QED BY <1>1 DEF Entries

LEMMA EntrySpent ==
    ASSUME ThrottleInv, NEW j \in 1 .. Len(tracked), NEW e, e = tracked[j]
    PROVE  e.count \in Nat /\ e.count + Cardinality(Trying(e.source)) <= TriesLimit
<1>1. e.count \in Nat
  BY EntriesTyped DEF ThrottleInv
<1>2. Spent(e)
  BY DEF ThrottleInv, NoneOverspent
<1> QED BY <1>1, <1>2 DEF Spent

\* A source has the failures of its entry, or none that count.
LEMMA FailuresOfEntry ==
    ASSUME ThrottleInv, NEW source
    PROVE  /\ FailuresOf(source) \in Nat
           /\ \A j \in IndexOf(tracked, source) :
                 j \in 1 .. Len(tracked) /\ FailuresOf(source) \in {0, tracked[j].count}
           /\ FailuresOf(source) # 0 => IndexOf(tracked, source) # {}
<1>1. /\ IndexOf(tracked, source) \subseteq 1 .. Len(tracked)
      /\ \A i, j \in IndexOf(tracked, source) : i = j
  BY DEF ThrottleInv, OneEach, IndexOf
<1>2. \A j \in IndexOf(tracked, source) : (CHOOSE i \in IndexOf(tracked, source) : TRUE) = j
  BY <1>1
<1>3. \A j \in IndexOf(tracked, source) : tracked[j].count \in Nat
  BY <1>1, EntriesTyped DEF ThrottleInv
<1>4. CASE \E i \in IndexOf(tracked, source) : tracked[i].live
  <2>1. PICK j \in IndexOf(tracked, source) : TRUE
    BY <1>4
  <2>2. FailuresOf(source) = tracked[CHOOSE i \in IndexOf(tracked, source) : TRUE].count
    BY <1>4, Zenon DEF FailuresOf
  <2>3. FailuresOf(source) = tracked[j].count
    BY <1>2, <2>2
  <2> QED BY <1>1, <1>3, <2>1, <2>3
<1>5. CASE ~\E i \in IndexOf(tracked, source) : tracked[i].live
  <2>1. FailuresOf(source) = 0
    BY <1>5, Zenon DEF FailuresOf
  <2> QED BY <1>1, <2>1
<1> QED BY <1>4, <1>5

\* A part of the entries, in their order.
LEMMA CutIsOneEach ==
    ASSUME NEW entries, OneEach(entries), NEW m \in 1 .. Len(entries) + 1,
           NEW n \in 0 .. Len(entries)
    PROVE  LET part == SubSeq(entries, m, n)
           IN  /\ OneEach(part) /\ Len(part) = (IF m <= n THEN n - m + 1 ELSE 0)
               /\ \A i \in 1 .. Len(part) : part[i] = entries[m + i - 1]
<1> DEFINE part == SubSeq(entries, m, n)
<1>1. \A i \in m .. n : entries[i] \in Entries
  BY DEF OneEach
<1>2. /\ part \in Seq(Entries)
      /\ Len(part) = (IF m <= n THEN n - m + 1 ELSE 0)
      /\ \A i \in 1 .. n - m + 1 : part[i] = entries[m + i - 1]
  BY <1>1, SubSeqProperties
<1> HIDE DEF part
<1>3. \A i \in 1 .. Len(part) : part[i] = entries[m + i - 1] /\ m + i - 1 \in 1 .. Len(entries)
  BY <1>2 DEF OneEach
<1>4. ASSUME NEW i \in 1 .. Len(part), NEW j \in 1 .. Len(part), part[i].source = part[j].source
      PROVE  i = j
  <2>1. m + i - 1 = m + j - 1
    <3> DEFINE a == m + i - 1  b == m + j - 1
    <3>1. a \in 1 .. Len(entries) /\ b \in 1 .. Len(entries)
      BY <1>3
    <3>2. entries[a].source = entries[b].source
      BY <1>3, <1>4
    <3>3. \A x, y \in 1 .. Len(entries) : entries[x].source = entries[y].source => x = y
      BY DEF OneEach
    <3> HIDE DEF a, b
    <3>4. a = b
      BY <3>1, <3>2, <3>3, Zenon
    <3> QED BY <3>4 DEF a, b
  <2>2. m \in Int /\ i \in Int /\ j \in Int
    OBVIOUS
  <2> HIDE <1>1, <1>2, <1>3, <1>4
  <2> QED BY <2>1, <2>2
<1> QED BY <1>2, <1>3, <1>4 DEF OneEach, part

\* The k-th entry taken out.
LEMMA RemovedIsOneEach ==
    ASSUME NEW entries, OneEach(entries), NEW k \in 1 .. Len(entries)
    PROVE  LET rest == RemoveAt(entries, k)
           IN  /\ OneEach(rest) /\ Len(rest) = Len(entries) - 1
               /\ \A i \in 1 .. Len(rest) : rest[i] = entries[IF i < k THEN i ELSE i + 1]
<1> DEFINE head == SubSeq(entries, 1, k - 1)
           tail == SubSeq(entries, k + 1, Len(entries))
           rest == RemoveAt(entries, k)
<1>1. Len(entries) \in Nat
  BY DEF OneEach
<1>2. /\ head \in Seq(Entries) /\ Len(head) = k - 1
      /\ \A i \in 1 .. Len(head) : head[i] = entries[i]
  <2>1. OneEach(head) /\ Len(head) = k - 1 /\ \A i \in 1 .. Len(head) : head[i] = entries[1 + i - 1]
    BY <1>1, CutIsOneEach
  <2> HIDE DEF head
  <2> QED BY <1>1, <2>1 DEF OneEach
<1>3. /\ tail \in Seq(Entries) /\ Len(tail) = Len(entries) - k
      /\ \A i \in 1 .. Len(tail) : tail[i] = entries[k + i]
  <2>1. /\ OneEach(tail) /\ Len(tail) = Len(entries) - k
        /\ \A i \in 1 .. Len(tail) : tail[i] = entries[k + 1 + i - 1]
    BY <1>1, CutIsOneEach
  <2> HIDE DEF tail
  <2> QED BY <1>1, <2>1 DEF OneEach
<1>4. rest = head \o tail
  BY DEF RemoveAt
<1> HIDE DEF head, tail, rest
<1>5. /\ rest \in Seq(Entries) /\ Len(rest) = Len(entries) - 1
      /\ \A i \in 1 .. Len(rest) : rest[i] = IF i <= Len(head) THEN head[i] ELSE tail[i - Len(head)]
  <2>1. /\ rest \in Seq(Entries) /\ Len(rest) = Len(head) + Len(tail)
        /\ \A i \in 1 .. Len(head) + Len(tail) :
              rest[i] = IF i <= Len(head) THEN head[i] ELSE tail[i - Len(head)]
    BY <1>2, <1>3, <1>4, ConcatProperties
  <2> QED BY <1>1, <1>2, <1>3, <2>1
<1>6. ASSUME NEW i \in 1 .. Len(rest)
      PROVE  /\ rest[i] = entries[IF i < k THEN i ELSE i + 1]
             /\ (IF i < k THEN i ELSE i + 1) \in 1 .. Len(entries)
  <2>1. CASE i < k
    BY <1>1, <1>2, <1>5, <2>1
  <2>2. CASE ~(i < k)
    <3>1. /\ i \in Nat /\ k \in Nat /\ i <= Len(entries) - 1 /\ Len(head) = k - 1
          /\ Len(tail) = Len(entries) - k
      BY <1>1, <1>2, <1>3, <1>5
    <3>2. i - Len(head) \in 1 .. Len(tail) /\ k + (i - Len(head)) = i + 1 /\ ~(i <= Len(head))
      BY <1>1, <2>2, <3>1
    <3>3. rest[i] = tail[i - Len(head)]
      BY <1>5, <3>2
    <3>4. tail[i - Len(head)] = entries[i + 1]
      BY <1>3, <3>2
    <3>5. i + 1 \in 1 .. Len(entries)
      BY <1>1, <1>5
    <3> QED BY <2>2, <3>3, <3>4, <3>5
  <2> QED BY <2>1, <2>2
<1>7. ASSUME NEW i \in 1 .. Len(rest), NEW j \in 1 .. Len(rest), rest[i].source = rest[j].source
      PROVE  i = j
  <2> DEFINE old(n) == IF n < k THEN n ELSE n + 1
  <2>1. /\ old(i) \in 1 .. Len(entries) /\ old(j) \in 1 .. Len(entries)
        /\ entries[old(i)].source = entries[old(j)].source
    BY <1>6, <1>7
  <2>2. old(i) = old(j)
    <3> HIDE DEF old
    <3> QED BY <2>1 DEF OneEach
  <2>3. i \in Nat /\ j \in Nat /\ k \in Nat
    BY <1>1, <1>5
  <2> QED BY <2>2, <2>3
<1> QED BY <1>5, <1>6, <1>7 DEF OneEach, rest

\* What is left without a source's entry.
LEMMA WithoutSource ==
    ASSUME NEW entries, OneEach(entries), NEW source
    PROVE  LET rest == Without(entries, source)
           IN  /\ OneEach(rest) /\ Len(rest) <= Len(entries)
               /\ IndexOf(entries, source) # {} => Len(rest) = Len(entries) - 1
               /\ \A i \in 1 .. Len(rest) : /\ rest[i].source # source
                                            /\ \E j \in 1 .. Len(entries) : rest[i] = entries[j]
<1> DEFINE rest == Without(entries, source)
<1>1. DOMAIN entries = 1 .. Len(entries) /\ Len(entries) \in Nat
  BY DEF OneEach
<1>2. CASE IndexOf(entries, source) = {}
  <2>1. rest = entries
    BY <1>2 DEF Without
  <2> HIDE DEF rest
  <2>2. \A i \in 1 .. Len(entries) : entries[i].source # source
    BY <1>1, <1>2 DEF IndexOf
  <2> QED BY <1>1, <1>2, <2>1, <2>2 DEF rest
<1>3. CASE IndexOf(entries, source) # {}
  <2>1. PICK k \in IndexOf(entries, source) : rest = RemoveAt(entries, k)
    BY <1>3 DEF Without
  <2>2. k \in 1 .. Len(entries) /\ entries[k].source = source
    BY <1>1, <2>1 DEF IndexOf
  <2> HIDE DEF rest
  <2>3. /\ OneEach(rest) /\ Len(rest) = Len(entries) - 1
        /\ \A i \in 1 .. Len(rest) : rest[i] = entries[IF i < k THEN i ELSE i + 1]
    BY <2>1, <2>2, RemovedIsOneEach
  <2>4. ASSUME NEW i \in 1 .. Len(rest)
        PROVE  /\ rest[i].source # source
               /\ \E j \in 1 .. Len(entries) : rest[i] = entries[j]
    <3> DEFINE j == IF i < k THEN i ELSE i + 1
    <3>1. j \in 1 .. Len(entries) /\ j # k
      BY <1>1, <2>2, <2>3
    <3>2. rest[i] = entries[j]
      BY <2>3
    <3> HIDE DEF j
    <3> QED BY <2>2, <3>1, <3>2 DEF OneEach
  <2> QED BY <1>1, <1>3, <2>3, <2>4 DEF rest
<1> QED BY <1>2, <1>3

\* What _evict_expired leaves has room for one more.
LEMMA RoomMade ==
    ASSUME ThrottleInv
    PROVE  /\ OneEach(Room) /\ Len(Room) < MaxTracked
           /\ \A i \in 1 .. Len(Room) : \E j \in 1 .. Len(tracked) : Room[i] = tracked[j]
<1>1. OneEach(tracked) /\ Len(tracked) \in Nat /\ Len(tracked) <= MaxTracked
  BY DEF ThrottleInv, OneEach
<1>2. CASE Len(tracked) < MaxTracked
  <2>1. Room = tracked
    BY <1>2 DEF Room
  <2> QED BY <1>1, <1>2, <2>1
<1>3. CASE Len(tracked) = MaxTracked
  <2> DEFINE gone == {i \in DOMAIN tracked : ~tracked[i].live}
             k == Cardinality(gone)
  <2>1. k \in 0 .. Len(tracked)
    <3>1. IsFiniteSet(1 .. Len(tracked)) /\ Cardinality(1 .. Len(tracked)) = Len(tracked)
      <4>1. Len(tracked) \in Nat
        BY <1>1
      <4> HIDE DEF gone, k
      <4> QED BY <4>1, CountedUpTo
    <3>2. gone \in SUBSET (1 .. Len(tracked))
      BY <1>1 DEF OneEach
    <3>3. IsFiniteSet(gone) /\ k <= Len(tracked)
      BY <3>1, <3>2, FS_Subset
    <3> QED BY <1>1, <3>3, FS_CardinalityType
  <2>2. Live = SubSeq(tracked, 1 + k, Len(tracked))
    BY DEF Live
  <2> HIDE DEF gone, k
  <2>3. /\ OneEach(Live) /\ Len(Live) = Len(tracked) - k
        /\ \A i \in 1 .. Len(Live) : Live[i] = tracked[k + i]
    <3>1. 1 + k \in 1 .. Len(tracked) + 1 /\ Len(tracked) \in 0 .. Len(tracked)
      BY <1>1, <2>1
    <3>2. /\ OneEach(Live)
          /\ Len(Live) = IF 1 + k <= Len(tracked) THEN Len(tracked) - (1 + k) + 1 ELSE 0
          /\ \A i \in 1 .. Len(Live) : Live[i] = tracked[(1 + k) + i - 1]
      BY <1>1, <2>2, <3>1, CutIsOneEach
    <3>3. \A i \in 1 .. Len(Live) : (1 + k) + i - 1 = k + i
      BY <2>1, <3>2 DEF OneEach
    <3> QED BY <1>1, <2>1, <3>2, <3>3
  <2>4. CASE Len(Live) < MaxTracked
    <3>1. Room = Live
      BY <1>3, <2>4 DEF Room
    <3> QED BY <1>1, <2>1, <2>3, <2>4, <3>1
  <2>5. CASE ~(Len(Live) < MaxTracked)
    <3>1. k = 0 /\ Len(Live) = MaxTracked
      BY <1>1, <1>3, <2>1, <2>3, <2>5
    <3>2. Room = Tail(Live)
      BY <1>3, <2>5 DEF Room
    <3>3. Live \in Seq(Entries) /\ Live # <<>>
      BY <2>3, <3>1, SignInAssumption DEF OneEach
    <3>4. Tail(Live) = SubSeq(Live, 2, Len(Live))
      BY <3>3, TailIsSubSeq
    <3>5. /\ OneEach(Room) /\ Len(Room) = MaxTracked - 1
          /\ \A i \in 1 .. Len(Room) : Room[i] = Live[i + 1]
      <4>1. /\ OneEach(Room)
            /\ Len(Room) = IF 2 <= Len(Live) THEN Len(Live) - 2 + 1 ELSE 0
            /\ \A i \in 1 .. Len(Room) : Room[i] = Live[2 + i - 1]
        <5> DEFINE m == 2
                   n == Len(Live)
        <5>1. m \in 1 .. Len(Live) + 1 /\ n \in 0 .. Len(Live) /\ Room = SubSeq(Live, m, n)
          BY <3>1, <3>2, <3>4, SignInAssumption
        <5>2. OneEach(Live)
          BY <2>3
        <5> HIDE DEF m, n
        <5>3. /\ OneEach(Room)
              /\ Len(Room) = IF m <= n THEN n - m + 1 ELSE 0
              /\ \A i \in 1 .. Len(Room) : Room[i] = Live[m + i - 1]
          BY <5>1, <5>2, CutIsOneEach
        <5> QED BY <5>3 DEF m, n
      <4>2. Len(Room) = MaxTracked - 1
        BY <3>1, <4>1, SignInAssumption
      <4>3. \A i \in 1 .. Len(Room) : 2 + i - 1 = i + 1
        BY <4>2, SignInAssumption
      <4> QED BY <4>1, <4>2, <4>3
    <3>6. ASSUME NEW i \in 1 .. Len(Room)
          PROVE  \E j \in 1 .. Len(tracked) : Room[i] = tracked[j]
      <4>1. i + 1 \in 1 .. Len(Live) /\ i + 1 \in 1 .. Len(tracked)
        BY <1>3, <3>1, <3>5, SignInAssumption
      <4>2. Live[i + 1] = tracked[k + (i + 1)]
        BY <2>3, <4>1
      <4> QED BY <1>1, <3>1, <3>5, <4>1, <4>2
    <3> QED BY <3>5, <3>6, SignInAssumption
  <2> QED BY <2>4, <2>5
<1> QED BY <1>1, <1>2, <1>3, SignInAssumption

-----------------------------------------------------------------------------

LEMMA TryingFinite ==
    \A source : /\ IsFiniteSet(Trying(source)) /\ Cardinality(Trying(source)) \in Nat
                /\ Cardinality(Trying(source)) <= Cardinality(Visits)
                /\ Cardinality(Visits) \in Nat
<1> SUFFICES ASSUME NEW source
             PROVE  /\ IsFiniteSet(Trying(source)) /\ Cardinality(Trying(source)) \in Nat
                    /\ Cardinality(Trying(source)) <= Cardinality(Visits)
                    /\ Cardinality(Visits) \in Nat
  OBVIOUS
<1>1. Trying(source) \in SUBSET Visits
  BY DEF Trying
<1> QED BY <1>1, SignInAssumption, FS_Subset, FS_CardinalityType

LEMMA SameTrying ==
    ASSUME ThrottleInv, UNCHANGED tracked, VisitFcn', FromASource',
           \A source : Trying(source)' = Trying(source)
    PROVE  ThrottleInv'
<1>1. ASSUME NEW i \in 1 .. Len(tracked), NEW e, e = tracked[i]
      PROVE  e.count + Cardinality(Trying(e.source)') <= TriesLimit
  <2>1. Trying(e.source)' = Trying(e.source)
    OBVIOUS
  <2> QED BY <1>1, <2>1 DEF ThrottleInv, NoneOverspent, Spent
<1>2. NoneOverspent'
  BY <1>1 DEF NoneOverspent, Spent, TriesLimit
<1> QED BY <1>2 DEF ThrottleInv, OneEach

\* Other requests come and go: who is trying stays the same.
LEMMA TryingElsewhere ==
    ASSUME ThrottleInv, NEW v \in Visits, UNCHANGED tracked, VisitFcn',
           \A w \in Visits : w # v => visit'[w] = visit[w],
           ~(visit[v].pc = "checking" /\ visit[v].door \in {"login", "basic"}),
           ~(visit'[v].pc = "checking" /\ visit'[v].door \in {"login", "basic"})
    PROVE  ThrottleInv'
<1>1. \A source : Trying(source)' = Trying(source)
  BY DEF Trying
<1>2. FromASource'
  BY DEF ThrottleInv, FromASource
<1> QED BY <1>1, <1>2, SameTrying

\* A request is let through: the entry of its source is below the limit or not there, and
\* at most every request is trying.
LEMMA ArriveKeepsThrottle ==
    ASSUME ThrottleInv, NEW v \in Visits, Arrive(v)
    PROVE  ThrottleInv'
<1>1. PICK source \in Sources, given \in 0 .. account, door \in {"login", "basic"} :
         /\ Admitted(source)
         /\ \/ tracked' = Without(tracked, source) /\ UNCHANGED visit
            \/ /\ visit' = [visit EXCEPT ![v] = [pc |-> "checking", door |-> door,
                                                 source |-> source, given |-> given,
                                                 loaded |-> account]]
               /\ tracked' = IF FailuresOf(source) = 0 THEN Without(tracked, source)
                             ELSE tracked
  BY DEF Arrive
<1>2. /\ OneEach(Without(tracked, source)) /\ Len(Without(tracked, source)) <= Len(tracked)
      /\ \A i \in 1 .. Len(Without(tracked, source)) :
            /\ Without(tracked, source)[i].source # source
            /\ \E j \in 1 .. Len(tracked) : Without(tracked, source)[i] = tracked[j]
  BY WithoutSource DEF ThrottleInv
<1>3. OneEach(tracked') /\ Len(tracked') <= MaxTracked
  <2>1. CASE tracked' = tracked
    BY <2>1 DEF ThrottleInv
  <2>2. CASE tracked' = Without(tracked, source)
    <3>1. Len(tracked) \in Nat /\ Len(tracked') \in Nat
      BY <1>2, <2>2 DEF ThrottleInv, OneEach
    <3> QED BY <1>2, <2>2, <3>1, SignInAssumption DEF ThrottleInv
  <2> QED BY <1>1, <2>1, <2>2
<1>4. VisitFcn' /\ FromASource' /\ \A s : s # source => Trying(s)' \subseteq Trying(s)
  BY <1>1 DEF ThrottleInv, VisitFcn, FromASource, Trying
<1>5. ASSUME NEW j \in 1 .. Len(tracked), NEW e, e = tracked[j], e.source # source
      PROVE  e.count + Cardinality(Trying(e.source)') <= TriesLimit
  <2>1. Trying(e.source)' \in SUBSET Trying(e.source)
    BY <1>4, <1>5
  <2>2. Cardinality(Trying(e.source)') <= Cardinality(Trying(e.source))
    BY <2>1, TryingFinite, FS_Subset
  <2>3. e.count \in Nat /\ e.count + Cardinality(Trying(e.source)) <= TriesLimit
    BY <1>5, EntrySpent
  <2>4. TriesLimit \in Int /\ Cardinality(Trying(e.source)) \in Nat
    BY TryingFinite, SignInAssumption DEF TriesLimit
  <2>5. Cardinality(Trying(e.source)') \in Nat
    BY <2>1, TryingFinite, FS_Subset, FS_CardinalityType
  <2> DEFINE before == Cardinality(Trying(e.source))
             after == Cardinality(Trying(e.source)')
  <2>6. /\ after <= before /\ after \in Nat /\ before \in Nat /\ TriesLimit \in Int
        /\ e.count + before <= TriesLimit /\ e.count \in Nat
    BY <2>2, <2>3, <2>4, <2>5
  <2> HIDE DEF before, after
  <2>7. e.count + after <= TriesLimit
    BY <2>6
  <2> QED BY <2>7 DEF after
<1>6. ASSUME NEW j \in 1 .. Len(tracked), NEW e, e = tracked[j], e.source = source,
             FailuresOf(source) # 0
      PROVE  e.count + Cardinality(Trying(e.source)') <= TriesLimit
  <2>1. j \in IndexOf(tracked, source)
    BY <1>6 DEF ThrottleInv, OneEach, IndexOf
  <2>2. e.count = FailuresOf(source) /\ e.count \in Nat
    BY <1>6, <2>1, FailuresOfEntry
  <2>3. e.count <= MaxFailures - 1
    BY <1>1, <2>2, SignInAssumption DEF Admitted
  <2>4. Trying(e.source)' \in SUBSET Visits
    BY DEF Trying
  <2>5. /\ Cardinality(Trying(e.source)') <= Cardinality(Visits)
        /\ Cardinality(Trying(e.source)') \in Nat /\ Cardinality(Visits) \in Nat
    BY <2>4, SignInAssumption, FS_Subset, FS_CardinalityType
  <2> QED BY <2>2, <2>3, <2>5, SignInAssumption DEF TriesLimit
<1>7. ASSUME NEW i \in 1 .. Len(tracked'), NEW e, e = tracked'[i]
      PROVE  e.count + Cardinality(Trying(e.source)') <= TriesLimit
  <2>1. CASE tracked' = Without(tracked, source)
    <3>1. PICK j \in 1 .. Len(tracked) : e = tracked[j] /\ e.source # source
      BY <1>2, <1>7, <2>1
    <3> QED BY <1>5, <3>1
  <2>2. CASE tracked' = tracked /\ FailuresOf(source) # 0
    BY <1>5, <1>6, <1>7, <2>2
  <2> QED BY <1>1, <2>1, <2>2
<1>8. NoneOverspent'
  BY <1>7 DEF NoneOverspent, Spent, TriesLimit
<1> QED BY <1>3, <1>4, <1>8 DEF ThrottleInv

\* A request was counted or cleared its source: one fewer is trying.
LEMMA CheckedKeepsThrottle ==
    ASSUME ThrottleInv, NEW v \in Visits, Checked(v)
    PROVE  ThrottleInv'
<1> PICK source : source = visit[v].source
  OBVIOUS
<1>1. /\ visit[v].pc = "checking" /\ visit[v].door \in {"login", "basic"}
      /\ tracked' = Without(tracked, source) \/ tracked' = Counted(source)
      /\ visit' = [visit EXCEPT ![v] = NoSignIn]
  BY DEF Checked, Leave
<1>2. source \in Sources /\ v \in Trying(source)
  BY <1>1 DEF ThrottleInv, FromASource, Trying
<1>3. VisitFcn' /\ visit'[v] = NoSignIn /\ \A w \in Visits : w # v => visit'[w] = visit[w]
  BY <1>1 DEF ThrottleInv, VisitFcn
<1>4. NoSignIn.pc # "checking"
  BY DEF NoSignIn
<1>5. FromASource'
  BY <1>3, <1>4 DEF ThrottleInv, FromASource
<1>6. \A s : Trying(s)' = Trying(s) \ {v}
  BY <1>3, <1>4 DEF Trying
<1>7. TriesLimit \in Int /\ TriesLimit >= Cardinality(Visits) /\ Cardinality(Visits) \in Nat
  BY TryingFinite, SignInAssumption DEF TriesLimit
<1>8. ASSUME NEW s
      PROVE  /\ Cardinality(Trying(s)') \in Nat /\ Cardinality(Trying(s)) \in Nat
             /\ Cardinality(Trying(s)') <= Cardinality(Trying(s))
             /\ s = source => Cardinality(Trying(s)') = Cardinality(Trying(s)) - 1
  <2>1. IsFiniteSet(Trying(s)) /\ Cardinality(Trying(s)) \in Nat
    BY TryingFinite
  <2>2. /\ IsFiniteSet(Trying(s) \ {v})
        /\ Cardinality(Trying(s) \ {v}) = IF v \in Trying(s) THEN Cardinality(Trying(s)) - 1
                                          ELSE Cardinality(Trying(s))
    BY <2>1, FS_RemoveElement
  <2>3. Cardinality(Trying(s) \ {v}) \in Nat
    BY <2>2, FS_CardinalityType
  <2>4. Trying(s)' = Trying(s) \ {v}
    BY <1>6
  <2> QED BY <1>2, <2>1, <2>2, <2>3, <2>4
<1>9. ASSUME NEW j \in 1 .. Len(tracked), NEW e, e = tracked[j]
      PROVE  /\ e.count \in Nat
             /\ e.count + Cardinality(Trying(e.source)') <= TriesLimit
             /\ e.source = source => (e.count + 1) + Cardinality(Trying(e.source)') <= TriesLimit
  <2>1. e.count \in Nat /\ e.count + Cardinality(Trying(e.source)) <= TriesLimit
    BY <1>9, EntrySpent
  <2> DEFINE before == Cardinality(Trying(e.source))
             after == Cardinality(Trying(e.source)')
  <2>2. /\ after <= before /\ after \in Nat /\ before \in Nat /\ TriesLimit \in Int
        /\ e.count + before <= TriesLimit /\ e.count \in Nat
        /\ e.source = source => after = before - 1
    BY <1>7, <1>8, <2>1
  <2> HIDE DEF before, after
  <2>3. e.count + after <= TriesLimit /\ (e.source = source => (e.count + 1) + after <= TriesLimit)
    BY <2>2
  <2> QED BY <2>1, <2>3 DEF after
<1> DEFINE rest == Without(IF FailuresOf(source) > 0 THEN tracked ELSE Room, source)
           fresh == [source |-> source, count |-> FailuresOf(source) + 1, live |-> TRUE]
<1>10. Counted(source) = Append(rest, fresh)
  BY DEF Counted
<1>11. /\ FailuresOf(source) \in Nat
       /\ FailuresOf(source) > 0 => \E j \in IndexOf(tracked, source) :
                                       FailuresOf(source) = tracked[j].count
  BY FailuresOfEntry
<1>12. /\ OneEach(rest) /\ Len(rest) < MaxTracked
       /\ \A i \in 1 .. Len(rest) : /\ rest[i].source # source
                                    /\ \E j \in 1 .. Len(tracked) : rest[i] = tracked[j]
  <2>1. CASE FailuresOf(source) > 0
    <3>1. rest = Without(tracked, source) /\ IndexOf(tracked, source) # {}
      BY <1>11, <2>1
    <3> HIDE DEF rest
    <3>2. /\ OneEach(rest) /\ Len(rest) = Len(tracked) - 1
          /\ \A i \in 1 .. Len(rest) : /\ rest[i].source # source
                                       /\ \E j \in 1 .. Len(tracked) : rest[i] = tracked[j]
      <4>1. OneEach(tracked)
        BY DEF ThrottleInv
      <4>2. OneEach(rest) /\ Len(rest) = Len(tracked) - 1
        BY ONLY <4>1, <3>1, WithoutSource
      <4>3. \A i \in 1 .. Len(rest) : /\ rest[i].source # source
                                     /\ \E j \in 1 .. Len(tracked) : rest[i] = tracked[j]
        BY ONLY <4>1, <3>1, WithoutSource
      <4> QED BY <4>2, <4>3
    <3>3. Len(tracked) \in Nat /\ Len(tracked) <= MaxTracked
      BY DEF ThrottleInv, OneEach
    <3>4. Len(rest) < MaxTracked
      BY <3>2, <3>3, SignInAssumption
    <3> QED BY <3>2, <3>4
  <2>2. CASE ~(FailuresOf(source) > 0)
    <3>1. rest = Without(Room, source)
      BY <2>2
    <3> HIDE DEF rest
    <3>2. /\ OneEach(Room) /\ Len(Room) < MaxTracked
          /\ \A i \in 1 .. Len(Room) : \E j \in 1 .. Len(tracked) : Room[i] = tracked[j]
      BY RoomMade
    <3>3. /\ OneEach(rest) /\ Len(rest) <= Len(Room)
          /\ \A i \in 1 .. Len(rest) : /\ rest[i].source # source
                                       /\ \E j \in 1 .. Len(Room) : rest[i] = Room[j]
      BY <3>1, <3>2, WithoutSource
    <3>4. Len(rest) \in Nat /\ Len(Room) \in Nat
      BY <3>2, <3>3 DEF OneEach
    <3>5. Len(rest) < MaxTracked
      BY <3>2, <3>3, <3>4, SignInAssumption
    <3> QED BY <3>2, <3>3, <3>5
  <2> QED BY <2>1, <2>2
<1>13. /\ fresh \in Entries /\ fresh.source = source
       /\ fresh.count + Cardinality(Trying(source)') <= TriesLimit
  <2>1. fresh.count = FailuresOf(source) + 1 /\ fresh.source = source
    OBVIOUS
  <2>2. fresh \in Entries
    BY <1>2, <1>11 DEF Entries
  <2> HIDE DEF fresh
  <2>3. CASE FailuresOf(source) > 0
    <3>1. PICK j \in IndexOf(tracked, source) : FailuresOf(source) = tracked[j].count
      BY <1>11, <2>3
    <3>2. j \in 1 .. Len(tracked) /\ tracked[j].source = source
      BY <3>1 DEF IndexOf, ThrottleInv, OneEach
    <3> QED BY <1>9, <2>1, <2>2, <3>1, <3>2
  <2>4. CASE FailuresOf(source) = 0
    <3>1. /\ Cardinality(Trying(source)') = Cardinality(Trying(source)) - 1
          /\ Cardinality(Trying(source)) <= Cardinality(Visits)
          /\ Cardinality(Trying(source)) \in Nat
      BY <1>8, TryingFinite
    <3> QED BY <1>7, <2>1, <2>2, <2>4, <3>1
  <2> QED BY <1>11, <2>3, <2>4
<1>14. /\ OneEach(tracked') /\ Len(tracked') <= MaxTracked
       /\ \A i \in 1 .. Len(tracked') :
             \/ \E j \in 1 .. Len(tracked) : tracked'[i] = tracked[j]
             \/ tracked'[i] = fresh
  <2>1. CASE tracked' = Without(tracked, source)
    <3>1. /\ OneEach(tracked') /\ Len(tracked') <= Len(tracked)
          /\ \A i \in 1 .. Len(tracked') : \E j \in 1 .. Len(tracked) : tracked'[i] = tracked[j]
      BY <2>1, WithoutSource DEF ThrottleInv
    <3>2. Len(tracked) \in Nat /\ Len(tracked') \in Nat /\ Len(tracked) <= MaxTracked
      BY <3>1 DEF ThrottleInv, OneEach
    <3> QED BY <3>1, <3>2, SignInAssumption
  <2>2. CASE tracked' = Counted(source)
    <3> HIDE DEF rest, fresh
    <3>1. /\ tracked' \in Seq(Entries) /\ Len(tracked') = Len(rest) + 1
          /\ \A i \in 1 .. Len(rest) : tracked'[i] = rest[i]
          /\ tracked'[Len(rest) + 1] = fresh
      BY <1>10, <1>12, <1>13, <2>2, AppendProperties DEF OneEach
    <3>2. Len(rest) \in Nat
      BY <1>12 DEF OneEach
    <3>3. \A i \in 1 .. Len(tracked') : i \in 1 .. Len(rest) \/ i = Len(rest) + 1
      BY <3>1, <3>2
    <3>4. ASSUME NEW i \in 1 .. Len(tracked'), NEW j \in 1 .. Len(tracked'),
                 tracked'[i].source = tracked'[j].source
          PROVE  i = j
      <4>1. CASE i \in 1 .. Len(rest) /\ j \in 1 .. Len(rest)
        BY <1>12, <3>1, <3>4, <4>1 DEF OneEach
      <4>2. CASE i \in 1 .. Len(rest) /\ j = Len(rest) + 1
        BY <1>12, <1>13, <3>1, <3>4, <4>2
      <4>3. CASE i = Len(rest) + 1 /\ j \in 1 .. Len(rest)
        BY <1>12, <1>13, <3>1, <3>4, <4>3
      <4> QED BY <3>3, <4>1, <4>2, <4>3
    <3>5. Len(tracked') <= MaxTracked
      BY <1>12, <3>1, <3>2, SignInAssumption
    <3> QED BY <1>12, <3>1, <3>3, <3>4, <3>5 DEF OneEach
  <2> QED BY <1>1, <2>1, <2>2
<1>15. ASSUME NEW i \in 1 .. Len(tracked'), NEW e, e = tracked'[i]
       PROVE  e.count + Cardinality(Trying(e.source)') <= TriesLimit
  <2> HIDE DEF fresh
  <2> QED BY <1>9, <1>13, <1>14, <1>15
<1>16. NoneOverspent'
  BY <1>15 DEF NoneOverspent, Spent, TriesLimit
<1> QED BY <1>3, <1>5, <1>14, <1>16 DEF ThrottleInv

LEMMA WindowKeepsThrottle ==
    ASSUME ThrottleInv, WindowEnds
    PROVE  ThrottleInv'
<1> DEFINE Over(k) == tracked' = [tracked EXCEPT ![k].live = FALSE]
<1>1. PICK k \in 1 .. Len(tracked) : Over(k)
  <2>1. DOMAIN tracked = 1 .. Len(tracked)
    BY DEF ThrottleInv, OneEach
  <2>2. \E k \in DOMAIN tracked : Over(k)
    BY Zenon DEF WindowEnds
  <2> HIDE DEF Over
  <2> QED BY <2>1, <2>2
<1>2. UNCHANGED visit
  BY DEF WindowEnds
<1> DEFINE over == [tracked[k] EXCEPT !.live = FALSE]
<1>3. over \in Entries /\ over.source = tracked[k].source /\ over.count = tracked[k].count
  <2>1. tracked[k] \in Entries
    BY DEF ThrottleInv, OneEach
  <2> QED BY <2>1 DEF Entries
<1>4. tracked' = [tracked EXCEPT ![k] = over]
  BY <1>1
<1> HIDE DEF over
<1>5. /\ tracked' \in Seq(Entries) /\ Len(tracked') = Len(tracked)
      /\ \A i \in 1 .. Len(tracked) : tracked'[i] = IF i = k THEN over ELSE tracked[i]
  BY <1>3, <1>4, ExceptSeq DEF ThrottleInv, OneEach
<1>6. \A i \in 1 .. Len(tracked) :
         tracked'[i].source = tracked[i].source /\ tracked'[i].count = tracked[i].count
  BY <1>3, <1>5
<1>7. OneEach(tracked') /\ Len(tracked') <= MaxTracked
  BY <1>5, <1>6 DEF ThrottleInv, OneEach
<1>8. VisitFcn' /\ FromASource' /\ \A s : Trying(s)' = Trying(s)
  BY <1>2 DEF ThrottleInv, VisitFcn, FromASource, Trying
<1>9. ASSUME NEW i \in 1 .. Len(tracked'), NEW e, e = tracked'[i]
      PROVE  e.count + Cardinality(Trying(e.source)') <= TriesLimit
  <2>1. PICK f : f = tracked[i] /\ e.source = f.source /\ e.count = f.count
    BY <1>5, <1>6, <1>9
  <2>2. f.count + Cardinality(Trying(f.source)) <= TriesLimit
    BY <1>5, <2>1, EntrySpent
  <2>3. Trying(f.source)' = Trying(f.source)
    BY <1>8
  <2> QED BY <2>1, <2>2, <2>3
<1>10. NoneOverspent'
  BY <1>9 DEF NoneOverspent, Spent, TriesLimit
<1> QED BY <1>7, <1>8, <1>10 DEF ThrottleInv

LEMMA ThrottleStepKeeps == ThrottleInv /\ [SignInNext]_signInVars => ThrottleInv'
<1> SUFFICES ASSUME ThrottleInv, [SignInNext]_signInVars
             PROVE  ThrottleInv'
  OBVIOUS
<1> DEFINE Attempts(r) == r.pc = "checking" /\ r.door \in {"login", "basic"}
<1>1. ASSUME NEW v \in Visits, NEW new, visit' = [visit EXCEPT ![v] = new],
             ~Attempts(new), ~Attempts(visit[v]), UNCHANGED tracked
      PROVE  ThrottleInv'
  <2>1. VisitFcn' /\ visit'[v] = new /\ \A w \in Visits : w # v => visit'[w] = visit[w]
    BY <1>1 DEF ThrottleInv, VisitFcn
  <2> QED BY <1>1, <2>1, TryingElsewhere
<1>2. CASE UNCHANGED <<visit, tracked>>
  <2>1. VisitFcn' /\ FromASource'
    BY <1>2 DEF ThrottleInv, VisitFcn, FromASource
  <2>2. \A source : Trying(source)' = Trying(source)
    BY <1>2 DEF Trying
  <2> QED BY <1>2, <2>1, <2>2, SameTrying
<1>3. ~Attempts(NoSignIn)
  BY DEF NoSignIn
<1>4. ASSUME NEW v \in Visits, StartSetup(v)
      PROVE  ThrottleInv'
  <2> DEFINE new == [NoSignIn EXCEPT !.pc = "hashing", !.door = "setup"]
  <2>1. ~Attempts(new)
    BY DEF NoSignIn
  <2>2. UNCHANGED tracked /\ (UNCHANGED visit \/ visit' = [visit EXCEPT ![v] = new])
    BY <1>4 DEF StartSetup
  <2>3. ~Attempts(visit[v])
    BY <1>4 DEF StartSetup
  <2> HIDE DEF new, Attempts
  <2> QED BY <1>1, <1>2, <2>1, <2>2, <2>3
<1>5. ASSUME NEW v \in Visits, CreateAdmin(v) \/ ForgetAll(v)
      PROVE  ThrottleInv'
  <2>1. ~Attempts(visit[v]) /\ visit' = [visit EXCEPT ![v] = NoSignIn] /\ UNCHANGED tracked
    BY <1>5 DEF CreateAdmin, ForgetAll, Leave
  <2> HIDE DEF Attempts
  <2> QED BY <1>1, <1>3, <2>1
<1>6. ASSUME NEW v \in Visits, StartPasswordChange(v)
      PROVE  ThrottleInv'
  <2>1. PICK given : visit' = [visit EXCEPT ![v] = [pc |-> "checking", door |-> "password",
                                  source |-> "none", given |-> given, loaded |-> account]]
    BY <1>6 DEF StartPasswordChange
  <2> DEFINE new == [pc |-> "checking", door |-> "password", source |-> "none",
                     given |-> given, loaded |-> account]
  <2>2. ~Attempts(new) /\ ~Attempts(visit[v]) /\ UNCHANGED tracked
    BY <1>6 DEF StartPasswordChange
  <2> HIDE DEF new, Attempts
  <2>3. visit' = [visit EXCEPT ![v] = new]
    BY <2>1 DEF new
  <2> QED BY <1>1, <2>2, <2>3
<1>7. ASSUME NEW v \in Visits, CurrentChecked(v)
      PROVE  ThrottleInv'
  <2> DEFINE new == [visit[v] EXCEPT !.pc = "commit"]
  <2>1. /\ visit' = [visit EXCEPT ![v] = new] \/ visit' = [visit EXCEPT ![v] = NoSignIn]
        /\ UNCHANGED tracked
    BY <1>7 DEF CurrentChecked, Leave
  <2>2. ~Attempts(visit[v])
    BY <1>7 DEF CurrentChecked
  <2>3. new.pc # "checking"
    <3>1. new.pc = "commit" \/ new.pc = visit[v].pc
      OBVIOUS
    <3>2. CASE new.pc = "commit"
      BY <3>2
    <3> QED BY <3>1, <3>2
  <2> HIDE DEF new, Attempts
  <2>4. ~Attempts(new)
    BY <2>3 DEF Attempts
  <2> QED BY <1>1, <1>3, <2>1, <2>2, <2>4
<1>8. ASSUME NEW v \in Visits, CommitPassword(v)
      PROVE  ThrottleInv'
  <2> DEFINE new == [visit[v] EXCEPT !.pc = "forget"]
  <2>1. visit' = [visit EXCEPT ![v] = new] /\ UNCHANGED tracked
    BY <1>8 DEF CommitPassword
  <2>2. ~Attempts(visit[v])
    BY <1>8 DEF CommitPassword
  <2>3. new.pc # "checking"
    OBVIOUS
  <2> HIDE DEF new, Attempts
  <2>4. ~Attempts(new)
    BY <2>3 DEF Attempts
  <2> QED BY <1>1, <2>1, <2>2, <2>4
<1>9. CASE RememberedExpires \/ UNCHANGED signInVars
  BY <1>2, <1>9 DEF RememberedExpires, signInVars
<1> HIDE DEF Attempts
<1> QED BY <1>4, <1>5, <1>6, <1>7, <1>8, <1>9, ArriveKeepsThrottle, CheckedKeepsThrottle,
           WindowKeepsThrottle DEF SignInNext

(***************************************************************************)
(* What a source has really failed.  Its entry counts the failures since   *)
(* the entry was made; each time the full table drops an entry that still  *)
(* counts, as many as one entry can ever have are no longer counted.       *)
(***************************************************************************)

\* FailuresOf, of any entries.
FailuresIn(entries, source) ==
    IF \E i \in IndexOf(entries, source) : entries[i].live
    THEN entries[CHOOSE i \in IndexOf(entries, source) : TRUE].count ELSE 0

LEMMA CountedIn == \A source : FailuresOf(source) = FailuresIn(tracked, source)
BY DEF FailuresOf, FailuresIn

LEMMA FailuresThere ==
    ASSUME NEW entries, OneEach(entries), NEW j \in 1 .. Len(entries),
           NEW e, e = entries[j]
    PROVE  FailuresIn(entries, e.source) = IF e.live THEN e.count ELSE 0
<1>1. j \in IndexOf(entries, e.source)
  BY DEF OneEach, IndexOf
<1>2. \A i \in IndexOf(entries, e.source) : i = j
  BY DEF OneEach, IndexOf
<1>3. (CHOOSE i \in IndexOf(entries, e.source) : TRUE) = j
  BY <1>1, <1>2
<1>4. (\E i \in IndexOf(entries, e.source) : entries[i].live) <=> e.live
  BY <1>1, <1>2
<1> QED BY <1>3, <1>4, Zenon DEF FailuresIn

LEMMA NoneThere ==
    ASSUME NEW entries, NEW source, IndexOf(entries, source) = {}
    PROVE  FailuresIn(entries, source) = 0
BY DEF FailuresIn

LEMMA FailuresAreCounted ==
    ASSUME NEW entries, OneEach(entries), NEW source
    PROVE  FailuresIn(entries, source) \in Nat
<1>1. CASE IndexOf(entries, source) = {}
  BY <1>1, NoneThere
<1>2. CASE IndexOf(entries, source) # {}
  <2>1. PICK j \in IndexOf(entries, source) : TRUE
    BY <1>2
  <2>2. PICK e : e = entries[j]
    OBVIOUS
  <2>3. j \in 1 .. Len(entries) /\ e.source = source
    BY <2>1, <2>2 DEF IndexOf, OneEach
  <2>4. e.count \in Nat
    BY <2>2, <2>3, EntriesTyped
  <2>5. FailuresIn(entries, e.source) = IF e.live THEN e.count ELSE 0
    BY <2>2, <2>3, FailuresThere
  <2> QED BY <2>3, <2>4, <2>5
<1> QED BY <1>1, <1>2

\* An entry that stays counts what it counted.
LEMMA EntryStays ==
    ASSUME NEW entries, OneEach(entries), NEW others, OneEach(others),
           NEW j \in 1 .. Len(entries), NEW i \in 1 .. Len(others), entries[j] = others[i],
           NEW source, entries[j].source = source
    PROVE  FailuresIn(entries, source) = FailuresIn(others, source)
<1>1. PICK e : e = entries[j]
  OBVIOUS
<1>2. e = others[i] /\ e.source = source
  BY <1>1
<1>3. FailuresIn(entries, e.source) = IF e.live THEN e.count ELSE 0
  BY <1>1, FailuresThere
<1>4. FailuresIn(others, e.source) = IF e.live THEN e.count ELSE 0
  BY <1>2, FailuresThere
<1> QED BY <1>2, <1>3, <1>4

\* The entries of the other sources stay.
LEMMA OthersStay ==
    ASSUME NEW entries, OneEach(entries), NEW source, NEW j \in 1 .. Len(entries),
           entries[j].source # source
    PROVE  \E i \in 1 .. Len(Without(entries, source)) : Without(entries, source)[i] = entries[j]
<1>1. Len(entries) \in Nat /\ DOMAIN entries = 1 .. Len(entries)
  BY DEF OneEach
<1>2. CASE IndexOf(entries, source) = {}
  BY <1>2 DEF Without
<1>3. CASE IndexOf(entries, source) # {}
  <2>1. PICK k \in IndexOf(entries, source) : Without(entries, source) = RemoveAt(entries, k)
    BY <1>3 DEF Without
  <2>2. k \in 1 .. Len(entries) /\ k # j
    BY <1>1, <2>1 DEF IndexOf
  <2>3. PICK rest : rest = RemoveAt(entries, k)
    OBVIOUS
  <2>4. /\ Len(rest) = Len(entries) - 1
        /\ \A i \in 1 .. Len(rest) : rest[i] = entries[IF i < k THEN i ELSE i + 1]
    BY <2>2, <2>3, RemovedIsOneEach
  <2>5. PICK i : i = IF j < k THEN j ELSE j - 1
    OBVIOUS
  <2>6. i \in 1 .. Len(rest) /\ (IF i < k THEN i ELSE i + 1) = j
    BY <1>1, <2>2, <2>4, <2>5
  <2> QED BY <2>1, <2>3, <2>4, <2>6
<1> QED BY <1>2, <1>3

\* Without the entry of one source the others have failed as often as before.
LEMMA OthersFailedAsBefore ==
    ASSUME NEW entries, OneEach(entries), NEW source, NEW s, s # source
    PROVE  FailuresIn(Without(entries, source), s) = FailuresIn(entries, s)
<1> PICK rest : rest = Without(entries, source)
  OBVIOUS
<1>1. /\ OneEach(rest)
      /\ \A i \in 1 .. Len(rest) : \E j \in 1 .. Len(entries) : rest[i] = entries[j]
  BY WithoutSource
<1>2. CASE IndexOf(entries, s) = {}
  <2>1. IndexOf(rest, s) = {}
    BY <1>1, <1>2 DEF IndexOf, OneEach
  <2> QED BY <1>2, <2>1, NoneThere
<1>3. CASE IndexOf(entries, s) # {}
  <2>1. PICK j \in 1 .. Len(entries) : entries[j].source = s
    BY <1>3 DEF IndexOf, OneEach
  <2>2. PICK i \in 1 .. Len(rest) : rest[i] = entries[j]
    BY <2>1, OthersStay
  <2> QED BY <1>1, <2>1, <2>2, EntryStays
<1> QED BY <1>2, <1>3

TriesTold ==
    \A s \in Sources : tried[s].wrong <= TriesLimit * tried[s].lost + FailuresOf(s)

TriedInv ==
    /\ tried \in [Sources -> [wrong : Nat, lost : Nat]]
    /\ TriesTold

LEMMA TriesLimitThere == TriesLimit \in Nat
BY TryingFinite, SignInAssumption DEF TriesLimit

LEMMA TriedInitHolds == SignInInit => TriedInv
<1> SUFFICES ASSUME SignInInit PROVE TriedInv
  OBVIOUS
<1>1. tried = [s \in Sources |-> NotTried] /\ ThrottleInv
  BY ThrottleInitHolds DEF SignInInit
<1>2. \A s : FailuresOf(s) \in Nat
  BY <1>1, FailuresOfEntry
<1> QED BY <1>1, <1>2, TriesLimitThere DEF TriedInv, TriesTold, NotTried

\* The failures of an entry are within the limit.
LEMMA FailuresWithin ==
    ASSUME ThrottleInv, NEW s
    PROVE  FailuresOf(s) <= TriesLimit
<1>1. CASE FailuresOf(s) = 0
  BY <1>1, TriesLimitThere
<1>2. CASE FailuresOf(s) # 0
  <2>1. PICK j \in IndexOf(tracked, s) : j \in 1 .. Len(tracked) /\ FailuresOf(s) = tracked[j].count
    BY <1>2, FailuresOfEntry
  <2>2. PICK e : e = tracked[j]
    OBVIOUS
  <2>3. e.count \in Nat /\ e.count + Cardinality(Trying(e.source)) <= TriesLimit
    BY <2>1, <2>2, EntrySpent
  <2> DEFINE trying == Cardinality(Trying(e.source))
  <2>4. trying \in Nat
    BY TryingFinite
  <2> HIDE DEF trying
  <2>5. e.count <= TriesLimit
    <3>1. e.count + trying <= TriesLimit
      BY <2>3 DEF trying
    <3> QED BY <2>3, <2>4, <3>1, TriesLimitThere
  <2> QED BY <2>1, <2>2, <2>5
<1> QED BY <1>1, <1>2

\* One source has its slate cleaned, and the others have failed as often as before.
LEMMA CleanKeepsTried ==
    ASSUME ThrottleInv, ThrottleInv', TriedInv, NEW source, CleanSlate(source),
           \A s \in Sources : s # source => FailuresOf(s) <= FailuresOf(s)'
    PROVE  TriedInv'
<1>1. /\ tried' \in [Sources -> [wrong : Nat, lost : Nat]]
      /\ \A s \in Sources : s # source => tried'[s] = tried[s]
      /\ source \in Sources => tried'[source].wrong = 0 /\ tried'[source].lost = 0
  BY DEF CleanSlate, TriedInv, NotTried
<1>2. \A s : FailuresOf(s) \in Nat /\ FailuresOf(s)' \in Nat
  BY CountedIn, FailuresAreCounted DEF ThrottleInv, FailuresOf, FailuresIn
<1>3. ASSUME NEW s \in Sources
      PROVE  tried'[s].wrong <= TriesLimit * tried'[s].lost + FailuresOf(s)'
  <2>1. CASE s = source
    BY <1>1, <1>2, <2>1, TriesLimitThere
  <2>2. CASE s # source
    <3>1. tried[s].wrong <= TriesLimit * tried[s].lost + FailuresOf(s)
      BY DEF TriedInv, TriesTold
    <3>2. tried[s].wrong \in Nat /\ tried[s].lost \in Nat
      BY DEF TriedInv
    <3> PICK part : part = TriesLimit * tried[s].lost
      OBVIOUS
    <3>3. part \in Nat
      BY <3>2, TriesLimitThere
    <3>4. tried[s].wrong <= part + FailuresOf(s)'
      BY <1>2, <2>2, <3>1, <3>2, <3>3
    <3> QED BY <1>1, <2>2, <3>4
  <2> QED BY <2>1, <2>2
<1> QED BY <1>1, <1>3 DEF TriedInv, TriesTold, TriesLimit

\* Nothing is counted or forgotten.
LEMMA QuietKeepsTried ==
    ASSUME ThrottleInv, ThrottleInv', TriedInv, UNCHANGED tried,
           \A s \in Sources : FailuresOf(s) <= FailuresOf(s)'
    PROVE  TriedInv'
<1>1. \A s : FailuresOf(s) \in Nat /\ FailuresOf(s)' \in Nat
  BY CountedIn, FailuresAreCounted DEF ThrottleInv, FailuresOf, FailuresIn
<1>2. ASSUME NEW s \in Sources
      PROVE  tried[s].wrong <= TriesLimit * tried[s].lost + FailuresOf(s)'
  <2>1. tried[s].wrong <= TriesLimit * tried[s].lost + FailuresOf(s)
    BY DEF TriedInv, TriesTold
  <2>2. tried[s].wrong \in Nat /\ tried[s].lost \in Nat
    BY DEF TriedInv
  <2> PICK part : part = TriesLimit * tried[s].lost
    OBVIOUS
  <2>3. part \in Nat
    BY <2>2, TriesLimitThere
  <2> QED BY <1>1, <2>1, <2>2, <2>3
<1> QED BY <1>2 DEF TriedInv, TriesTold, TriesLimit

\* Each other source has failed as often as its entry says, or has lost it.
LEMMA OthersCounted ==
    ASSUME ThrottleInv, NEW source, tracked' = Counted(source), OneEach(tracked'),
           NEW s \in Sources, s # source
    PROVE  s \in Evicted(source) \/ FailuresOf(s) <= FailuresOf(s)'
<1> PICK kept : kept = IF FailuresOf(source) > 0 THEN tracked ELSE Room
  OBVIOUS
<1> PICK rest : rest = Without(kept, source)
  OBVIOUS
<1> PICK fresh : fresh = [source |-> source, count |-> FailuresOf(source) + 1, live |-> TRUE]
  OBVIOUS
<1>1. /\ OneEach(kept)
      /\ \A i \in 1 .. Len(kept) : \E j \in 1 .. Len(tracked) : kept[i] = tracked[j]
  BY RoomMade DEF ThrottleInv
<1>2. OneEach(rest) /\ tracked' = Append(rest, fresh)
  BY <1>1, WithoutSource DEF Counted
<1>3. FailuresOf(s) \in Nat /\ FailuresOf(s)' \in Nat
  BY CountedIn, FailuresAreCounted DEF ThrottleInv, FailuresOf, FailuresIn
<1>4. CASE FailuresOf(s) = 0
  BY <1>3, <1>4
<1>5. CASE FailuresOf(s) # 0 /\ IndexOf(kept, s) = {}
  <2>1. IndexOf(tracked, s) # {}
    BY <1>5, FailuresOfEntry
  <2>2. FailuresOf(source) \in Nat
    BY FailuresOfEntry
  <2> QED BY <1>3, <1>5, <2>1, <2>2 DEF Evicted
<1>6. CASE FailuresOf(s) # 0 /\ IndexOf(kept, s) # {}
  <2>1. PICK k \in 1 .. Len(kept) : kept[k].source = s
    BY <1>1, <1>6 DEF IndexOf, OneEach
  <2>2. PICK j \in 1 .. Len(tracked) : kept[k] = tracked[j]
    BY <1>1
  <2>3. PICK i \in 1 .. Len(rest) : rest[i] = kept[k]
    <3>1. kept[k].source # source
      BY <2>1
    <3>2. \E i \in 1 .. Len(Without(kept, source)) : Without(kept, source)[i] = kept[k]
      <4>1. OneEach(kept) /\ k \in 1 .. Len(kept)
        BY <1>1
      <4> QED BY ONLY <3>1, <4>1, OthersStay
    <3> QED BY <3>2
  <2>4. i \in 1 .. Len(tracked') /\ tracked'[i] = rest[i]
    <3> PICK S : S = Entries \union {fresh}
      OBVIOUS
    <3>1. rest \in Seq(S) /\ fresh \in S
      <4>1. rest \in Seq(Entries)
        BY <1>2 DEF OneEach
      <4>2. \A n \in 1 .. Len(rest) : rest[n] \in S
        BY <4>1
      <4>3. rest = [n \in 1 .. Len(rest) |-> rest[n]] /\ Len(rest) \in Nat
        BY <4>1
      <4> QED BY <4>2, <4>3
    <3>2. Len(tracked') = Len(rest) + 1 /\ \A n \in 1 .. Len(rest) : tracked'[n] = rest[n]
      BY <1>2, <3>1, AppendProperties
    <3>3. Len(rest) \in Nat
      BY <1>2 DEF OneEach
    <3> QED BY <3>2, <3>3
  <2>5. tracked[j] = tracked'[i] /\ tracked[j].source = s
    BY <2>1, <2>2, <2>3, <2>4
  <2>6. OneEach(tracked)
    BY DEF ThrottleInv
  <2>7. FailuresIn(tracked, s) = FailuresIn(tracked', s)
    BY <2>4, <2>5, <2>6, EntryStays
  <2> QED BY <1>3, <2>7, CountedIn DEF FailuresOf, FailuresIn
<1> QED BY <1>4, <1>5, <1>6

\* The one that failed has failed once more by its entry.
LEMMA OneMoreCounted ==
    ASSUME ThrottleInv, NEW source, tracked' = Counted(source), OneEach(tracked')
    PROVE  FailuresOf(source)' = FailuresOf(source) + 1
<1> PICK kept : kept = IF FailuresOf(source) > 0 THEN tracked ELSE Room
  OBVIOUS
<1> PICK rest : rest = Without(kept, source)
  OBVIOUS
<1> PICK fresh : fresh = [source |-> source, count |-> FailuresOf(source) + 1, live |-> TRUE]
  OBVIOUS
<1>1. OneEach(kept)
  BY RoomMade DEF ThrottleInv
<1>2. OneEach(rest) /\ tracked' = Append(rest, fresh)
  BY <1>1, WithoutSource DEF Counted
<1>3. Len(rest) + 1 \in 1 .. Len(tracked') /\ tracked'[Len(rest) + 1] = fresh
  BY <1>2 DEF OneEach
<1>4. fresh.source = source /\ fresh.count = FailuresOf(source) + 1 /\ fresh.live
  OBVIOUS
<1>5. FailuresIn(tracked', fresh.source) = IF fresh.live THEN fresh.count ELSE 0
  BY <1>3, FailuresThere
<1> QED BY <1>4, <1>5 DEF FailuresOf, FailuresIn

LEMMA FailedKeepsTried ==
    ASSUME ThrottleInv, ThrottleInv', TriedInv, NEW source \in Sources,
           tracked' = Counted(source), FailedOnceMore(source)
    PROVE  TriedInv'
<1>1. \A s : FailuresOf(s) \in Nat /\ FailuresOf(s)' \in Nat
  BY CountedIn, FailuresAreCounted DEF ThrottleInv, FailuresOf, FailuresIn
<1>2. \A s \in Sources :
         /\ tried[s].wrong \in Nat /\ tried[s].lost \in Nat
         /\ tried'[s] = [wrong |-> tried[s].wrong + (IF s = source THEN 1 ELSE 0),
                         lost  |-> tried[s].lost + (IF s \in Evicted(source) THEN 1 ELSE 0)]
  BY DEF FailedOnceMore, TriedInv
<1>3. tried' \in [Sources -> [wrong : Nat, lost : Nat]]
  BY <1>2 DEF FailedOnceMore
<1>4. OneEach(tracked')
  BY DEF ThrottleInv
<1>5. ASSUME NEW s \in Sources
      PROVE  tried'[s].wrong <= TriesLimit * tried'[s].lost + FailuresOf(s)'
  <2> PICK lost : lost = tried[s].lost
    OBVIOUS
  <2> PICK limit : limit = TriesLimit
    OBVIOUS
  <2>1. /\ tried[s].wrong <= limit * lost + FailuresOf(s)
        /\ lost \in Nat /\ limit \in Nat /\ FailuresOf(s) <= limit
    BY <1>2, TriesLimitThere, FailuresWithin DEF TriedInv, TriesTold
  <2> PICK part : part = limit * lost
    OBVIOUS
  <2> PICK wrong : wrong = tried[s].wrong
    OBVIOUS
  <2> PICK f : f = FailuresOf(s)
    OBVIOUS
  <2> PICK g : g = FailuresOf(s)'
    OBVIOUS
  <2>a. limit * (lost + 1) = limit * lost + limit /\ limit * lost \in Nat
    BY <2>1
  <2>2. /\ limit * (lost + 1) = part + limit /\ part \in Nat
        /\ wrong \in Nat /\ f \in Nat /\ g \in Nat
        /\ wrong <= part + f /\ f <= limit
    <3>1. limit * (lost + 1) = part + limit /\ part \in Nat
      BY <2>a
    <3>2. wrong \in Nat /\ f \in Nat /\ g \in Nat
      BY <1>1, <1>2
    <3>3. wrong <= part + f /\ f <= limit
      BY <2>1
    <3> QED BY <3>1, <3>2, <3>3
  <2>b. /\ tried'[s].wrong = wrong + (IF s = source THEN 1 ELSE 0)
        /\ tried'[s].lost = lost + (IF s \in Evicted(source) THEN 1 ELSE 0)
    <3>1. tried'[s] = [wrong |-> wrong + (IF s = source THEN 1 ELSE 0),
                       lost  |-> lost + (IF s \in Evicted(source) THEN 1 ELSE 0)]
      BY <1>2
    <3> QED BY <3>1
  <2>3. CASE s = source
    <3>1. s \notin Evicted(source)
      BY <2>3 DEF Evicted
    <3>2. tried'[s].wrong = wrong + 1 /\ tried'[s].lost = lost
      BY <2>1, <2>b, <2>3, <3>1
    <3>3. g = f + 1
      BY <1>4, <2>3, OneMoreCounted
    <3>4. wrong + 1 <= part + g
      BY <2>2, <3>3
    <3> QED BY <3>2, <3>4
  <2>4. CASE s # source /\ s \in Evicted(source)
    <3>1. tried'[s].wrong = wrong /\ tried'[s].lost = lost + 1
      BY <2>b, <2>2, <2>4
    <3>2. wrong <= (part + limit) + g
      BY <2>1, <2>2
    <3> QED BY <2>2, <3>1, <3>2
  <2>5. CASE s # source /\ s \notin Evicted(source)
    <3>1. tried'[s].wrong = wrong /\ tried'[s].lost = lost
      BY <2>b, <2>1, <2>2, <2>5
    <3>2. f <= g
      BY <1>4, <2>5, OthersCounted
    <3>3. wrong <= part + g
      BY <2>2, <3>2
    <3> QED BY <3>1, <3>3
  <2> QED BY <2>3, <2>4, <2>5
<1> QED BY <1>3, <1>5 DEF TriedInv, TriesTold, TriesLimit

LEMMA TriedStepKeeps ==
    ThrottleInv /\ ThrottleInv' /\ TriedInv /\ [SignInNext]_signInVars => TriedInv'
<1> SUFFICES ASSUME ThrottleInv, ThrottleInv', TriedInv, [SignInNext]_signInVars
             PROVE  TriedInv'
  OBVIOUS
<1>n. \A s : FailuresOf(s) \in Nat /\ FailuresOf(s)' \in Nat
  BY CountedIn, FailuresAreCounted DEF ThrottleInv, FailuresOf, FailuresIn
<1>o. OneEach(tracked) /\ OneEach(tracked')
  BY DEF ThrottleInv
<1>1. CASE UNCHANGED <<tracked, tried>>
  <2>1. \A s \in Sources : FailuresOf(s) <= FailuresOf(s)'
    BY <1>1, <1>n DEF FailuresOf
  <2> QED BY <1>1, <2>1, QuietKeepsTried
<1>w. ASSUME NEW source, tracked' = Without(tracked, source), NEW s, s # source
      PROVE  FailuresOf(s) <= FailuresOf(s)'
  <2>1. FailuresIn(Without(tracked, source), s) = FailuresIn(tracked, s)
    BY <1>o, <1>w, OthersFailedAsBefore
  <2> QED BY <1>n, <1>w, <2>1, CountedIn DEF FailuresOf, FailuresIn
<1>2. ASSUME NEW v \in Visits, Arrive(v) PROVE TriedInv'
  <2>1. PICK source \in Sources, given \in 0 .. account, door \in {"login", "basic"} :
           \/ tracked' = Without(tracked, source) /\ CleanSlate(source)
           \/ /\ tracked' = IF FailuresOf(source) = 0 THEN Without(tracked, source) ELSE tracked
              /\ UNCHANGED tried
    BY <1>2 DEF Arrive
  <2>2. CASE tracked' = Without(tracked, source) /\ CleanSlate(source)
    BY <2>2, <1>w, CleanKeepsTried
  <2>3. CASE tracked' = tracked /\ UNCHANGED tried
    BY <2>3, <1>1
  <2>4. CASE tracked' = Without(tracked, source) /\ UNCHANGED tried /\ FailuresOf(source) = 0
    <3>1. FailuresOf(source) <= FailuresOf(source)'
      BY <2>4, <1>n
    <3>2. \A s \in Sources : FailuresOf(s) <= FailuresOf(s)'
      BY <2>4, <3>1, <1>w
    <3> QED BY <2>4, <3>2, QuietKeepsTried
  <2> QED BY <2>1, <2>2, <2>3, <2>4
<1>3. ASSUME NEW v \in Visits, Checked(v) PROVE TriedInv'
  <2>1. PICK source : source = visit[v].source
    OBVIOUS
  <2>2. /\ source \in Sources
        /\ \/ tracked' = Without(tracked, source) /\ CleanSlate(source)
           \/ tracked' = Counted(source) /\ FailedOnceMore(source)
    BY <1>3, <2>1 DEF Checked, ThrottleInv, FromASource
  <2>3. CASE tracked' = Without(tracked, source) /\ CleanSlate(source)
    BY <2>3, <1>w, CleanKeepsTried
  <2>4. CASE tracked' = Counted(source) /\ FailedOnceMore(source)
    BY <2>2, <2>4, FailedKeepsTried
  <2> QED BY <2>2, <2>3, <2>4
<1>4. CASE WindowEnds
  <2> DEFINE Over(k) == /\ tracked' = [tracked EXCEPT ![k].live = FALSE]
                        /\ CleanSlate(tracked[k].source)
  <2>1. PICK k \in 1 .. Len(tracked) : Over(k)
    <3>1. DOMAIN tracked = 1 .. Len(tracked)
      BY <1>o DEF OneEach
    <3>2. \E k \in DOMAIN tracked : Over(k)
      BY <1>4, Zenon DEF WindowEnds
    <3> HIDE DEF Over
    <3> QED BY <3>1, <3>2
  <2>2. \A j \in 1 .. Len(tracked) :
           j \in 1 .. Len(tracked') /\ (j # k => tracked'[j] = tracked[j])
    BY <2>1, <1>o DEF OneEach
  <2>3. ASSUME NEW s \in Sources, s # tracked[k].source
        PROVE  FailuresOf(s) <= FailuresOf(s)'
    <3>1. CASE IndexOf(tracked, s) = {}
      <4>1. FailuresOf(s) = 0
        BY <3>1, FailuresOfEntry
      <4> QED BY <4>1, <1>n
    <3>2. CASE IndexOf(tracked, s) # {}
      <4>1. PICK j \in 1 .. Len(tracked) : tracked[j].source = s
        BY <3>2, <1>o DEF IndexOf, OneEach
      <4>2. j # k
        BY <2>3, <4>1
      <4>3. tracked[j] = tracked'[j] /\ j \in 1 .. Len(tracked')
        BY <2>2, <4>2
      <4>4. FailuresIn(tracked, s) = FailuresIn(tracked', s)
        BY <1>o, <4>1, <4>3, EntryStays
      <4> QED BY <1>n, <4>4, CountedIn DEF FailuresOf, FailuresIn
    <3> QED BY <3>1, <3>2
  <2> QED BY <2>1, <2>3, CleanKeepsTried
<1>5. ASSUME NEW v \in Visits,
             \/ StartSetup(v) \/ CreateAdmin(v) \/ StartPasswordChange(v)
             \/ CurrentChecked(v) \/ CommitPassword(v) \/ ForgetAll(v)
      PROVE  TriedInv'
  BY <1>1, <1>5 DEF StartSetup, CreateAdmin, StartPasswordChange, CurrentChecked,
                    CommitPassword, ForgetAll
<1>6. CASE RememberedExpires \/ UNCHANGED signInVars
  BY <1>1, <1>6 DEF RememberedExpires, signInVars
<1> QED BY <1>2, <1>3, <1>4, <1>5, <1>6 DEF SignInNext

\* For any number of requests, sources and failures: what a source has really failed since its
\* slate was clean is within what the throttle lets through, tries under way included, taken
\* once more for each time the full table dropped its entry; and the table stays within its
\* bound (throttle.py, and api/auth.py and deps.py between the look and the count).
THEOREM TriesStayBounded == SignInSpec => []TriesBounded
<1>1. ThrottleInv /\ TriedInv => TriesBounded
  <2> SUFFICES ASSUME ThrottleInv, TriedInv, NEW s \in Sources
               PROVE  tried[s].wrong <= TriesLimit * (1 + tried[s].lost)
    BY DEF TriesBounded, TriesLimit, ThrottleInv
  <2> PICK lost : lost = tried[s].lost
    OBVIOUS
  <2> PICK limit : limit = TriesLimit
    OBVIOUS
  <2>1. /\ tried[s].wrong <= limit * lost + FailuresOf(s) /\ FailuresOf(s) <= limit
        /\ lost \in Nat /\ limit \in Nat /\ tried[s].wrong \in Nat /\ FailuresOf(s) \in Nat
    BY TriesLimitThere, FailuresWithin, FailuresOfEntry DEF TriedInv, TriesTold
  <2>2. limit * (1 + lost) = limit * lost + limit /\ limit * lost \in Nat
    BY <2>1
  <2>3. tried[s].wrong <= limit * (1 + lost)
    BY <2>1, <2>2
  <2> QED BY <2>3
<1> QED BY <1>1, ThrottleInitHolds, ThrottleStepKeeps, TriedInitHolds, TriedStepKeeps, PTL
        DEF SignInSpec

-----------------------------------------------------------------------------
(***************************************************************************)
(* SelfUpdate.  The updater's last line is wiped when it comes to its log  *)
(* and written when it ends, so the last line of the newest run means that *)
(* it is over, and a press since then has left a younger trigger.  A       *)
(* question to GitHub is paid for by the answer it brings, by whoever      *)
(* insists on it, or by an answer that went stale.                         *)
(***************************************************************************)

UpdateTyped ==
    /\ trigger \in [there : BOOLEAN, newer : BOOLEAN, waited : BOOLEAN]
    /\ updateLog \in [there : BOOLEAN, empty : BOOLEAN, marker : {"none", "ok", "failed"},
                      old : BOOLEAN, run : Nat, until : Nat]
    /\ updater \in [pc : {"rest", "starting", "truncated", "working"}, restarted : BOOLEAN]
    /\ presses \in Nat /\ attempts \in [made : Nat, heard : Nat]

\* No log is of a run that is still to come; while the updater has not come to it, it is of
\* an earlier one.
LogIsOfARun ==
    /\ updateLog.run <= attempts.made
    /\ updater.pc = "starting" => updateLog.run < attempts.made

\* The last line of the newest run stands while nobody is at work, and no press came after
\* it unless a younger trigger waits.
LastLine ==
    updateLog.marker # "none" =>
        /\ updateLog.there /\ updater.pc \in {"rest", "starting"}
        /\ updateLog.run = attempts.made =>
              updateLog.until = presses \/ (trigger.there /\ trigger.newer)

RunInv == UpdateTyped /\ LogIsOfARun /\ LastLine

LEMMA RunInitHolds == UpdateInit => RunInv
BY DEF UpdateInit, RunInv, UpdateTyped, LogIsOfARun, LastLine, NoTrigger

\* Looking for releases has nothing to do with the run.
LEMMA RunUntouched ==
    ASSUME RunInv, UNCHANGED <<trigger, updateLog, updater, presses, attempts>>
    PROVE  RunInv'
BY DEF RunInv, UpdateTyped, LogIsOfARun, LastLine

LEMMA LoggedLine ==
    ASSUME UpdateTyped, NEW empty \in BOOLEAN, NEW marker \in {"none", "ok", "failed"},
           Logged(empty, marker)
    PROVE  /\ trigger' \in [there : BOOLEAN, newer : BOOLEAN, waited : BOOLEAN]
           /\ updateLog' \in [there : BOOLEAN, empty : BOOLEAN, marker : {"none", "ok", "failed"},
                              old : BOOLEAN, run : Nat, until : Nat]
           /\ updateLog'.marker = marker /\ updateLog'.there
           /\ updateLog'.run = attempts.made /\ updateLog'.until = presses
BY DEF UpdateTyped, Logged

LEMMA RunStep == RunInv /\ [UpdateNext]_updateVars => RunInv'
<1> SUFFICES ASSUME RunInv, [UpdateNext]_updateVars
             PROVE  RunInv'
  OBVIOUS
<1>a. UpdateTyped /\ LogIsOfARun /\ LastLine
  BY DEF RunInv
<1>1. CASE UNCHANGED updateVars
  BY <1>1, RunUntouched DEF updateVars
<1>2. CASE \/ \E t \in Tabs : AskStatus(t) \/ TakeAnswer(t) \/ AnswerComes(t)
           \/ AnswerAges \/ Release
  BY <1>2, RunUntouched DEF AskStatus, TakeAnswer, AnswerComes, AnswerAges, Release
<1>3. CASE Press
  BY <1>3, <1>a DEF Press, Pressed, RunInv, UpdateTyped, LogIsOfARun, LastLine
<1>4. CASE TriggerWaits
  BY <1>4, <1>a DEF TriggerWaits, RunInv, UpdateTyped, LogIsOfARun, LastLine
<1>5. CASE PickUp
  BY <1>5, <1>a DEF PickUp, NoTrigger, RunInv, UpdateTyped, LogIsOfARun, LastLine
<1>6. CASE Truncate
  <2>1. /\ Logged(TRUE, "none") /\ UNCHANGED <<presses, attempts>>
        /\ updater' = [updater EXCEPT !.pc = "truncated"]
    BY <1>6 DEF Truncate
  <2>2. /\ updateLog'.marker = "none" /\ updateLog'.run = attempts.made
        /\ updater'.pc = "truncated"
    BY <2>1, <1>a, LoggedLine DEF UpdateTyped
  <2>3. LogIsOfARun' /\ LastLine'
    BY <2>1, <2>2, <1>a DEF UpdateTyped, LogIsOfARun, LastLine
  <2>4. UpdateTyped'
    BY <2>1, <1>a, LoggedLine DEF UpdateTyped
  <2> QED
    BY <2>3, <2>4 DEF RunInv
<1>7. CASE Output
  <2>1. /\ Logged(FALSE, "none") /\ UNCHANGED <<presses, attempts>>
        /\ updater' = [updater EXCEPT !.pc = "working"]
    BY <1>7 DEF Output
  <2>2. /\ updateLog'.marker = "none" /\ updateLog'.run = attempts.made
        /\ updater'.pc = "working"
    BY <2>1, <1>a, LoggedLine DEF UpdateTyped
  <2>3. LogIsOfARun' /\ LastLine'
    BY <2>1, <2>2, <1>a DEF UpdateTyped, LogIsOfARun, LastLine
  <2>4. UpdateTyped'
    BY <2>1, <1>a, LoggedLine DEF UpdateTyped
  <2> QED
    BY <2>3, <2>4 DEF RunInv
<1>8. CASE RestartHub
  BY <1>8, <1>a DEF RestartHub, RunInv, UpdateTyped, LogIsOfARun, LastLine
<1>9. CASE UpdaterExits
  <2>1. PICK marker \in {"ok", "failed"} : Logged(FALSE, marker)
    BY <1>9 DEF UpdaterExits
  <2>2. updater' = [updater EXCEPT !.pc = "rest"] /\ UNCHANGED <<presses, attempts>>
    BY <1>9 DEF UpdaterExits
  <2>3. /\ updateLog'.there /\ updateLog'.until = presses /\ updateLog'.run = attempts.made
        /\ updater'.pc = "rest"
    BY <2>1, <2>2, <1>a, LoggedLine DEF UpdateTyped
  <2>4. LogIsOfARun' /\ LastLine'
    BY <2>2, <2>3, <1>a DEF UpdateTyped, LogIsOfARun, LastLine
  <2>5. UpdateTyped'
    BY <2>1, <2>2, <1>a, LoggedLine DEF UpdateTyped
  <2> QED
    BY <2>4, <2>5 DEF RunInv
<1>10. CASE UpdaterKilled
  BY <1>10, <1>a DEF UpdaterKilled, RunInv, UpdateTyped, LogIsOfARun, LastLine
<1>11. CASE UpdateLogAges
  BY <1>11, <1>a DEF UpdateLogAges, RunInv, UpdateTyped, LogIsOfARun, LastLine
<1> QED
  BY <1>1, <1>2, <1>3, <1>4, <1>5, <1>6, <1>7, <1>8, <1>9, <1>10, <1>11 DEF UpdateNext

\* However often the button is pressed, before, during and after a run, wherever a run dies
\* and however the files age: if what is reported as finished is the newest run, that run is
\* over, and no press came after the last line of its log.
THEOREM OutcomeNotStale == UpdateSpec => []OutcomeNotOld
<1>1. RunInv => OutcomeNotOld
  BY DEF RunInv, UpdateTyped, LogIsOfARun, LastLine, OutcomeNotOld, ReportedFinished, Previous,
         Superseded
<1> QED
  BY <1>1, RunInitHolds, RunStep, PTL DEF UpdateSpec

\* Who insists and has not been answered.
Insisting == {t \in Tabs : tab[t].pc = "wait" /\ tab[t].force}

AnswerNear == FreshAnswer \/ \E t \in Tabs : tab[t].pc = "fetch"

AskTyped ==
    /\ tab \in [Tabs -> [pc : {"rest", "wait", "fetch"}, force : BOOLEAN]]
    /\ checks \in [made : Nat, forced : Nat, dropped : Nat]
    /\ answer = [there |-> answer.there, latest |-> answer.latest, newer |-> answer.newer,
                 error |-> answer.error, stale |-> answer.stale]
    /\ running \in Nat /\ released \in Nat

OfferTrue == answer.newer => running # 0 /\ answer.latest > running

\* Every question is paid for.
PaidFor ==
    /\ IsFiniteSet(Insisting)
    /\ checks.made + Cardinality(Insisting)
          <= checks.forced + checks.dropped + (IF AnswerNear THEN 1 ELSE 0)

AskInv == AskTyped /\ OfferTrue /\ PaidFor

LEMMA AskInitHolds == UpdateInit => AskInv
<1> SUFFICES ASSUME UpdateInit PROVE AskInv
  OBVIOUS
<1>1. AskTyped /\ OfferTrue
  BY SelfUpdateAssumption DEF UpdateInit, AskTyped, OfferTrue, NoAnswer
<1>2. Insisting = {}
  BY DEF UpdateInit, Insisting
<1> QED
  BY <1>1, <1>2, FS_EmptySet DEF UpdateInit, AskInv, PaidFor

\* One comes to insist; one no longer does.
LEMMA InsistingMore ==
    ASSUME IsFiniteSet(Insisting), NEW t, t \notin Insisting,
           Insisting' = Insisting \union {t}
    PROVE  IsFiniteSet(Insisting') /\ Cardinality(Insisting') = Cardinality(Insisting) + 1
BY FS_AddElement

LEMMA InsistingLess ==
    ASSUME IsFiniteSet(Insisting), NEW t \in Insisting, Insisting' = Insisting \ {t}
    PROVE  IsFiniteSet(Insisting') /\ Cardinality(Insisting') = Cardinality(Insisting) - 1
BY FS_RemoveElement

LEMMA AskStep == AskInv /\ [UpdateNext]_updateVars => AskInv'
<1> SUFFICES ASSUME AskInv, [UpdateNext]_updateVars
             PROVE  AskInv'
  OBVIOUS
<1>a. /\ AskTyped /\ OfferTrue /\ PaidFor
      /\ checks.made \in Nat /\ checks.forced \in Nat /\ checks.dropped \in Nat
      /\ IsFiniteSet(Insisting) /\ Cardinality(Insisting) \in Nat
  BY FS_CardinalityType DEF AskInv, AskTyped, PaidFor
<1>1. CASE UNCHANGED <<running, released, answer, tab, checks>>
  BY <1>1, <1>a DEF AskInv, AskTyped, OfferTrue, PaidFor, Insisting, AnswerNear, FreshAnswer
<1>2. ASSUME NEW t \in Tabs, AskStatus(t)
      PROVE  AskInv'
  <2>1. PICK force \in BOOLEAN :
           /\ tab' = [tab EXCEPT ![t] = [pc |-> "wait", force |-> force]]
           /\ checks' = [checks EXCEPT !.forced = @ + (IF force THEN 1 ELSE 0)]
    BY <1>2 DEF AskStatus
  <2>2. tab[t].pc = "rest" /\ UNCHANGED <<running, released, answer>>
    BY <1>2 DEF AskStatus
  <2>3. AskTyped' /\ OfferTrue'
    BY <2>1, <2>2, <1>a DEF AskTyped, OfferTrue
  <2>4. /\ checks'.made = checks.made /\ checks'.dropped = checks.dropped
        /\ checks'.forced = checks.forced + (IF force THEN 1 ELSE 0)
    BY <2>1, <1>a DEF AskTyped
  <2>5. t \notin Insisting /\ Insisting' = IF force THEN Insisting \union {t} ELSE Insisting
    BY <2>1, <2>2, <1>a DEF AskTyped, Insisting
  <2>6. AnswerNear' = AnswerNear
    BY <2>1, <2>2, <1>a DEF AskTyped, AnswerNear, FreshAnswer
  <2>7. IsFiniteSet(Insisting') /\ Cardinality(Insisting')
           = Cardinality(Insisting) + (IF force THEN 1 ELSE 0)
    BY <2>5, <1>a, InsistingMore
  <2> QED
    BY <2>3, <2>4, <2>6, <2>7, <1>a DEF AskInv, PaidFor
<1>3. ASSUME NEW t \in Tabs, TakeAnswer(t)
      PROVE  AskInv'
  <2>1. /\ tab[t].pc = "wait" /\ \A u \in Tabs : tab[u].pc # "fetch"
        /\ UNCHANGED <<running, released, answer>>
    BY <1>3 DEF TakeAnswer
  <2>2. CASE ~tab[t].force /\ FreshAnswer
    <3>1. tab' = [tab EXCEPT ![t].pc = "rest"] /\ UNCHANGED checks
      BY <2>2, <1>3 DEF TakeAnswer
    <3>2. Insisting' = Insisting /\ AnswerNear' = AnswerNear
      BY <2>1, <2>2, <3>1, <1>a DEF AskTyped, Insisting, AnswerNear, FreshAnswer
    <3>3. AskTyped' /\ OfferTrue'
      BY <2>1, <3>1, <1>a DEF AskTyped, OfferTrue
    <3> QED
      BY <3>1, <3>2, <3>3, <1>a DEF AskInv, PaidFor
  <2>3. CASE tab[t].force \/ ~FreshAnswer
    <3>1. /\ tab' = [tab EXCEPT ![t].pc = "fetch"]
          /\ checks' = [checks EXCEPT !.made = @ + 1]
      BY <2>3, <1>3, <1>a DEF TakeAnswer, AskTyped
    <3>2. AskTyped' /\ OfferTrue'
      BY <2>1, <3>1, <1>a DEF AskTyped, OfferTrue
    <3>3. /\ checks'.made = checks.made + 1
          /\ checks'.dropped = checks.dropped /\ checks'.forced = checks.forced
      BY <3>1, <1>a DEF AskTyped
    <3>4. AnswerNear' /\ (AnswerNear => FreshAnswer)
      BY <2>1, <3>1, <1>a DEF AskTyped, AnswerNear
    <3>5. CASE tab[t].force
      <4>1. t \in Insisting /\ Insisting' = Insisting \ {t}
        BY <2>1, <3>1, <3>5, <1>a DEF AskTyped, Insisting
      <4>2. IsFiniteSet(Insisting') /\ Cardinality(Insisting') = Cardinality(Insisting) - 1
        BY <4>1, <1>a, InsistingLess
      <4> QED
        BY <3>2, <3>3, <3>4, <4>2, <1>a DEF AskInv, PaidFor
    <3>6. CASE ~tab[t].force
      <4>1. Insisting' = Insisting
        BY <2>1, <3>1, <3>6, <1>a DEF AskTyped, Insisting
      <4> QED
        BY <2>3, <3>2, <3>3, <3>4, <3>6, <4>1, <1>a DEF AskInv, PaidFor
    <3> QED
      BY <3>5, <3>6
  <2> QED
    BY <2>2, <2>3, <1>a DEF AskTyped
<1>4. ASSUME NEW t \in Tabs, AnswerComes(t)
      PROVE  AskInv'
  <2>1. PICK latest \in {0, released} :
           answer' = [there |-> TRUE, latest |-> latest, newer |-> IsNewer(latest, running),
                      error |-> latest = 0, stale |-> FALSE]
    BY <1>4 DEF AnswerComes
  <2>2. /\ tab[t].pc = "fetch" /\ tab' = [tab EXCEPT ![t].pc = "rest"]
        /\ UNCHANGED <<running, released, checks>>
    BY <1>4 DEF AnswerComes
  <2>3. AskTyped' /\ OfferTrue'
    BY <2>1, <2>2, <1>a DEF AskTyped, OfferTrue, IsNewer
  <2>4. Insisting' = Insisting
    BY <2>2, <1>a DEF AskTyped, Insisting
  <2>5. AnswerNear /\ AnswerNear'
    BY <2>1, <2>2, <1>a DEF AskTyped, AnswerNear, FreshAnswer
  <2> QED
    BY <2>2, <2>3, <2>4, <2>5, <1>a DEF AskInv, PaidFor
<1>5. CASE AnswerAges
  <2>1. /\ answer' = [answer EXCEPT !.stale = TRUE] /\ UNCHANGED <<running, released, tab>>
        /\ checks' = [checks EXCEPT !.dropped = @ + 1]
    BY <1>5 DEF AnswerAges
  <2>2. AskTyped' /\ OfferTrue'
    <3>1. answer' = [there |-> answer.there, latest |-> answer.latest, newer |-> answer.newer,
                     error |-> answer.error, stale |-> TRUE]
      BY <2>1, <1>a, Zenon DEF AskTyped
    <3>2. /\ answer'.newer = answer.newer /\ answer'.latest = answer.latest
          /\ answer' = [there |-> answer'.there, latest |-> answer'.latest, newer |-> answer'.newer,
                        error |-> answer'.error, stale |-> answer'.stale]
      BY <3>1, Zenon
    <3>3. checks' \in [made : Nat, forced : Nat, dropped : Nat]
      BY <2>1, <1>a DEF AskTyped
    <3> QED
      BY <2>1, <3>2, <3>3, <1>a DEF AskTyped, OfferTrue
  <2>3. /\ checks'.made = checks.made /\ checks'.forced = checks.forced
        /\ checks'.dropped = checks.dropped + 1
    BY <2>1, <1>a DEF AskTyped
  <2>4. Insisting' = Insisting
    BY <2>1 DEF Insisting
  <2>5. Cardinality(Insisting') = Cardinality(Insisting)
    BY <2>4
  <2> QED
    BY <2>2, <2>3, <2>4, <2>5, <1>a DEF AskInv, PaidFor
<1>6. CASE Release
  BY <1>6, <1>a DEF Release, AskInv, AskTyped, OfferTrue, PaidFor, Insisting, AnswerNear, FreshAnswer
<1>7. CASE RestartHub
  <2>1. /\ answer' = NoAnswer /\ running' = released /\ UNCHANGED released
        /\ tab' = [t \in Tabs |-> [pc |-> "rest", force |-> FALSE]]
        /\ checks' = [checks EXCEPT !.dropped = @ + 1]
    BY <1>7 DEF RestartHub
  <2>2. AskTyped' /\ OfferTrue'
    BY <2>1, <1>a DEF AskTyped, OfferTrue, NoAnswer
  <2>3. /\ checks'.made = checks.made /\ checks'.forced = checks.forced
        /\ checks'.dropped = checks.dropped + 1
    BY <2>1, <1>a DEF AskTyped
  <2>4. Insisting' = {}
    BY <2>1 DEF Insisting
  <2> QED
    BY <2>2, <2>3, <2>4, <1>a, FS_EmptySet DEF AskInv, PaidFor
<1>8. CASE \/ Press \/ TriggerWaits \/ PickUp \/ Truncate \/ Output \/ UpdaterExits
           \/ UpdaterKilled \/ UpdateLogAges \/ UNCHANGED updateVars
  BY <1>1, <1>8 DEF Press, TriggerWaits, PickUp, Truncate, Output, UpdaterExits, UpdaterKilled,
                    UpdateLogAges, updateVars
<1> QED
  BY <1>2, <1>3, <1>4, <1>5, <1>6, <1>7, <1>8 DEF UpdateNext

\* For any number of pages open, however their requests, the restarts and the releases come:
\* what the hub has cached as an update is newer than what it runs, and GitHub is asked once
\* for all who ask until the answer has gone stale or somebody insists (updates.py get).
THEOREM OffersHonest == UpdateSpec => []OffersTrue
<1>1. AskInv => OffersTrue
  BY FS_CardinalityType DEF AskInv, AskTyped, OfferTrue, PaidFor, OffersTrue
<1> QED
  BY <1>1, AskInitHolds, AskStep, PTL DEF UpdateSpec

-----------------------------------------------------------------------------

(***************************************************************************)
(* NodeSession, for any number of callers, edits and losses of the node's  *)
(* sessions.  A failed request is explained by what happened while it was  *)
(* under way, so the invariant speaks of requests that have not failed     *)
(* yet: while the node limits, the cool-down runs or the password is       *)
(* wrong, each of them knows of it already, and one that sends its second  *)
(* attempt has a cookie the node accepts.                                  *)
(***************************************************************************)

Pcs == {"rest", "wait", "login", "send", "ok", "failed"}

Generations == 0 .. MaxForgets

Reasons == {"blocked", "limited", "password", "lapsed", "lapsed again"}

Requests ==
    [pc : Pcs, cookie : Nat, gen : Generations, attempt : {1, 2}, why : SUBSET Reasons, round : Nat]

SessionTypes ==
    /\ entry \in [gen : Generations, cookie : Nat, blocked : BOOLEAN]
    /\ loginLock \in [Generations -> Callers \union {NoCaller}]
    /\ call \in [Callers -> Requests]
    /\ logins \in Nat /\ lapses \in Nat

Excuse(why) == why \intersect {"password", "limited", "blocked", "lapsed again"} # {}

TroubleKnown ==
    entry.blocked \/ limited \/ ~password =>
        \A c \in Callers : Underway(c) => Excuse(call[c].why)

SecondCookie ==
    \A c \in Callers :
        At(c, "send") /\ call[c].attempt = 2 =>
            call[c].cookie \in accepted \/ Excuse(call[c].why)

FailedForCause == \A c \in Callers : At(c, "failed") => Excuse(call[c].why)

SessionInv ==
    SessionTypes /\ TroubleKnown /\ SecondCookie /\ FailedForCause /\ LockHeldByLogin

\* Two requests are told apart by nothing but their fields.
USE DEF At, Underway

LEMMA SessionInitHolds == SessionInit => SessionInv
<1> SUFFICES ASSUME SessionInit PROVE SessionInv
  OBVIOUS
<1>1. NoRequest \in Requests /\ NoRequest.pc = "rest"
  BY NodeSessionAssumption DEF NoRequest, Requests, Pcs, Reasons, Generations
<1>2. FreshEntry(0) \in [gen : Generations, cookie : Nat, blocked : BOOLEAN] /\ ~FreshEntry(0).blocked
  BY NodeSessionAssumption DEF FreshEntry, Generations
<1>3. SessionTypes
  BY <1>1, <1>2 DEF SessionInit, SessionTypes, Generations
<1>4. TroubleKnown /\ SecondCookie /\ FailedForCause
  BY <1>1 DEF SessionInit, TroubleKnown, SecondCookie, FailedForCause
<1>5. LockHeldByLogin
  BY <1>1, NodeSessionAssumption DEF SessionInit, LockHeldByLogin
<1> QED BY <1>3, <1>4, <1>5 DEF SessionInv

\* A new request knows of all the trouble there is when it begins.
LEMMA EnsureSessionKeeps ==
    ASSUME NEW c \in Callers, SessionInv, EnsureSession(c)
    PROVE  SessionInv'
<1> DEFINE why == (IF entry.blocked THEN {"blocked"} ELSE {})
                  \union (IF limited THEN {"limited"} ELSE {})
                  \union (IF ~password THEN {"password"} ELSE {})
           new == [pc |-> IF entry.cookie # 0 THEN "send" ELSE "wait",
                   cookie |-> entry.cookie, gen |-> entry.gen, attempt |-> 1,
                   why |-> why, round |-> call[c].round + 1]
<1>1. /\ call' = [call EXCEPT ![c] = new]
      /\ UNCHANGED <<entry, loginLock, accepted, limited, password, logins, lapses>>
      /\ call[c].pc \in {"rest", "ok", "failed"}
  BY DEF EnsureSession
<1>a. /\ new.pc \in {"send", "wait"} /\ new.cookie = entry.cookie /\ new.gen = entry.gen
      /\ new.attempt = 1 /\ new.why = why /\ new.round = call[c].round + 1
  OBVIOUS
<1>2. new \in Requests
  <2>1. new.pc \in Pcs /\ new.cookie \in Nat /\ new.gen \in Generations /\ new.round \in Nat
    BY <1>a DEF SessionInv, SessionTypes, Requests, Pcs
  <2>2. why \in SUBSET Reasons
    BY DEF Reasons
  <2> QED BY <1>a, <2>1, <2>2 DEF Requests
<1> HIDE DEF new
<1>3. SessionTypes'
  BY <1>1, <1>2 DEF SessionInv, SessionTypes
<1>4. call'[c] = new /\ \A d \in Callers \ {c} : call'[d] = call[d]
  BY <1>1 DEF SessionInv, SessionTypes
<1>5. entry.blocked \/ limited \/ ~password => Excuse(why)
  BY DEF Excuse
<1> HIDE DEF why
<1>6. TroubleKnown'
  BY <1>1, <1>a, <1>4, <1>5 DEF SessionInv, TroubleKnown
<1>7. SecondCookie'
  BY <1>1, <1>a, <1>4 DEF SessionInv, SecondCookie
<1>9. FailedForCause'
  BY <1>1, <1>a, <1>4 DEF SessionInv, FailedForCause
<1>8. LockHeldByLogin'
  BY <1>1, <1>a, <1>4 DEF SessionInv, LockHeldByLogin
<1> QED BY <1>3, <1>6, <1>7, <1>8, <1>9 DEF SessionInv

\* What becomes of a request's record.
LEMMA CallerMoves ==
    ASSUME NEW r \in Requests, NEW pc \in Pcs, NEW cookie \in Nat, NEW g \in Generations
    PROVE  /\ [r EXCEPT !.pc = pc] \in Requests
           /\ [r EXCEPT !.pc = pc, !.cookie = cookie] \in Requests
           /\ [r EXCEPT !.pc = pc, !.attempt = 2, !.gen = g] \in Requests
BY DEF Requests

LEMMA TakeLockKeeps ==
    ASSUME NEW c \in Callers, SessionInv, TakeLock(c)
    PROVE  SessionInv'
<1>1. /\ call[c].pc = "wait" /\ loginLock[call[c].gen] = NoCaller
      /\ UNCHANGED <<entry, accepted, limited, password, lapses>>
  BY DEF TakeLock
<1>2. CASE /\ call[c].attempt = 1 /\ entry.cookie # 0
           /\ call' = [call EXCEPT ![c].pc = "send", ![c].cookie = entry.cookie]
           /\ UNCHANGED <<loginLock, logins>>
  <2>1. SessionTypes'
    <3>1. entry.cookie \in Nat
      BY DEF SessionInv, SessionTypes
    <3>2. [call[c] EXCEPT !.pc = "send", !.cookie = entry.cookie] \in Requests
      BY <3>1, CallerMoves DEF SessionInv, SessionTypes, Pcs
    <3> QED BY <1>1, <1>2, <3>2 DEF SessionInv, SessionTypes
  <2>2. /\ \A d \in Callers : d # c => call'[d] = call[d]
        /\ call'[c].pc = "send" /\ call'[c].attempt = 1 /\ call'[c].why = call[c].why
    BY <1>1, <1>2 DEF SessionInv, SessionTypes, Requests
  <2>3. TroubleKnown'
    BY <1>1, <2>2 DEF SessionInv, TroubleKnown
  <2>4. SecondCookie' /\ FailedForCause'
    BY <1>1, <2>2 DEF SessionInv, SecondCookie, FailedForCause
  <2>5. LockHeldByLogin'
    <3>1. call[c].pc # "login" /\ call'[c].pc # "login" /\ loginLock' = loginLock
      BY <1>1, <1>2, <2>2
    <3> QED BY <2>2, <3>1 DEF SessionInv, LockHeldByLogin
  <2> QED BY <2>1, <2>3, <2>4, <2>5 DEF SessionInv
<1>3. CASE /\ entry.blocked
           /\ Ended(c, "failed")
           /\ UNCHANGED <<loginLock, logins>>
  <2>1. SessionTypes'
    BY <1>1, <1>3 DEF SessionInv, SessionTypes, Requests, Pcs, Ended
  <2>2. /\ \A d \in Callers : d # c => call'[d] = call[d]
        /\ call'[c].pc = "failed" /\ call'[c].why = call[c].why
    BY <1>1, <1>3 DEF SessionInv, SessionTypes, Requests, Ended
  <2>3. TroubleKnown'
    BY <1>1, <2>2 DEF SessionInv, TroubleKnown
  <2>4. SecondCookie' /\ FailedForCause'
    BY <1>1, <1>3, <2>2 DEF SessionInv, TroubleKnown, SecondCookie, FailedForCause
  <2>5. LockHeldByLogin'
    BY <1>1, <1>3, <2>2 DEF SessionInv, LockHeldByLogin
  <2> QED BY <2>1, <2>3, <2>4, <2>5 DEF SessionInv
<1>4. CASE /\ Going(c, "login")
           /\ loginLock' = [loginLock EXCEPT ![call[c].gen] = c]
           /\ logins' = logins + 1
  <2>1. SessionTypes'
    <3>1. [call[c] EXCEPT !.pc = "login"] \in Requests
      BY CallerMoves DEF SessionInv, SessionTypes, Pcs
    <3>2. loginLock' \in [Generations -> Callers \union {NoCaller}] /\ logins' \in Nat
      <4>1. logins' \in Nat
        BY <1>4 DEF SessionInv, SessionTypes
      <4> QED BY <1>4, <4>1 DEF SessionInv, SessionTypes
    <3> QED BY <1>1, <1>4, <3>1, <3>2 DEF SessionInv, SessionTypes, Going
  <2>2. /\ \A d \in Callers : d # c => call'[d] = call[d]
        /\ call'[c].pc = "login" /\ call'[c].why = call[c].why /\ call'[c].gen = call[c].gen
    BY <1>1, <1>4 DEF SessionInv, SessionTypes, Requests, Going
  <2>3. TroubleKnown'
    BY <1>1, <2>2 DEF SessionInv, TroubleKnown
  <2>4. SecondCookie' /\ FailedForCause'
    BY <1>1, <2>2 DEF SessionInv, SecondCookie, FailedForCause
  <2>5. LockHeldByLogin'
    BY <1>1, <1>4, <2>2, NodeSessionAssumption
    DEF SessionInv, SessionTypes, Requests, LockHeldByLogin
  <2> QED BY <2>1, <2>3, <2>4, <2>5 DEF SessionInv
<1> QED BY <1>2, <1>3, <1>4 DEF TakeLock

\* What happens to the node is noted with every request under way, and with no other.
LEMMA BlameIsShared ==
    ASSUME SessionTypes, NEW what \in {"blocked", "limited", "password"}
    PROVE  /\ Blame(what) \in [Callers -> Requests]
           /\ \A d \in Callers :
                 /\ Blame(what)[d].pc = call[d].pc
                 /\ Blame(what)[d].gen = call[d].gen
                 /\ Blame(what)[d].cookie = call[d].cookie
                 /\ Blame(what)[d].attempt = call[d].attempt
                 /\ ~Underway(d) => Blame(what)[d] = call[d]
                 /\ Underway(d) => Excuse(Blame(what)[d].why)
                 /\ Excuse(call[d].why) => Excuse(Blame(what)[d].why)
<1>1. ASSUME NEW d \in Callers
      PROVE  [call[d] EXCEPT !.why = @ \union {what}] \in Requests
  <2>1. call[d] \in Requests /\ call[d].why \union {what} \in SUBSET Reasons
    BY DEF SessionTypes, Requests, Reasons
  <2> QED BY <2>1 DEF Requests
<1>2. Blame(what) \in [Callers -> Requests]
  BY <1>1 DEF Blame, SessionTypes
<1>3. ASSUME NEW d \in Callers
      PROVE  /\ Blame(what)[d].pc = call[d].pc
             /\ Blame(what)[d].gen = call[d].gen
             /\ Blame(what)[d].cookie = call[d].cookie
             /\ Blame(what)[d].attempt = call[d].attempt
             /\ ~Underway(d) => Blame(what)[d] = call[d]
             /\ Underway(d) => Blame(what)[d].why = call[d].why \union {what}
  BY DEF Blame, SessionTypes, Requests
<1>4. \A why : Excuse(why \union {what}) /\ (Excuse(why) => Excuse(why \union {what}))
  BY DEF Excuse
<1> QED BY <1>2, <1>3, <1>4

LEMMA LoginAnsweredKeeps ==
    ASSUME NEW c \in Callers, SessionInv, LoginAnswered(c)
    PROVE  SessionInv'
<1>1. /\ call[c].pc = "login"
      /\ loginLock' = [loginLock EXCEPT ![call[c].gen] = NoCaller]
      /\ UNCHANGED <<limited, password, logins, lapses>>
  BY DEF LoginAnswered, Unlocked
<1>2. loginLock' \in [Generations -> Callers \union {NoCaller}]
  BY <1>1 DEF SessionInv, SessionTypes
<1>3. ASSUME \A d \in Callers : d # c => call'[d].pc = call[d].pc /\ call'[d].gen = call[d].gen,
             call'[c].pc # "login"
      PROVE  LockHeldByLogin'
  <2>1. call[c].gen \in Generations
    BY DEF SessionInv, SessionTypes, Requests
  <2> QED BY <1>1, <1>3, <2>1, NodeSessionAssumption DEF SessionInv, SessionTypes, LockHeldByLogin, Generations
<1>4. CASE /\ limited
           /\ entry' = [entry EXCEPT !.cookie = 0, !.blocked = TRUE]
           /\ call' = [Blame("blocked") EXCEPT ![c].pc = "failed"]
           /\ UNCHANGED accepted
  <2>1. /\ entry' \in [gen : Generations, cookie : Nat, blocked : BOOLEAN]
    BY <1>4 DEF SessionInv, SessionTypes
  <2>2. /\ Blame("blocked") \in [Callers -> Requests]
        /\ [Blame("blocked")[c] EXCEPT !.pc = "failed"] \in Requests
    <3>1. Blame("blocked") \in [Callers -> Requests] /\ entry.gen \in Generations
      BY BlameIsShared DEF SessionInv, SessionTypes
    <3>2. Blame("blocked")[c] \in Requests
      BY <3>1
    <3> QED BY <3>1, <3>2, CallerMoves DEF Pcs
  <2>3. SessionTypes'
    BY <1>1, <1>2, <1>4, <2>1, <2>2 DEF SessionInv, SessionTypes
  <2>4. /\ \A d \in Callers : d # c => call'[d] = Blame("blocked")[d]
        /\ call'[c].pc = "failed" /\ call'[c].why = Blame("blocked")[c].why
    BY <1>4, <2>2 DEF Requests
  <2>5. /\ \A d \in Callers : d # c => /\ call'[d].pc = call[d].pc
                                      /\ call'[d].gen = call[d].gen
                                      /\ call'[d].cookie = call[d].cookie
                                      /\ call'[d].attempt = call[d].attempt
        /\ \A d \in Callers : Underway(d) => Excuse(call'[d].why)
        /\ \A d \in Callers : Excuse(call[d].why) => Excuse(call'[d].why)
    BY <2>4, BlameIsShared DEF SessionInv
  <2>6. TroubleKnown' /\ SecondCookie' /\ FailedForCause'
    BY <1>1, <1>4, <2>4, <2>5 DEF SessionInv, TroubleKnown, SecondCookie, FailedForCause
  <2>7. LockHeldByLogin'
    BY <1>3, <2>4, <2>5
  <2> QED BY <2>3, <2>6, <2>7 DEF SessionInv
<1>5. CASE /\ ~limited /\ ~password
           /\ Ended(c, "failed")
           /\ UNCHANGED <<entry, accepted>>
  <2>1. SessionTypes'
    <3>1. [call[c] EXCEPT !.pc = "failed"] \in Requests
      BY CallerMoves DEF SessionInv, SessionTypes, Pcs
    <3> QED BY <1>1, <1>2, <1>5, <3>1 DEF SessionInv, SessionTypes, Ended
  <2>2. /\ \A d \in Callers : d # c => call'[d] = call[d]
        /\ call'[c].pc = "failed" /\ call'[c].why = call[c].why
    BY <1>5 DEF SessionInv, SessionTypes, Requests, Ended
  <2>3. TroubleKnown' /\ SecondCookie' /\ FailedForCause'
    BY <1>1, <1>5, <2>2 DEF SessionInv, TroubleKnown, SecondCookie, FailedForCause
  <2> QED BY <1>3, <2>1, <2>2, <2>3 DEF SessionInv
<1>6. CASE /\ ~limited /\ password
           /\ accepted' = accepted \union {logins}
           /\ entry' = [entry EXCEPT !.cookie = logins, !.blocked = FALSE]
           /\ call' = [call EXCEPT ![c].pc = "send", ![c].cookie = logins]
  <2>1. entry' \in [gen : Generations, cookie : Nat, blocked : BOOLEAN] /\ ~entry'.blocked
    BY <1>6 DEF SessionInv, SessionTypes
  <2>2. [call[c] EXCEPT !.pc = "send", !.cookie = logins] \in Requests
    BY CallerMoves DEF SessionInv, SessionTypes, Pcs
  <2>3. SessionTypes'
    BY <1>1, <1>2, <1>6, <2>1, <2>2 DEF SessionInv, SessionTypes
  <2>4. /\ \A d \in Callers : d # c => call'[d] = call[d]
        /\ call'[c].pc = "send" /\ call'[c].cookie = logins
    BY <1>6 DEF SessionInv, SessionTypes, Requests
  <2>5. TroubleKnown'
    BY <1>1, <1>6, <2>1 DEF TroubleKnown
  <2>6. SecondCookie' /\ FailedForCause'
    <3>1. /\ \A cookie : cookie \in accepted => cookie \in accepted'
          /\ call'[c].cookie \in accepted'
      BY <1>6, <2>4
    <3> QED BY <2>4, <3>1 DEF SessionInv, SecondCookie, FailedForCause
  <2> QED BY <1>3, <2>3, <2>4, <2>5, <2>6 DEF SessionInv
<1> QED BY <1>4, <1>5, <1>6 DEF LoginAnswered

LEMMA AnsweredKeeps ==
    ASSUME NEW c \in Callers, SessionInv, Answered(c)
    PROVE  SessionInv'
<1>1. /\ call[c].pc = "send" /\ UNCHANGED <<loginLock, accepted, limited, password, logins, lapses>>
  BY DEF Answered
<1>2. ASSUME \A d \in Callers : d # c => call'[d].pc = call[d].pc /\ call'[d].gen = call[d].gen,
             call'[c].pc # "login"
      PROVE  LockHeldByLogin'
  BY <1>1, <1>2 DEF SessionInv, LockHeldByLogin
<1>3. CASE /\ limited
           /\ entry' = [entry EXCEPT !.cookie = 0, !.blocked = TRUE]
           /\ call' = [Blame("blocked") EXCEPT ![c].pc = "failed"]
  <2>1. /\ entry' \in [gen : Generations, cookie : Nat, blocked : BOOLEAN]
    BY <1>3 DEF SessionInv, SessionTypes
  <2>2. /\ Blame("blocked") \in [Callers -> Requests]
        /\ [Blame("blocked")[c] EXCEPT !.pc = "failed"] \in Requests
    <3>1. Blame("blocked") \in [Callers -> Requests] /\ entry.gen \in Generations
      BY BlameIsShared DEF SessionInv, SessionTypes
    <3>2. Blame("blocked")[c] \in Requests
      BY <3>1
    <3> QED BY <3>1, <3>2, CallerMoves DEF Pcs
  <2>3. SessionTypes'
    BY <1>1, <1>3, <2>1, <2>2 DEF SessionInv, SessionTypes
  <2>4. /\ \A d \in Callers : d # c => call'[d] = Blame("blocked")[d]
        /\ call'[c].pc = "failed" /\ call'[c].why = Blame("blocked")[c].why
    BY <1>3, <2>2 DEF Requests
  <2>5. /\ \A d \in Callers : d # c => /\ call'[d].pc = call[d].pc
                                      /\ call'[d].gen = call[d].gen
                                      /\ call'[d].cookie = call[d].cookie
                                      /\ call'[d].attempt = call[d].attempt
        /\ \A d \in Callers : Underway(d) => Excuse(call'[d].why)
        /\ \A d \in Callers : Excuse(call[d].why) => Excuse(call'[d].why)
    BY <2>4, BlameIsShared DEF SessionInv
  <2>6. TroubleKnown' /\ SecondCookie' /\ FailedForCause'
    BY <1>1, <2>4, <2>5 DEF SessionInv, TroubleKnown, SecondCookie, FailedForCause
  <2>7. LockHeldByLogin'
    BY <1>2, <2>4, <2>5
  <2> QED BY <2>3, <2>6, <2>7 DEF SessionInv
<1>4. CASE Ended(c, "ok") /\ UNCHANGED entry
  <2>1. [call[c] EXCEPT !.pc = "ok"] \in Requests
    BY CallerMoves DEF SessionInv, SessionTypes, Pcs
  <2>2. SessionTypes'
    BY <1>1, <1>4, <2>1 DEF SessionInv, SessionTypes, Ended
  <2>3. (\A d \in Callers : d # c => call'[d] = call[d]) /\ call'[c].pc = "ok"
    BY <1>4 DEF SessionInv, SessionTypes, Requests, Ended
  <2>4. TroubleKnown' /\ SecondCookie' /\ FailedForCause'
    BY <1>1, <1>4, <2>3 DEF SessionInv, TroubleKnown, SecondCookie, FailedForCause
  <2> QED BY <1>2, <2>2, <2>3, <2>4 DEF SessionInv
<1>5. CASE /\ entry' = [entry EXCEPT !.cookie = 0]
           /\ call' = [call EXCEPT ![c].pc = "wait", ![c].attempt = 2, ![c].gen = entry.gen]
  <2>1. entry.gen \in Generations /\ entry' \in [gen : Generations, cookie : Nat, blocked : BOOLEAN]
    BY <1>5 DEF SessionInv, SessionTypes
  <2>2. [call[c] EXCEPT !.pc = "wait", !.attempt = 2, !.gen = entry.gen] \in Requests
    BY <2>1, CallerMoves DEF SessionInv, SessionTypes, Pcs
  <2>3. SessionTypes'
    BY <1>1, <1>5, <2>1, <2>2 DEF SessionInv, SessionTypes
  <2>4. /\ \A d \in Callers : d # c => call'[d] = call[d]
        /\ call'[c].pc = "wait" /\ call'[c].why = call[c].why
    BY <1>5 DEF SessionInv, SessionTypes, Requests
  <2>5. entry'.blocked = entry.blocked
    BY <1>5 DEF SessionInv, SessionTypes
  <2>6. TroubleKnown'
    BY <1>1, <2>4, <2>5 DEF SessionInv, TroubleKnown
  <2>7. SecondCookie' /\ FailedForCause'
    BY <1>1, <2>4 DEF SessionInv, SecondCookie, FailedForCause
  <2> QED BY <1>2, <2>3, <2>4, <2>6, <2>7 DEF SessionInv
<1>6. CASE /\ call[c].cookie \notin accepted /\ ~MayRetry(c)
           /\ Ended(c, "failed") /\ UNCHANGED entry
  <2>1. [call[c] EXCEPT !.pc = "failed"] \in Requests
    BY CallerMoves DEF SessionInv, SessionTypes, Pcs
  <2>2. SessionTypes'
    BY <1>1, <1>6, <2>1 DEF SessionInv, SessionTypes, Ended
  <2>3. /\ \A d \in Callers : d # c => call'[d] = call[d]
        /\ call'[c].pc = "failed" /\ call'[c].why = call[c].why
    BY <1>6 DEF SessionInv, SessionTypes, Requests, Ended
  <2>4. call[c].attempt = 2
    BY <1>6 DEF SessionInv, SessionTypes, Requests, MayRetry
  <2>5. Excuse(call[c].why)
    BY <1>1, <1>6, <2>4 DEF SessionInv, SecondCookie
  <2>6. TroubleKnown' /\ SecondCookie' /\ FailedForCause'
    BY <1>1, <1>6, <2>3, <2>5 DEF SessionInv, TroubleKnown, SecondCookie, FailedForCause
  <2> QED BY <1>2, <2>2, <2>3, <2>6 DEF SessionInv
<1> QED BY <1>3, <1>4, <1>5, <1>6 DEF Answered

\* The node forgets its cookies: whoever sends a second time is excused.
LEMMA LapseKeeps ==
    ASSUME SessionInv, Lapse
    PROVE  SessionInv'
<1> DEFINE what(d) == IF call[d].attempt = 2 THEN "lapsed again" ELSE "lapsed"
<1>1. /\ call' = [d \in Callers |->
                    IF Underway(d) THEN [call[d] EXCEPT !.why = @ \union {what(d)}] ELSE call[d]]
      /\ accepted' = {} /\ lapses' = lapses + 1
      /\ UNCHANGED <<entry, loginLock, limited, password, logins>>
  BY DEF Lapse
<1>2. \A d \in Callers : what(d) \in Reasons /\ (call[d].attempt = 2 => what(d) = "lapsed again")
  BY DEF Reasons
<1>a. \A d \in Callers : call[d] \in Requests
  BY DEF SessionInv, SessionTypes
<1> HIDE DEF what
<1>3. \A d \in Callers : [call[d] EXCEPT !.why = @ \union {what(d)}] \in Requests
  <2> TAKE d \in Callers
  <2>1. call[d].why \union {what(d)} \in SUBSET Reasons
    BY <1>2, <1>a DEF Requests
  <2> QED BY <2>1, <1>a DEF Requests
<1>4. SessionTypes'
  <2>1. call' \in [Callers -> Requests]
    BY <1>1, <1>3, <1>a
  <2>2. lapses' \in Nat
    BY <1>1 DEF SessionInv, SessionTypes
  <2> QED BY <1>1, <2>1, <2>2 DEF SessionInv, SessionTypes
<1>5. \A d \in Callers :
         /\ call'[d].pc = call[d].pc /\ call'[d].gen = call[d].gen
         /\ call'[d].attempt = call[d].attempt
         /\ ~Underway(d) => call'[d] = call[d]
         /\ Underway(d) => call'[d].why = call[d].why \union {what(d)}
  BY <1>1, <1>a DEF Requests
<1>6. \A d \in Callers : Excuse(call[d].why) => Excuse(call'[d].why)
  BY <1>5 DEF Excuse
<1>7. TroubleKnown' /\ FailedForCause'
  BY <1>1, <1>5, <1>6 DEF SessionInv, TroubleKnown, FailedForCause
<1>8. \A why : Excuse(why \union {"lapsed again"})
  BY DEF Excuse
<1>9. SecondCookie'
  <2> SUFFICES ASSUME NEW d \in Callers, call'[d].pc = "send", call'[d].attempt = 2
               PROVE  Excuse(call'[d].why)
    BY DEF SecondCookie
  <2>1. Underway(d) /\ call[d].attempt = 2
    BY <1>5
  <2>2. what(d) = "lapsed again"
    BY <1>2, <2>1
  <2>3. call'[d].why = call[d].why \union {"lapsed again"}
    BY <1>5, <2>1, <2>2
  <2> QED BY <1>8, <2>3
<1>10. LockHeldByLogin'
  BY <1>1, <1>5 DEF SessionInv, LockHeldByLogin
<1> QED BY <1>4, <1>7, <1>9, <1>10 DEF SessionInv

\* A step that notes something with all requests and leaves their progress alone.
LEMMA BlamedKeeps ==
    ASSUME SessionInv, NEW what \in {"blocked", "limited", "password"},
           call' = Blame(what), UNCHANGED <<loginLock, accepted, logins, lapses>>,
           entry' \in [gen : Generations, cookie : Nat, blocked : BOOLEAN]
    PROVE  SessionInv'
<1>1. \A d \in Callers :
         /\ call'[d].pc = call[d].pc /\ call'[d].gen = call[d].gen
         /\ call'[d].attempt = call[d].attempt /\ call'[d].cookie = call[d].cookie
         /\ Underway(d) => Excuse(call'[d].why)
         /\ Excuse(call[d].why) => Excuse(call'[d].why)
  BY BlameIsShared DEF SessionInv
<1>2. SessionTypes'
  BY BlameIsShared DEF SessionInv, SessionTypes
<1>3. TroubleKnown' /\ SecondCookie' /\ FailedForCause'
  BY <1>1 DEF SessionInv, TroubleKnown, SecondCookie, FailedForCause
<1>4. LockHeldByLogin'
  BY <1>1 DEF SessionInv, LockHeldByLogin
<1> QED BY <1>2, <1>3, <1>4 DEF SessionInv

LEMMA SurroundingsKeep ==
    ASSUME SessionInv, Limit \/ LimitOver \/ CoolDownOver \/ Forget
    PROVE  SessionInv'
<1>1. CASE Limit
  BY <1>1, BlamedKeeps DEF Limit, SessionInv, SessionTypes
<1>2. ASSUME UNCHANGED <<call, loginLock, accepted, logins, lapses>>,
             entry' \in [gen : Generations, cookie : Nat, blocked : BOOLEAN],
             (entry.blocked \/ limited \/ ~password) \/ ~(entry.blocked \/ limited \/ ~password)'
      PROVE  SessionInv'
  BY <1>2 DEF SessionInv, SessionTypes, TroubleKnown, SecondCookie, FailedForCause, LockHeldByLogin
<1>3. CASE LimitOver
  <2>1. (entry.blocked \/ limited \/ ~password)
    BY <1>3 DEF LimitOver
  <2> QED BY <1>2, <1>3, <2>1 DEF LimitOver, SessionInv, SessionTypes
<1>4. CASE CoolDownOver
  <2>1. (entry.blocked \/ limited \/ ~password)
    BY <1>4 DEF CoolDownOver
  <2>2. entry' \in [gen : Generations, cookie : Nat, blocked : BOOLEAN]
    BY <1>4 DEF CoolDownOver, SessionInv, SessionTypes
  <2> QED BY <1>2, <1>4, <2>1, <2>2 DEF CoolDownOver
<1>5. CASE Forget
  <2>1. entry' = FreshEntry(entry.gen + 1) /\ UNCHANGED <<loginLock, accepted, limited, logins, lapses>>
    BY <1>5 DEF Forget
  <2>2. entry' \in [gen : Generations, cookie : Nat, blocked : BOOLEAN] /\ ~entry'.blocked
    BY <1>5, <2>1, NodeSessionAssumption DEF Forget, FreshEntry, SessionInv, SessionTypes, Generations
  <2>3. \/ password' = TRUE /\ call' = call
        \/ call' = Blame("password")
    BY <1>5 DEF Forget
  <2>4. CASE password' = TRUE /\ call' = call
    BY <1>2, <2>1, <2>2, <2>4 DEF SessionInv, TroubleKnown
  <2>5. CASE call' = Blame("password")
    BY <2>1, <2>2, <2>5, BlamedKeeps
  <2> QED BY <2>3, <2>4, <2>5
<1> QED BY <1>1, <1>3, <1>4, <1>5

LEMMA SessionStepKeeps == SessionInv /\ [SessionNext]_sessionVars => SessionInv'
<1> SUFFICES ASSUME SessionInv, [SessionNext]_sessionVars PROVE SessionInv'
  OBVIOUS
<1>1. ASSUME NEW c \in Callers, RequestStep(c) PROVE SessionInv'
  BY <1>1, EnsureSessionKeeps, TakeLockKeeps, LoginAnsweredKeeps, AnsweredKeeps DEF RequestStep
<1>2. CASE UNCHANGED sessionVars
  BY <1>2 DEF sessionVars, SessionInv, SessionTypes, TroubleKnown, SecondCookie, FailedForCause,
              LockHeldByLogin
<1> QED BY <1>1, <1>2, LapseKeeps, SurroundingsKeep DEF SessionNext

LEMMA SessionInvImplies == SessionInv => FailureExplained /\ LockHeldByLogin
BY DEF SessionInv, FailedForCause, FailureExplained, Excuse

\* A request with the right password fails only for what the node did while it was under
\* way, for any number of callers that clear and renew the shared cookie (_request).
THEOREM FailuresExplained == SessionSpec => []FailureExplained
<1>1. SessionInv => FailureExplained
  BY SessionInvImplies
<1> QED BY SessionInitHolds, SessionStepKeeps, <1>1, PTL DEF SessionSpec

\* The login lock belongs to the one caller that is logging in with it, whichever way the
\* login ends (session.SessionStore.lock, _login).
THEOREM LockBelongsToLogin == SessionSpec => []LockHeldByLogin
<1>1. SessionInv => LockHeldByLogin
  BY SessionInvImplies
<1> QED BY SessionInitHolds, SessionStepKeeps, <1>1, PTL DEF SessionSpec

-----------------------------------------------------------------------------
(***************************************************************************)
(* NodeCaches, for any number of pages, nodes and edits: the fan-outs      *)
(* that were started are bounded by how often their result was dropped.    *)
(* The invariant counts the one under way and the result that is held, of  *)
(* which there is never more than one in all.                              *)
(***************************************************************************)

PageFcn == page = [p \in Pages |-> page[p]]

OneCollects == \A p, q \in Pages : page[p].pc = "collect" /\ page[q].pc = "collect" => p = q

CollectsWhileMissing == SomeoneCollects => held = <<>>

FanoutsCounted ==
    /\ fanouts \in Nat /\ drops \in Nat
    /\ fanouts <= 1 + drops
    /\ ~SomeoneCollects /\ held = <<>> => fanouts <= drops

CacheInv == PageFcn /\ OneCollects /\ CollectsWhileMissing /\ FanoutsCounted

LEMMA CacheInitHolds == CacheInit => CacheInv
BY DEF CacheInit, CacheInv, PageFcn, OneCollects, CollectsWhileMissing, FanoutsCounted,
       SomeoneCollects, NoPage

\* A step that touches neither a page nor the count, and at most drops the result.
LEMMA DropKeeps ==
    ASSUME CacheInv, UNCHANGED <<page, fanouts>>, UNCHANGED <<held, drops>> \/ Drop
    PROVE  CacheInv'
<1>1. PageFcn' /\ OneCollects' /\ (SomeoneCollects' <=> SomeoneCollects)
  BY DEF CacheInv, PageFcn, OneCollects, SomeoneCollects
<1>2. CASE UNCHANGED <<held, drops>>
  BY <1>1, <1>2 DEF CacheInv, CollectsWhileMissing, FanoutsCounted
<1>3. CASE Drop
  <2>1. held' = <<>> /\ drops' = drops + (IF held = <<>> THEN 0 ELSE 1)
    BY <1>3 DEF Drop
  <2>2. CASE held = <<>>
    BY <1>1, <2>1, <2>2 DEF CacheInv, CollectsWhileMissing, FanoutsCounted
  <2>3. CASE held # <<>>
    <3>1. drops' = drops + 1
      BY <2>1, <2>3
    <3> QED BY <1>1, <2>1, <3>1 DEF CacheInv, CollectsWhileMissing, FanoutsCounted
  <2> QED BY <2>2, <2>3
<1> QED BY <1>2, <1>3

LEMMA AskKeeps ==
    ASSUME NEW p \in Pages, CacheInv, AskCached(p)
    PROVE  CacheInv'
<1>1. /\ page' = [page EXCEPT ![p] = [NoPage EXCEPT !.pc = "wait"]] /\ page[p].pc = "rest"
      /\ UNCHANGED <<held, fanouts, drops>>
  BY DEF AskCached
<1>2. /\ page'[p].pc = "wait" /\ \A q \in Pages : q # p => page'[q] = page[q]
      /\ PageFcn'
  BY <1>1 DEF CacheInv, PageFcn, NoPage
<1>3. SomeoneCollects' <=> SomeoneCollects
  BY <1>1, <1>2 DEF SomeoneCollects
<1>4. OneCollects'
  BY <1>2 DEF CacheInv, OneCollects
<1> QED BY <1>1, <1>2, <1>3, <1>4 DEF CacheInv, CollectsWhileMissing, FanoutsCounted

\* A new fan-out has the lock to itself, and finds that nothing is held.
LEMMA FanoutStartKeeps ==
    ASSUME NEW p \in Pages, CacheInv, StartFanout(p)
    PROVE  CacheInv'
<1>1. ~SomeoneCollects /\ page[p].pc = "wait" /\ UNCHANGED <<held, drops>>
  BY DEF StartFanout
<1>2. CASE Missing
  <2>1. /\ page' = [page EXCEPT ![p] = [pc |-> "collect", seen |-> table]]
        /\ fanouts' = fanouts + 1 /\ held = <<>>
    BY <1>2 DEF StartFanout, Missing
  <2>2. /\ page'[p].pc = "collect" /\ \A q \in Pages : q # p => page'[q] = page[q]
        /\ PageFcn'
    BY <2>1 DEF CacheInv, PageFcn
  <2>3. OneCollects' /\ SomeoneCollects'
    BY <1>1, <2>2 DEF OneCollects, SomeoneCollects
  <2> QED BY <1>1, <2>1, <2>2, <2>3 DEF CacheInv, CollectsWhileMissing, FanoutsCounted
<1>3. CASE ~Missing
  <2>1. page' = [page EXCEPT ![p] = NoPage] /\ fanouts' = fanouts /\ held # <<>>
    BY <1>3 DEF StartFanout, Missing
  <2>2. /\ page'[p].pc = "rest" /\ \A q \in Pages : q # p => page'[q] = page[q]
        /\ PageFcn'
    BY <2>1 DEF CacheInv, PageFcn, NoPage
  <2>3. OneCollects' /\ ~SomeoneCollects'
    BY <1>1, <2>2 DEF OneCollects, SomeoneCollects
  <2> QED BY <1>1, <2>1, <2>2, <2>3 DEF CacheInv, CollectsWhileMissing, FanoutsCounted
<1> QED BY <1>2, <1>3

LEMMA StoreKeeps ==
    ASSUME NEW p \in Pages, CacheInv, StoreFanout(p)
    PROVE  CacheInv'
<1>1. /\ page[p].pc = "collect" /\ held' = <<page[p].seen>>
      /\ page' = [page EXCEPT ![p] = NoPage] /\ UNCHANGED <<fanouts, drops>>
  BY DEF StoreFanout
<1>2. held' # <<>>
  BY <1>1
<1>3. /\ page'[p].pc = "rest" /\ \A q \in Pages : q # p => page'[q] = page[q]
      /\ PageFcn'
  BY <1>1 DEF CacheInv, PageFcn, NoPage
<1>4. OneCollects' /\ ~SomeoneCollects'
  BY <1>1, <1>3 DEF CacheInv, OneCollects, SomeoneCollects
<1> QED BY <1>1, <1>2, <1>3, <1>4 DEF CacheInv, CollectsWhileMissing, FanoutsCounted

LEMMA CacheStepKeeps == CacheInv /\ [CacheNext]_cacheVars => CacheInv'
<1> SUFFICES ASSUME CacheInv, [CacheNext]_cacheVars PROVE CacheInv'
  OBVIOUS
<1>1. ASSUME NEW p \in Pages, AskCached(p) \/ StartFanout(p) \/ StoreFanout(p) PROVE CacheInv'
  BY <1>1, AskKeeps, FanoutStartKeeps, StoreKeeps
<1>2. CASE HeldExpires
  BY <1>2, DropKeeps DEF HeldExpires
<1>3. CASE StartChange
  BY <1>3, DropKeeps DEF StartChange
<1>4. CASE CommitChange
  BY <1>4, DropKeeps DEF CommitChange
<1>5. CASE InvalidateCaches
  BY <1>5, DropKeeps DEF InvalidateCaches
<1>6. CASE StartPoll \/ NameRows \/ Remember \/ PullFails
  BY <1>6, DropKeeps DEF StartPoll, NameRows, Remember, PullFails
<1>7. ASSUME NEW i \in Rows, NamesAge(i) PROVE CacheInv'
  BY <1>7, DropKeeps DEF NamesAge
<1>8. CASE UNCHANGED cacheVars
  BY <1>8, DropKeeps DEF cacheVars
<1> QED BY <1>1, <1>2, <1>3, <1>4, <1>5, <1>6, <1>7, <1>8 DEF CacheNext

\* However many pages ask while the result is missing, one fan-out serves them, and another
\* is started only after the result was dropped (aggregate.cached_stats, filtersizes.cached).
THEOREM CallersCollapsed == CacheSpec => []Collapsed
<1>1. CacheInv => Collapsed
  BY DEF CacheInv, OneCollects, FanoutsCounted, Collapsed
<1> QED BY CacheInitHolds, CacheStepKeeps, <1>1, PTL DEF CacheSpec
=============================================================================

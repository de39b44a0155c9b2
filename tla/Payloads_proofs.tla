-------------------------- MODULE Payloads_proofs ---------------------------
(***************************************************************************)
(* Proofs about Payloads, for any rules, subscriptions and sections: that  *)
(* a push and the drift log mean the same by a difference, and that what a *)
(* push did not bring about is among what it names as failed.              *)
(*                                                                         *)
(* The second needs to know of a push that is half done what it has still  *)
(* to ask for: between its reading and its end the difference is always    *)
(* covered by the requests that are left and the failures noted so far.    *)
(***************************************************************************)
EXTENDS Payloads, SequenceTheorems, WellFoundedInduction, TLAPS

(***************************************************************************)
(* What a push writes and what the drift log reports are worked out by two *)
(* pieces of code from the same two configurations.  They are compared     *)
(* kind by kind, for every content.                                        *)
(***************************************************************************)

PayloadKinds == {"rules", "filters", "settings"}

\* Subscriptions: one request for each that differs, none for another.
LEMMA ListsAgree ==
    ASSUME wanted.kind = "filters"
    PROVE  Differences(onNode) = RequestsOf(onNode)
<1> DEFINE W == DOMAIN wanted.lists  N == DOMAIN onNode.lists
<1>1. \A op, item : Request(op, item).item = item
  BY DEF Request
<1>2. RequestsOf(onNode) = {r.item : r \in ListRequests(onNode.lists)}
  BY DEF RequestsOf
<1>3. \A r \in ListRequests(onNode.lists) :
         r.item \in (W \ N) \union {k \in W \intersect N : wanted.lists[k] # onNode.lists[k]} \union (N \ W)
  BY <1>1 DEF ListRequests
<1>4. \A l \in (W \ N) \union {k \in W \intersect N : wanted.lists[k] # onNode.lists[k]} \union (N \ W) :
         \E r \in ListRequests(onNode.lists) : r.item = l
  BY <1>1 DEF ListRequests
<1>5. Differences(onNode) =
        (W \ N) \union {k \in W \intersect N : wanted.lists[k] # onNode.lists[k]} \union (N \ W)
  BY DEF Differences
<1> QED BY <1>2, <1>3, <1>4, <1>5

\* Of a switch its truth travels.
LEMMA ToggleManaged ==
    ASSUME NEW n, Strategy(n) = "toggle", NEW data
    PROVE  Managed(n, data) = [enabled |-> Truth(data)]
BY DEF Managed

\* Of a document what travels is there under the same keys.
LEMMA DocumentManaged ==
    ASSUME NEW n, Strategy(n) = "document", NEW data, NEW to, to = Managed(n, data),
           NEW k \in DOMAIN to
    PROVE  k \in DOMAIN data /\ k \in Keys(n, data) /\ to[k] = data[k]
<1>1. to = [x \in DOMAIN data \intersect Keys(n, data) |-> data[x]]
  BY DEF Managed, Selected, Restrict
<1> QED BY <1>1

\* What is written of a switch is reported: its own value or a key that is not of the table.
LEMMA TogglesReported ==
    ASSUME NEW n, Strategy(n) = "toggle", n # "blocked_services", NEW w, DOMAIN w # {}, NEW a,
           ToWrite(n, w, a)
    PROVE  SectionDiffers(n, w, Pulled(n, a))
<1>1. Keyed(n)
  BY DEF Keyed
<1>2. a # <<>> /\ Pulled(n, a) = <<[enabled |-> Truth(a[1])]>>
  <2>1. Pulled(n, a) # <<>>
    BY DEF ToWrite, SectionDiffers
  <2> QED BY <2>1, <1>1, ToggleManaged DEF Pulled
<1>p. PICK there : there = [enabled |-> Truth(a[1])]
  OBVIOUS
<1>t. PICK to : to = [enabled |-> Truth(w)]
  OBVIOUS
<1>3. Pulled(n, a) = <<there>> /\ Managed(n, w) = to
  BY <1>2, <1>p, <1>t, ToggleManaged
<1>4. Truth(w) # Truth(a[1])
  <2>1. \E key \in DOMAIN to : key \in DOMAIN there => to[key] # there[key]
    BY <1>1, <1>3 DEF ToWrite, SectionDiffers
  <2> QED BY <2>1, <1>p, <1>t
<1>5. \A key : SelfResolved(n, key) = {}
  BY DEF SelfResolved
<1>6. \E key \in DOMAIN w : key \in DOMAIN there => w[key] # there[key]
  <2>1. CASE "enabled" \in DOMAIN w
    <3>1. \A d : Truth(d) \in {"on", "off"}
      BY DEF Truth
    <3>2. w["enabled"] \in {"on", "off"} => Truth(w) = w["enabled"]
      BY <2>1 DEF Truth
    <3>3. w["enabled"] # Truth(a[1])
      BY <3>1, <3>2, <1>4
    <3>4. there["enabled"] = Truth(a[1])
      BY <1>p
    <3> QED BY <2>1, <3>3, <3>4
  <2>2. CASE "enabled" \notin DOMAIN w
    <3>1. DOMAIN there = {"enabled"}
      BY <1>p
    <3> QED BY <2>2, <3>1
  <2> QED BY <2>1, <2>2
<1>7. <<there>> # <<>> /\ <<there>>[1] = there
  OBVIOUS
<1> QED BY <1>1, <1>3, <1>5, <1>6, <1>7 DEF SectionDiffers

\* So is what is written of a document: all its keys that travel are compared.
LEMMA DocumentsReported ==
    ASSUME NEW n, Strategy(n) = "document", NEW w, NEW a, ToWrite(n, w, a)
    PROVE  SectionDiffers(n, w, Pulled(n, a))
<1>1. Keyed(n)
  BY DEF Keyed
<1>2. PICK seen : seen = Pulled(n, a)
  OBVIOUS
<1>3. PICK to : to = Managed(n, w)
  OBVIOUS
<1>4. /\ seen # <<>>
      /\ \E key \in DOMAIN to : /\ to[key] \notin SelfResolved(n, key)
                                /\ key \in DOMAIN seen[1] => to[key] # seen[1][key]
  BY <1>1, <1>2, <1>3 DEF ToWrite, SectionDiffers
<1>5. \A key \in DOMAIN to : key \in DOMAIN w /\ to[key] = w[key]
  BY <1>3, DocumentManaged
<1>6. /\ seen # <<>>
      /\ \E key \in DOMAIN w : /\ w[key] \notin SelfResolved(n, key)
                               /\ key \in DOMAIN seen[1] => w[key] # seen[1][key]
  BY <1>4, <1>5
<1>7. SectionDiffers(n, w, seen)
  BY <1>1, <1>6 DEF SectionDiffers
<1> QED BY <1>2, <1>7

\* Clients and rewrites that are the same are asked nothing of.
LEMMA SameClients ==
    ASSUME NEW n, Strategy(n) = "clients", NEW w, NEW a, a # <<>>, w = a[1]
    PROVE  SectionRequests(n, w, a) = {}
<1>1. ~Keyed(n)
  BY DEF Keyed
<1>2. SectionRequests(n, w, a) =
          {Request("put", ClientCalled(w, m)) :
              m \in {x \in ClientNames(w) : \/ x \notin ClientNames(w)
                                           \/ ClientCalled(w, x) # ClientCalled(w, x)}}
          \union {Request("delete", x) : x \in ClientNames(w) \ ClientNames(w)}
  BY <1>1, Zenon DEF SectionRequests
<1> QED BY <1>2

LEMMA SameRewrites ==
    ASSUME NEW n, Strategy(n) = "rewrites", NEW w, NEW a, a # <<>>, w = a[1]
    PROVE  SectionRequests(n, w, a) = {}
<1>1. ~Keyed(n)
  BY DEF Keyed
<1> QED BY <1>1 DEF SectionRequests

\* What a push writes of a section is reported, and of one with keys, all that is stored of
\* which travels, what is reported is written.
LEMMA SectionAgrees ==
    ASSUME wanted.kind = "settings", NEW n \in DOMAIN wanted.sections, Implements(n),
           Strategy(n) \in {"document", "toggle", "clients", "rewrites"},
           n = "blocked_services" => Strategy(n) = "document",
           Strategy(n) = "toggle" => DOMAIN wanted.sections[n] # {}
    PROVE  /\ n \in RequestsOf(onNode) => n \in Differences(onNode)
           /\ Keyed(n) /\ Managed(n, wanted.sections[n]) = wanted.sections[n] =>
                 (n \in Differences(onNode) => n \in RequestsOf(onNode))
<1>w. PICK w : w = wanted.sections[n]
  OBVIOUS
<1>a. PICK a : a = onNode.sections[n]
  OBVIOUS
<1>0. a # <<>>
  BY <1>a DEF Implements
<1>1. n \in Differences(onNode) <=> SectionDiffers(n, w, Pulled(n, a))
  BY <1>w, <1>a DEF Differences
<1>2. n \in RequestsOf(onNode) <=> SectionRequests(n, w, a) # {}
  BY <1>w, <1>a DEF RequestsOf
<1>3. Keyed(n) => (SectionRequests(n, w, a) # {} <=> ToWrite(n, w, a))
  <2>1. Keyed(n) => SectionRequests(n, w, a) =
                       IF ToWrite(n, w, a) THEN {Request("write", n)} ELSE {}
    BY <1>0 DEF SectionRequests, Keyed
  <2> QED BY <2>1, Zenon
<1>4. CASE Keyed(n)
  <2>1. ToWrite(n, w, a) => SectionDiffers(n, w, Pulled(n, a))
    BY <1>4, <1>w, TogglesReported, DocumentsReported DEF Keyed
  <2>2. Managed(n, w) = w => (SectionDiffers(n, w, Pulled(n, a)) <=> ToWrite(n, w, a))
    BY Zenon DEF ToWrite
  <2> QED BY <1>1, <1>2, <1>3, <1>4, <1>w, <2>1, <2>2
<1>5. CASE ~Keyed(n)
  <2>1. Strategy(n) \in {"clients", "rewrites"}
    BY <1>5 DEF Keyed
  <2>2. SectionDiffers(n, w, Pulled(n, a)) <=> w # a[1]
    BY <1>5, <1>0 DEF SectionDiffers, Pulled
  <2>3. ASSUME w = a[1] PROVE SectionRequests(n, w, a) = {}
    <3>1. Strategy(n) = "clients" => SectionRequests(n, w, a) = {}
      BY <1>0, <2>3, SameClients
    <3>2. Strategy(n) = "rewrites" => SectionRequests(n, w, a) = {}
      BY <1>0, <2>3, SameRewrites
    <3> QED BY <3>1, <3>2, <2>1
  <2> QED BY <1>1, <1>2, <1>5, <2>2, <2>3
<1> QED BY <1>4, <1>5

-----------------------------------------------------------------------------
(***************************************************************************)
(* The sections and their order.                                           *)
(***************************************************************************)

SpecKinds == {"document", "toggle", "clients", "rewrites"}

\* Each section of the table has one of four strategies.
LEMMA SpecsListed ==
    /\ DOMAIN Specs = 1 .. 12
    /\ \A i \in DOMAIN Specs :
          /\ Specs[i].strategy \in SpecKinds
          /\ Specs[i].name \in {"blocked_services", "safesearch"} => Specs[i].strategy = "document"
<1>1. DOMAIN Specs = 1 .. 12
  BY DEF Specs
<1>2. \A i \in 1..12 :
          /\ Specs[i].strategy \in SpecKinds
          /\ Specs[i].name \in {"blocked_services", "safesearch"} => Specs[i].strategy = "document"
  BY DEF Specs, Section, SpecKinds
<1> QED BY <1>1, <1>2
\* So has what is called by a name of the table.
LEMMA EachStrategy ==
    ASSUME NEW n \in SectionNames
    PROVE  /\ Strategy(n) \in SpecKinds
           /\ n \in {"blocked_services", "safesearch"} => Strategy(n) = "document"
<1>1. \E s \in Range(Specs) : s.name = n
  BY DEF SectionNames
<1>2. SpecOf(n) \in Range(Specs) /\ SpecOf(n).name = n
  BY <1>1 DEF SpecOf
<1> QED BY <1>2, SpecsListed DEF Strategy, Range

\* A set of numbers has a smallest.
LEMMA SmallestThere ==
    ASSUME NEW S \in SUBSET Nat, S # {}
    PROVE  \E m \in S : \A w \in S : m <= w
<1>1. PICK m \in S : \A w \in S : ~(<<w, m>> \in OpToRel(<, Nat))
  BY WFMin, NatLessThanWellFounded
<1>2. \A w \in S : w \in Nat /\ m \in Nat
  OBVIOUS
<1>3. \A w \in S : ~(w < m)
  BY <1>1, <1>2 DEF OpToRel
<1> QED BY <1>2, <1>3

\* The first of some sections is one of them.
LEMMA FirstIsThere ==
    ASSUME NEW names \in SUBSET SectionNames, names # {}
    PROVE  FirstOf(names) \in names
<1>1. DOMAIN Specs \subseteq Nat
  BY SpecsListed
<1>2. \A n \in names : Place(n) \in Nat
  <2> SUFFICES ASSUME NEW n \in names PROVE Place(n) \in Nat
    OBVIOUS
  <2>1. \E i \in DOMAIN Specs : Specs[i].name = n
    BY DEF SectionNames, Range
  <2> QED BY <2>1, <1>1 DEF Place
<1>3. PICK m \in {Place(n) : n \in names} : \A w \in {Place(n) : n \in names} : m <= w
  <2>1. {Place(n) : n \in names} \in SUBSET Nat /\ {Place(n) : n \in names} # {}
    BY <1>2
  <2> QED BY <2>1, SmallestThere
<1> QED BY <1>3 DEF FirstOf

\* Every field is there.
Parts(p) ==
    p = [pc |-> p.pc, section |-> p.section, later |-> p.later, left |-> p.left,
         then |-> p.then, base |-> p.base, failed |-> p.failed, touched |-> p.touched]

\* After a section comes one that was still to come, or the end.
LEMMA NextSectionIs ==
    ASSUME NEW p, Parts(p), p.later \subseteq SectionNames
    PROVE  LET q == NextSection(p) IN
           /\ Parts(q) /\ q.left = p.left /\ q.then = p.then /\ q.base = p.base
           /\ q.failed = p.failed /\ q.touched = p.touched
           /\ p.later = {} => q.pc = "end" /\ q.later = {} /\ q.section = p.section
           /\ p.later # {} =>
                q.pc = "read" /\ q.section \in p.later /\ q.later = p.later \ {q.section}
<1>1. CASE p.later = {}
  BY <1>1 DEF Parts, NextSection
<1>2. CASE p.later # {}
  <2>1. FirstOf(p.later) \in p.later
    BY <1>2, FirstIsThere
  <2>2. NextSection(p) = [p EXCEPT !.pc = "read", !.section = FirstOf(p.later),
                   !.later = p.later \ {FirstOf(p.later)}]
    BY <1>2 DEF NextSection, Parts
  <2> QED BY <2>1, <2>2, <1>2 DEF Parts
<1> QED BY <1>1, <1>2


-----------------------------------------------------------------------------
(***************************************************************************)
(* Clients and rewrites: lists in which a name, or a rewrite, is there     *)
(* once.  What a push reads covers what differs, and each request that is  *)
(* carried out takes from the difference what it was for, nothing else.    *)
(***************************************************************************)

ClientItems == [name : {"a", "b"}, use : {"on", "off"}]
Items(n) == IF Strategy(n) = "clients" THEN ClientItems ELSE {"x", "y"}
Tag(n, x) == IF Strategy(n) = "clients" THEN x.name ELSE x
Once(n, d) == \A i, j \in DOMAIN d : Tag(n, d[i]) = Tag(n, d[j]) => i = j
Tags(n, d) == {Tag(n, d[i]) : i \in DOMAIN d}
ItemList(n, d) == d \in Seq(Items(n)) /\ Once(n, d)

LEMMA SeqBasics ==
    ASSUME NEW S, NEW s \in Seq(S)
    PROVE  /\ Len(s) \in Nat /\ DOMAIN s = 1 .. Len(s)
           /\ \A i \in DOMAIN s : s[i] \in S
OBVIOUS

LEMMA MaxOfOne ==
    ASSUME NEW i \in Int
    PROVE  Max({i}) = i
BY DEF Max

\* The one client of a name.
LEMMA TheClient ==
    ASSUME NEW n, Strategy(n) = "clients", NEW d, ItemList(n, d), NEW i \in DOMAIN d
    PROVE  ClientCalled(d, d[i].name) = d[i]
<1>1. i \in Int
  BY SeqBasics DEF ItemList
<1>2. {j \in DOMAIN d : d[j].name = d[i].name} = {i}
  BY DEF ItemList, Once, Tag
<1> QED BY <1>1, <1>2, MaxOfOne DEF ClientCalled

\* What is missing, and what is too much.
LEMMA NothingLeft ==
    ASSUME NEW n, NEW w, NEW h, Once(n, h),
           Range(w) \subseteq Range(h), Tags(n, h) \subseteq Tags(n, w)
    PROVE  Range(w) = Range(h)
<1> SUFFICES ASSUME NEW i \in DOMAIN h PROVE h[i] \in Range(w)
  BY DEF Range
<1>1. PICK j \in DOMAIN w : Tag(n, w[j]) = Tag(n, h[i])
  BY DEF Tags
<1>2. PICK k \in DOMAIN h : h[k] = w[j]
  BY DEF Range
<1>3. k = i
  BY <1>1, <1>2 DEF Once
<1> QED BY <1>2, <1>3 DEF Range

WriteOp(n) == IF Strategy(n) = "clients" THEN "put" ELSE "add"
Held(actual) == IF actual = <<>> THEN <<>> ELSE actual[1]
Missing(left, n) == {r.item : r \in {q \in left : q.op = WriteOp(n)}}
Spare(left) == {r.item : r \in {q \in left : q.op = "delete"}}

ListedRequests(n, w, left) ==
    \A r \in left :
       /\ r = Request(r.op, r.item)
       /\ \/ r.op = WriteOp(n) /\ r.item \in Range(w)
          \/ r.op = "delete" /\ r.item \notin Tags(n, w)

\* What is read covers what is different.
LEMMA ClientsRead ==
    ASSUME NEW n, Strategy(n) = "clients", NEW w, ItemList(n, w),
           NEW actual, ItemList(n, Held(actual))
    PROVE  LET left == SectionRequests(n, w, actual) IN
           /\ ListedRequests(n, w, left)
           /\ Range(w) \ Range(Held(actual)) \subseteq Missing(left, n)
           /\ Tags(n, Held(actual)) \ Tags(n, w) \subseteq Spare(left)
<1> DEFINE h == Held(actual)
           left == SectionRequests(n, w, actual)
           puts == {m \in ClientNames(w) : \/ m \notin ClientNames(h)
                                           \/ ClientCalled(h, m) # ClientCalled(w, m)}
<1>1. left = {Request("put", ClientCalled(w, m)) : m \in puts}
             \union {Request("delete", m) : m \in ClientNames(h) \ ClientNames(w)}
  BY DEF SectionRequests, Held, Keyed
<1>2. \A op, item : /\ Request(op, item).op = op /\ Request(op, item).item = item
                    /\ Request(op, item) = Request(Request(op, item).op, Request(op, item).item)
  BY DEF Request
<1>3. \A d : ItemList(n, d) => ClientNames(d) = Tags(n, d)
  BY DEF ClientNames, Tags, Tag, Range
<1>4. \A m \in ClientNames(w) : ClientCalled(w, m) \in Range(w)
  <2> SUFFICES ASSUME NEW m \in ClientNames(w) PROVE ClientCalled(w, m) \in Range(w)
    OBVIOUS
  <2>1. PICK i \in DOMAIN w : w[i].name = m
    BY DEF ClientNames, Range
  <2> QED BY <2>1, TheClient DEF Range
<1>5. ListedRequests(n, w, left)
  <2>1. \A m \in puts : ClientCalled(w, m) \in Range(w)
    BY <1>4
  <2>2. \A m \in ClientNames(h) \ ClientNames(w) : m \notin Tags(n, w)
    BY <1>3
  <2> HIDE DEF puts, h, left
  <2> QED BY <1>1, <1>2, <2>1, <2>2 DEF ListedRequests, WriteOp
<1>6. ASSUME NEW c \in Range(w) \ Range(h)
      PROVE  c \in Missing(left, n)
  <2>1. PICK i \in DOMAIN w : w[i] = c
    BY DEF Range
  <2>2. ClientCalled(w, c.name) = c
    BY <2>1, TheClient
  <2>3. c.name \in ClientNames(w)
    BY DEF ClientNames
  <2>4. c.name \in ClientNames(h) => ClientCalled(h, c.name) \in Range(h)
    <3> SUFFICES ASSUME c.name \in ClientNames(h)
                 PROVE  ClientCalled(h, c.name) \in Range(h)
      OBVIOUS
    <3>1. PICK j \in DOMAIN h : h[j].name = c.name
      BY DEF ClientNames, Range
    <3>2. ClientCalled(h, h[j].name) = h[j]
      BY TheClient
    <3> QED BY <3>1, <3>2 DEF Range
  <2>5. c.name \in puts
    BY <2>2, <2>3, <2>4
  <2> HIDE DEF puts, h, left
  <2>6. Request("put", c) \in left
    BY <2>2, <2>5, <1>1
  <2> QED BY <2>6, <1>2 DEF Missing, WriteOp
<1>7. ASSUME NEW t \in Tags(n, h) \ Tags(n, w)
      PROVE  t \in Spare(left)
  <2>1. t \in ClientNames(h) \ ClientNames(w)
    BY <1>3
  <2> HIDE DEF puts, h, left
  <2>2. Request("delete", t) \in left
    BY <2>1, <1>1
  <2> QED BY <2>2, <1>2 DEF Spare
<1> QED BY <1>5, <1>6, <1>7

\* The same of rewrites, and what is added is not there yet.
LEMMA RewritesRead ==
    ASSUME NEW n, Strategy(n) = "rewrites", NEW w, NEW actual
    PROVE  LET left == SectionRequests(n, w, actual) IN
           /\ ListedRequests(n, w, left)
           /\ Range(w) \ Range(Held(actual)) \subseteq Missing(left, n)
           /\ Tags(n, Held(actual)) \ Tags(n, w) \subseteq Spare(left)
           /\ \A r \in left : r.op = "add" => r.item \notin Range(Held(actual))
<1> DEFINE h == Held(actual)
           left == SectionRequests(n, w, actual)
<1>1. left = {Request("add", r) : r \in Range(w) \ Range(h)}
             \union {Request("delete", r) : r \in Range(h) \ Range(w)}
  BY DEF SectionRequests, Held, Keyed
<1>2. \A op, item : /\ Request(op, item).op = op /\ Request(op, item).item = item
                    /\ Request(op, item) = Request(Request(op, item).op, Request(op, item).item)
  BY DEF Request
<1>3. \A d : Tags(n, d) = Range(d)
  BY DEF Tags, Tag, Range
<1> HIDE DEF h, left
<1>4. ListedRequests(n, w, left)
  BY <1>1, <1>2, <1>3 DEF ListedRequests, WriteOp
<1>5. \A x \in Range(w) \ Range(h) : Request("add", x) \in left
  BY <1>1
<1>6. Range(w) \ Range(h) \subseteq Missing(left, n)
  BY <1>5, <1>2 DEF Missing, WriteOp
<1>7. \A x \in Range(h) \ Range(w) : Request("delete", x) \in left
  BY <1>1
<1>8. Tags(n, h) \ Tags(n, w) \subseteq Spare(left)
  BY <1>7, <1>2, <1>3 DEF Spare
<1>9. \A r \in left : r.op = "add" => r.item \notin Range(h)
  BY <1>1, <1>2
<1> QED BY <1>4, <1>6, <1>8, <1>9 DEF h, left

\* A client that is put replaces the one of its name, or is added.
LEMMA PutKeeps ==
    ASSUME NEW n, Strategy(n) = "clients", NEW d, ItemList(n, d),
           NEW r, r.op = "put", r.item \in Items(n)
    PROVE  LET e == WrittenSection(n, d, r) IN
           /\ ItemList(n, e) /\ r.item \in Range(e)
           /\ Tags(n, e) = Tags(n, d) \union {r.item.name}
           /\ \A x \in Range(d) : x.name # r.item.name => x \in Range(e)
<1> DEFINE c == r.item
           e == WrittenSection(n, d, r)
<1>a. Len(d) \in Nat /\ DOMAIN d = 1 .. Len(d) /\ \A i \in DOMAIN d : d[i] \in ClientItems
  BY SeqBasics DEF ItemList, Items
<1>b. c \in ClientItems
  BY DEF Items
<1>c. \A s : Tags(n, s) = {s[i].name : i \in DOMAIN s}
  BY DEF Tags, Tag
<1>d. \A i, j \in DOMAIN d : d[i].name = d[j].name => i = j
  BY DEF ItemList, Once, Tag
<1>e. \A s : s \in Seq(ClientItems) /\ (\A i, j \in DOMAIN s : s[i].name = s[j].name => i = j)
             => ItemList(n, s)
  BY DEF ItemList, Once, Tag, Items
<1>1. CASE c.name \in ClientNames(d)
  <2>1. e = [i \in 1 .. Len(d) |-> IF d[i].name = c.name THEN c ELSE d[i]]
    BY <1>1, <1>a DEF WrittenSection
  <2>2. PICK k \in DOMAIN d : d[k].name = c.name
    BY <1>1 DEF ClientNames, Range
  <2> HIDE DEF e, c
  <2>3. DOMAIN e = 1 .. Len(d) /\ \A i \in 1 .. Len(d) : e[i].name = d[i].name
    BY <2>1
  <2>4. e \in Seq(ClientItems)
    BY <2>1, <1>a, <1>b
  <2>5. e[k] = c
    BY <2>1, <2>2, <1>a
  <2>6. ItemList(n, e)
    BY <2>3, <2>4, <1>e, <1>d, <1>a
  <2>7. c \in Range(e)
    BY <2>5, <2>3, <1>a, <2>2 DEF Range
  <2>8. Tags(n, e) = Tags(n, d) \union {c.name}
    BY <2>3, <2>2, <1>a, <1>c
  <2>9. \A x \in Range(d) : x.name # c.name => x \in Range(e)
    <3> SUFFICES ASSUME NEW i \in DOMAIN d, d[i].name # c.name PROVE d[i] \in Range(e)
      BY DEF Range
    <3>1. e[i] = d[i] /\ i \in DOMAIN e
      BY <2>1, <1>a
    <3> QED BY <3>1 DEF Range
  <2> QED BY <2>6, <2>7, <2>8, <2>9 DEF e, c
<1>2. CASE c.name \notin ClientNames(d)
  <2>1. e = Append(d, c)
    BY <1>2 DEF WrittenSection, Keyed
  <2>2. \A i \in DOMAIN d : d[i].name # c.name
    BY <1>2 DEF ClientNames, Range
  <2>3. d \in Seq(ClientItems)
    BY DEF ItemList, Items
  <2> HIDE DEF e, c
  <2>4. /\ e \in Seq(ClientItems) /\ DOMAIN e = 1 .. Len(d) + 1
        /\ e[Len(d) + 1] = c /\ \A i \in 1 .. Len(d) : e[i] = d[i]
    BY <2>1, <2>3, <1>b, <1>a, AppendProperties
  <2>5. \A i, j \in DOMAIN e : e[i].name = e[j].name => i = j
    <3> SUFFICES ASSUME NEW i \in DOMAIN e, NEW j \in DOMAIN e, e[i].name = e[j].name
                 PROVE  i = j
      OBVIOUS
    <3>1. CASE i = Len(d) + 1 /\ j # Len(d) + 1
      <4>1. j \in DOMAIN d /\ e[j] = d[j]
        BY <3>1, <2>4, <1>a
      <4> QED BY <4>1, <3>1, <2>2, <2>4
    <3>2. CASE j = Len(d) + 1 /\ i # Len(d) + 1
      <4>1. i \in DOMAIN d /\ e[i] = d[i]
        BY <3>2, <2>4, <1>a
      <4> QED BY <4>1, <3>2, <2>2, <2>4
    <3>3. CASE i # Len(d) + 1 /\ j # Len(d) + 1
      <4>1. i \in DOMAIN d /\ e[i] = d[i] /\ j \in DOMAIN d /\ e[j] = d[j]
        BY <3>3, <2>4, <1>a
      <4> QED BY <4>1, <1>d
    <3> QED BY <3>1, <3>2, <3>3
  <2>6. ItemList(n, e)
    BY <2>4, <2>5, <1>e
  <2>7. Len(d) + 1 \in DOMAIN e /\ \A i \in DOMAIN d : i \in DOMAIN e /\ e[i] = d[i]
    BY <2>4, <1>a
  <2>8. \A i \in DOMAIN e : i = Len(d) + 1 \/ i \in DOMAIN d
    BY <2>4, <1>a
  <2>9. c \in Range(e) /\ \A x \in Range(d) : x \in Range(e)
    BY <2>7, <2>4 DEF Range
  <2>10. Tags(n, e) = Tags(n, d) \union {c.name}
    BY <2>7, <2>8, <2>4, <1>c
  <2> QED BY <2>6, <2>9, <2>10 DEF e, c
<1> QED BY <1>1, <1>2

\* A rewrite that is added is added.
LEMMA AddKeeps ==
    ASSUME NEW n, Strategy(n) = "rewrites", NEW d, ItemList(n, d),
           NEW r, r.op = "add", r.item \in Items(n), r.item \notin Range(d)
    PROVE  LET e == WrittenSection(n, d, r) IN
           ItemList(n, e) /\ Range(e) = Range(d) \union {r.item}
<1> DEFINE c == r.item
           e == WrittenSection(n, d, r)
<1>a. Len(d) \in Nat /\ DOMAIN d = 1 .. Len(d) /\ d \in Seq(Items(n))
  BY SeqBasics DEF ItemList
<1>d. \A i, j \in DOMAIN d : d[i] = d[j] => i = j
  BY DEF ItemList, Once, Tag
<1>1. e = Append(d, c)
  BY DEF WrittenSection, Keyed
<1>b. c \in Items(n) /\ \A i \in DOMAIN d : d[i] # c
  BY DEF Range
<1> HIDE DEF e, c
<1>4. /\ e \in Seq(Items(n)) /\ DOMAIN e = 1 .. Len(d) + 1
      /\ e[Len(d) + 1] = c /\ \A i \in 1 .. Len(d) : e[i] = d[i]
  BY <1>1, <1>b, <1>a, AppendProperties
<1>5. Len(d) + 1 \in DOMAIN e /\ \A i \in DOMAIN d : i \in DOMAIN e /\ e[i] = d[i]
  BY <1>4, <1>a
<1>6. \A i \in DOMAIN e : i = Len(d) + 1 \/ i \in DOMAIN d
  BY <1>4, <1>a
<1>7. \A i, j \in DOMAIN e : e[i] = e[j] => i = j
  BY <1>5, <1>6, <1>4, <1>b, <1>d
<1>8. Range(e) = Range(d) \union {c}
  BY <1>5, <1>6, <1>4 DEF Range
<1>9. ItemList(n, e)
  BY <1>4, <1>7 DEF ItemList, Once, Tag
<1> QED BY <1>8, <1>9 DEF e, c

\* What is deleted is gone, and nothing else.
LEMMA DeleteKeeps ==
    ASSUME NEW n, Strategy(n) \in {"clients", "rewrites"}, NEW d, ItemList(n, d),
           NEW r, r.op = "delete"
    PROVE  LET e == WrittenSection(n, d, r) IN
           /\ ItemList(n, e) /\ Range(e) \subseteq Range(d)
           /\ Tags(n, e) = Tags(n, d) \ {r.item}
           /\ \A x \in Range(d) : Tag(n, x) # r.item => x \in Range(e)
<1> DEFINE t == r.item
           e == WrittenSection(n, d, r)
           meant == {i \in DOMAIN d : t = Tag(n, d[i])}
<1>a. Len(d) \in Nat /\ DOMAIN d = 1 .. Len(d) /\ d \in Seq(Items(n))
  BY SeqBasics DEF ItemList
<1>d. \A i, j \in DOMAIN d : Tag(n, d[i]) = Tag(n, d[j]) => i = j
  BY DEF ItemList, Once
<1>1. e = IF meant = {} THEN d ELSE RemoveAt(d, Max(meant))
  <2>1. e = Dropped(n, d, t)
    BY DEF WrittenSection
  <2>2. meant = {i \in DOMAIN d : t = IF Strategy(n) = "clients" THEN d[i].name ELSE d[i]}
    BY DEF Tag
  <2> QED BY <2>1, <2>2 DEF Dropped
<1>2. CASE meant = {}
  <2>1. e = d
    BY <1>1, <1>2
  <2>2. t \notin Tags(n, d)
    BY <1>2 DEF Tags
  <2> QED BY <2>1, <2>2
<1>3. CASE meant # {}
  <2>1. PICK k \in DOMAIN d : t = Tag(n, d[k])
    BY <1>3
  <2>2. meant = {k}
    BY <2>1, <1>d
  <2>3. k \in Int /\ k \in 1 .. Len(d)
    BY <1>a
  <2>4. Max(meant) = k
    BY <2>2, <2>3, MaxOfOne
  <2>5. e = SubSeq(d, 1, k - 1) \o SubSeq(d, k + 1, Len(d))
    BY <1>1, <1>3, <2>4 DEF RemoveAt
  <2> DEFINE a == SubSeq(d, 1, k - 1)
             b == SubSeq(d, k + 1, Len(d))
  <2> HIDE DEF e, t, meant
  <2>6. /\ a \in Seq(Items(n)) /\ Len(a) = k - 1
        /\ \A i \in 1 .. k - 1 : a[i] = d[i]
    BY <2>3, <1>a, SubSeqProperties
  <2>7. /\ b \in Seq(Items(n)) /\ Len(b) = Len(d) - k
        /\ \A i \in 1 .. Len(d) - k : b[i] = d[k + i]
    BY <2>3, <1>a, SubSeqProperties
  <2> HIDE DEF a, b
  <2>8. /\ e \in Seq(Items(n)) /\ Len(e) = Len(a) + Len(b)
        /\ \A i \in 1 .. Len(a) + Len(b) : e[i] = IF i <= Len(a) THEN a[i] ELSE b[i - Len(a)]
    <3>1. e = a \o b
      BY <2>5 DEF a, b
    <3> QED BY <3>1, <2>6, <2>7, ConcatProperties
  <2>9. /\ DOMAIN e = 1 .. Len(d) - 1
        /\ \A i \in 1 .. Len(d) - 1 : e[i] = IF i < k THEN d[i] ELSE d[i + 1]
    <3>1. DOMAIN e = 1 .. Len(d) - 1
      BY <2>8, <2>6, <2>7, <2>3, <1>a, SeqBasics
    <3>2. ASSUME NEW i \in 1 .. Len(d) - 1, i < k PROVE e[i] = d[i]
      <4>1. i \in 1 .. Len(a) + Len(b) /\ i <= Len(a) /\ i \in 1 .. k - 1
        BY <3>2, <2>6, <2>7, <2>3, <1>a
      <4> QED BY <4>1, <2>8, <2>6
    <3>3. ASSUME NEW i \in 1 .. Len(d) - 1, ~(i < k) PROVE e[i] = d[i + 1]
      <4>1. i \in 1 .. Len(a) + Len(b) /\ ~(i <= Len(a)) /\ i - Len(a) = i - k + 1
        BY <3>3, <2>6, <2>7, <2>3, <1>a
      <4>2. e[i] = b[i - k + 1]
        BY <4>1, <2>8
      <4>3. i - k + 1 \in 1 .. Len(d) - k /\ k + (i - k + 1) = i + 1
        BY <3>3, <2>3, <1>a
      <4> QED BY <4>2, <4>3, <2>7
    <3> QED BY <3>1, <3>2, <3>3
  <2> DEFINE at(i) == IF i < k THEN i ELSE i + 1
  <2>10. \A i \in DOMAIN e : at(i) \in DOMAIN d \ {k} /\ e[i] = d[at(i)]
    BY <2>9, <2>3, <1>a
  <2>11. \A i, j \in DOMAIN e : at(i) = at(j) => i = j
    BY <2>9, <2>3, <1>a
  <2>12. \A j \in DOMAIN d \ {k} : \E i \in DOMAIN e : at(i) = j
    <3> SUFFICES ASSUME NEW j \in DOMAIN d \ {k} PROVE \E i \in DOMAIN e : at(i) = j
      OBVIOUS
    <3>1. CASE j < k
      <4>1. j \in DOMAIN e /\ at(j) = j
        BY <3>1, <2>9, <2>3, <1>a
      <4> QED BY <4>1
    <3>2. CASE ~(j < k)
      <4>1. j - 1 \in DOMAIN e /\ at(j - 1) = j
        BY <3>2, <2>9, <2>3, <1>a
      <4> QED BY <4>1
    <3> QED BY <3>1, <3>2
  <2> HIDE DEF at
  <2>13. Once(n, e)
    BY <2>10, <2>11, <1>d DEF Once
  <2>14. \A j \in DOMAIN d \ {k} : d[j] \in Range(e)
    BY <2>10, <2>12 DEF Range
  <2>15. Range(e) \subseteq Range(d)
    BY <2>10 DEF Range
  <2>16. \A x \in Range(d) : Tag(n, x) # t => x \in Range(e)
    BY <2>14, <2>1 DEF Range
  <2>17. \A j \in DOMAIN d \ {k} : Tag(n, d[j]) # t
    BY <2>1, <1>d
  <2>18. Tags(n, e) = Tags(n, d) \ {t}
    <3>1. \A x \in Tags(n, e) : x \in Tags(n, d) /\ x # t
      BY <2>10, <2>17 DEF Tags
    <3>2. ASSUME NEW x \in Tags(n, d), x # t PROVE x \in Tags(n, e)
      <4>1. PICK j \in DOMAIN d : x = Tag(n, d[j])
        BY <3>2 DEF Tags
      <4>2. j # k
        BY <4>1, <3>2, <2>1
      <4>3. PICK i \in DOMAIN e : at(i) = j
        BY <4>2, <2>12
      <4> QED BY <4>1, <4>3, <2>10 DEF Tags
    <3> QED BY <3>1, <3>2
  <2>19. ItemList(n, e)
    BY <2>8, <2>13 DEF ItemList
  <2> QED BY <2>15, <2>16, <2>18, <2>19 DEF e, t
<1> QED BY <1>2, <1>3

\* By hand the items are dropped or turned around.
LEMMA ReverseKeeps ==
    ASSUME NEW n, NEW d, ItemList(n, d)
    PROVE  ItemList(n, Reverse(d)) /\ Range(Reverse(d)) \subseteq Range(d)
<1> DEFINE e == Reverse(d)
<1>a. Len(d) \in Nat /\ DOMAIN d = 1 .. Len(d) /\ \A i \in DOMAIN d : d[i] \in Items(n)
  BY SeqBasics DEF ItemList
<1>1. e = [i \in 1 .. Len(d) |-> d[(Len(d) - i) + 1]]
  BY DEF Reverse
<1> HIDE DEF e
<1>2. \A i \in 1 .. Len(d) : (Len(d) - i) + 1 \in DOMAIN d /\ e[i] = d[(Len(d) - i) + 1]
  BY <1>1, <1>a
<1>3. DOMAIN e = 1 .. Len(d) /\ e \in Seq(Items(n))
  BY <1>1, <1>2, <1>a
<1>4. \A i, j \in 1 .. Len(d) : (Len(d) - i) + 1 = (Len(d) - j) + 1 => i = j
  BY <1>a
<1>5. Once(n, e)
  <2> SUFFICES ASSUME NEW i \in DOMAIN e, NEW j \in DOMAIN e, Tag(n, e[i]) = Tag(n, e[j])
               PROVE  i = j
    BY DEF Once
  <2>1. (Len(d) - i) + 1 = (Len(d) - j) + 1
    BY <1>2, <1>3 DEF ItemList, Once
  <2> QED BY <2>1, <1>4, <1>3
<1>6. Range(e) \subseteq Range(d)
  BY <1>2, <1>3 DEF Range
<1> QED BY <1>3, <1>5, <1>6 DEF e, ItemList

LEMMA EmptyItems ==
    ASSUME NEW n
    PROVE  ItemList(n, <<>>) /\ Range(<<>>) = {} /\ Tags(n, <<>>) = {}
BY DEF ItemList, Once, Range, Tags

-----------------------------------------------------------------------------
(***************************************************************************)
(* Sections, sent one after another.  While nobody touches the node, those *)
(* that were passed are settled, and the one under way lacks nothing but   *)
(* what is still to be asked of it.                                        *)
(***************************************************************************)

Working == pushing.pc \in {"read", "again", "send"}
Sending == pushing.pc \in {"again", "send"}

\* What the hub and the node may have of a section.
SectionShape(n) ==
    /\ Keyed(n) => \A k \in DOMAIN wanted.sections[n] :
          wanted.sections[n][k] \in {"Local", ""} => n = "blocked_services" /\ k = "time_zone"
    /\ Strategy(n) = "toggle" => DOMAIN wanted.sections[n] # {}
    /\ ~Keyed(n) => ItemList(n, wanted.sections[n]) /\ ItemList(n, Held(onNode.sections[n]))
    /\ onNode.sections[n] = <<>> \/ onNode.sections[n] = <<onNode.sections[n][1]>>

NodeParts(node) == node = Chosen(node.kind, node.rules, node.lists, node.sections)

SectionsOver(node, names) == node.sections = [n \in names |-> node.sections[n]]

SectionsTyped ==
    /\ DOMAIN wanted.sections \subseteq SectionNames
    /\ NodeParts(onNode)
    /\ SectionsOver(onNode, DOMAIN wanted.sections)
    /\ \A n \in DOMAIN wanted.sections : SectionShape(n)

PushShape ==
    /\ Parts(pushing)
    /\ pushing.pc \in {"rest", "read", "again", "send", "end"}
    /\ pushing.touched \in BOOLEAN
    /\ outcome = [ended |-> outcome.ended, failed |-> outcome.failed, touched |-> outcome.touched]

\* What is asked of the section that is being sent.
AskedShape(n) ==
    /\ Keyed(n) => pushing.left = {Request("write", n)}
    /\ ~Keyed(n) => ListedRequests(n, wanted.sections[n], pushing.left)
    /\ Strategy(n) = "rewrites" =>
          \A r \in pushing.left : r.op = "add" => r.item \notin Range(Held(onNode.sections[n]))

SectionShapes ==
    /\ pushing.later \subseteq DOMAIN wanted.sections
    /\ pushing.then = <<>>
    /\ Working => pushing.section \in DOMAIN wanted.sections
    /\ Sending => AskedShape(pushing.section)

\* The sections passed are settled, and what the one under way still lacks is asked for.
CoveredBy(n) ==
    /\ Range(wanted.sections[n]) \ Range(Held(onNode.sections[n])) \subseteq Missing(pushing.left, n)
    /\ Tags(n, Held(onNode.sections[n])) \ Tags(n, wanted.sections[n]) \subseteq Spare(pushing.left)

SectionsMid ==
    Working /\ ~pushing.touched =>
       /\ \A n \in DOMAIN wanted.sections \ (pushing.later \union {pushing.section}) :
             SectionSettled(n)
       /\ Sending /\ ~Keyed(pushing.section) => CoveredBy(pushing.section)

NamedBy(failed) ==
    /\ failed = {} => Settled
    /\ wanted.kind = "filters" => Differences(onNode) \subseteq failed

AtEnd == pushing.pc = "end" /\ ~pushing.touched => NamedBy(pushing.failed)

SectionsInv ==
    wanted.kind = "settings" =>
       SectionsTyped /\ PushShape /\ SectionShapes /\ SectionsMid /\ AtEnd /\ FailuresNamed

\* Nothing failed of the sections when all of them are settled.
LEMMA SettledSections ==
    ASSUME wanted.kind = "settings"
    PROVE  \A failed : NamedBy(failed) <=>
              (failed = {} => \A n \in DOMAIN wanted.sections : SectionSettled(n))
BY DEF NamedBy, Settled

\* The kinds of sections.
LEMMA SectionIs ==
    ASSUME NEW n \in SectionNames
    PROVE  /\ Keyed(n) => Strategy(n) \in {"document", "toggle"}
           /\ ~Keyed(n) => Strategy(n) \in {"clients", "rewrites"}
           /\ Strategy(n) \in {"clients", "rewrites"} => ~Keyed(n)
BY EachStrategy DEF Keyed, SpecKinds

\* A section of which everything is there is settled.
LEMMA CoveredSettles ==
    ASSUME NEW n \in DOMAIN wanted.sections, SectionShape(n), ~Keyed(n),
           Range(wanted.sections[n]) \subseteq Range(Held(onNode.sections[n])),
           Tags(n, Held(onNode.sections[n])) \subseteq Tags(n, wanted.sections[n])
    PROVE  SectionSettled(n)
<1>1. Range(wanted.sections[n]) = Range(Held(onNode.sections[n]))
  BY NothingLeft DEF SectionShape, ItemList
<1> QED BY <1>1 DEF SectionSettled, Held, Implements

\* What a section is asked for after it was read.
LEMMA ReadSection ==
    ASSUME NEW n \in DOMAIN wanted.sections, n \in SectionNames, SectionShape(n),
           NEW left, left = SectionRequests(n, wanted.sections[n], onNode.sections[n])
    PROVE  /\ left = {} => SectionSettled(n)
           /\ Keyed(n) /\ left # {} => left = {Request("write", n)}
           /\ ~Keyed(n) =>
                /\ ListedRequests(n, wanted.sections[n], left)
                /\ Range(wanted.sections[n]) \ Range(Held(onNode.sections[n])) \subseteq Missing(left, n)
                /\ Tags(n, Held(onNode.sections[n])) \ Tags(n, wanted.sections[n]) \subseteq Spare(left)
           /\ Strategy(n) = "rewrites" =>
                \A r \in left : r.op = "add" => r.item \notin Range(Held(onNode.sections[n]))
<1> DEFINE w == wanted.sections[n]
           a == onNode.sections[n]
<1>1. CASE Keyed(n)
  <2>1. left = IF ToWrite(n, w, a) \/ (a = <<>> /\ Strategy(n) = "toggle")
               THEN {Request("write", n)} ELSE {}
    BY <1>1 DEF SectionRequests, Keyed
  <2>2. ToWrite(n, w, a) => left # {}
    BY <2>1
  <2>3. left = {} => SectionSettled(n)
    BY <1>1, <2>2, Zenon DEF SectionSettled
  <2> QED BY <2>1, <2>3, <1>1, SectionIs
<1>2. CASE Strategy(n) = "clients"
  <2>1. ~Keyed(n)
    BY <1>2, SectionIs
  <2>2. /\ ListedRequests(n, w, left)
        /\ Range(w) \ Range(Held(a)) \subseteq Missing(left, n)
        /\ Tags(n, Held(a)) \ Tags(n, w) \subseteq Spare(left)
    BY <1>2, <2>1, ClientsRead DEF SectionShape
  <2>3. left = {} => SectionSettled(n)
    BY <2>2, <2>1, CoveredSettles DEF Missing, Spare
  <2> QED BY <2>1, <2>2, <2>3, <1>2
<1>3. CASE Strategy(n) = "rewrites"
  <2>1. ~Keyed(n)
    BY <1>3, SectionIs
  <2>2. /\ ListedRequests(n, w, left)
        /\ Range(w) \ Range(Held(a)) \subseteq Missing(left, n)
        /\ Tags(n, Held(a)) \ Tags(n, w) \subseteq Spare(left)
        /\ \A r \in left : r.op = "add" => r.item \notin Range(Held(a))
    BY <1>3, RewritesRead
  <2>3. left = {} => SectionSettled(n)
    BY <2>2, <2>1, CoveredSettles DEF Missing, Spare
  <2> QED BY <2>1, <2>2, <2>3
<1> QED BY <1>1, <1>2, <1>3, SectionIs

\* Only what a section has and is to have tells of it.
LEMMA SectionElsewhere ==
    ASSUME NEW n, wanted' = wanted, onNode.sections'[n] = onNode.sections[n]
    PROVE  (SectionSettled(n)' <=> SectionSettled(n)) /\ (SectionShape(n)' <=> SectionShape(n))
BY DEF SectionSettled, SectionShape, Implements

\* The push goes on with the next section, or ends.
LEMMA GoesOn ==
    ASSUME wanted.kind = "settings", wanted' = wanted, SectionsTyped,
           NEW p, Parts(p), p.later \subseteq DOMAIN wanted.sections, p.then = <<>>,
           p.touched \in BOOLEAN, pushing' = NextSection(p),
           ~p.touched => \A n \in DOMAIN wanted.sections \ p.later : SectionSettled(n)'
    PROVE  /\ Parts(pushing') /\ pushing'.pc \in {"read", "end"} /\ pushing'.touched \in BOOLEAN
           /\ SectionShapes' /\ SectionsMid' /\ AtEnd'
<1> DEFINE q == NextSection(p)
<1>1. /\ Parts(q) /\ q.left = p.left /\ q.then = p.then /\ q.base = p.base
      /\ q.failed = p.failed /\ q.touched = p.touched
      /\ p.later = {} => q.pc = "end" /\ q.later = {} /\ q.section = p.section
      /\ p.later # {} =>
           q.pc = "read" /\ q.section \in p.later /\ q.later = p.later \ {q.section}
  BY NextSectionIs DEF SectionsTyped
<1> HIDE DEF q
<1>a. pushing' = q
  BY DEF q
<1>2. Parts(pushing') /\ pushing'.pc \in {"read", "end"} /\ pushing'.touched \in BOOLEAN
  BY <1>1, <1>a
<1>3. SectionShapes'
  BY <1>1, <1>a DEF SectionShapes, Working, Sending
<1>4. SectionsMid'
  BY <1>1, <1>a DEF SectionsMid, Working, Sending
<1>5. ~pushing'.touched /\ pushing'.pc = "end" =>
         \A n \in DOMAIN wanted'.sections : SectionSettled(n)'
  BY <1>1, <1>a
<1>6. AtEnd'
  BY <1>5 DEF AtEnd, NamedBy, Settled
<1> QED BY <1>2, <1>3, <1>4, <1>6

\* A configuration is its four parts.
LEMMA ChosenParts ==
    ASSUME NEW kind, NEW rules, NEW lists, NEW sections, NEW c,
           c = Chosen(kind, rules, lists, sections)
    PROVE  /\ NodeParts(c) /\ c.kind = kind /\ c.rules = rules
           /\ c.lists = lists /\ c.sections = sections
BY DEF Chosen, NodeParts

PutAt(after, node, n, x) == after = [node EXCEPT !.sections[n] = x]

\* One section of a node is given another value.
LEMMA SectionPut ==
    ASSUME NEW node, NodeParts(node), NEW names, NEW n \in names, NEW x,
           SectionsOver(node, names),
           NEW after, PutAt(after, node, n, x)
    PROVE  /\ NodeParts(after) /\ SectionsOver(after, names)
           /\ after.sections = [m \in names |-> IF m = n THEN x ELSE node.sections[m]]
<1> DEFINE old == node.sections
           new == [m \in names |-> IF m = n THEN x ELSE old[m]]
<1>1. [old EXCEPT ![n] = x] = new
  BY DEF SectionsOver
<1>2. after = [node EXCEPT !.sections = new]
  <2>1. after = [node EXCEPT !.sections = [old EXCEPT ![n] = x]]
    BY DEF PutAt
  <2> QED BY <2>1, <1>1
<1> HIDE DEF new
<1>3. after = Chosen(node.kind, node.rules, node.lists, new)
  <2>1. \A k, r, l, s : [Chosen(k, r, l, s) EXCEPT !.sections = new] = Chosen(k, r, l, new)
    BY DEF Chosen
  <2>2. node = Chosen(node.kind, node.rules, node.lists, node.sections)
    BY DEF NodeParts
  <2> QED BY <1>2, <2>1, <2>2
<1>4. NodeParts(after) /\ after.sections = new
  BY <1>3, ChosenParts
<1>5. new = [m \in names |-> new[m]]
  BY DEF new
<1>6. SectionsOver(after, names)
  BY <1>4, <1>5 DEF SectionsOver
<1> QED BY <1>4, <1>6 DEF new

\* One section of the node changes.
LEMMA SectionChanged ==
    ASSUME wanted.kind = "settings", SectionsTyped, wanted' = wanted,
           NEW n \in DOMAIN wanted.sections, NEW data,
           PutAt(onNode', onNode, n, <<data>>),
           ~Keyed(n) => ItemList(n, data)
    PROVE  /\ SectionsTyped'
           /\ onNode.sections'[n] = <<data>> /\ Held(onNode.sections'[n]) = data
           /\ \A m \in DOMAIN wanted.sections : m # n => onNode.sections'[m] = onNode.sections[m]
<1>1. /\ NodeParts(onNode')
      /\ onNode'.sections =
            [m \in DOMAIN wanted.sections |-> IF m = n THEN <<data>> ELSE onNode.sections[m]]
      /\ SectionsOver(onNode', DOMAIN wanted.sections)
  <2>1. NodeParts(onNode) /\ SectionsOver(onNode, DOMAIN wanted.sections)
    BY DEF SectionsTyped
  <2> QED BY <2>1, SectionPut
<1>2. /\ onNode'.sections[n] = <<data>>
      /\ \A m \in DOMAIN wanted.sections : m # n => onNode'.sections[m] = onNode.sections[m]
  BY <1>1
<1>3. Held(<<data>>) = data
  BY DEF Held
<1>4. SectionShape(n)'
  <2>1. SectionShape(n)
    BY DEF SectionsTyped
  <2>2. (wanted.sections[n])' = wanted.sections[n] /\ (onNode.sections[n])' = <<data>>
    BY <1>2
  <2>3. (Held(onNode.sections[n]))' = data
    BY <1>3, <2>2
  <2>4. ~Keyed(n) => ItemList(n, data)
    OBVIOUS
  <2>5. <<data>> = <<<<data>>[1]>>
    OBVIOUS
  <2>6. (onNode.sections[n])' = <<(onNode.sections[n])'[1]>>
    BY <2>2, <2>5
  <2> QED BY ONLY <2>1, <2>2, <2>3, <2>4, <2>6 DEF SectionShape
<1>5. \A m \in DOMAIN wanted.sections : SectionShape(m)'
  <2> SUFFICES ASSUME NEW m \in DOMAIN wanted.sections, m # n PROVE SectionShape(m)'
    BY <1>4
  <2>1. onNode.sections'[m] = onNode.sections[m]
    BY <1>2
  <2>2. SectionShape(m)
    BY DEF SectionsTyped
  <2> QED BY <2>1, <2>2, SectionElsewhere
<1>6. SectionsTyped'
  BY <1>1, <1>2, <1>5 DEF SectionsTyped
<1> QED BY <1>2, <1>3, <1>6

\* A section with keys is as it should be once it was written.
LEMMA KeysWritten ==
    ASSUME NEW n \in DOMAIN wanted.sections, n \in SectionNames, SectionShape(n), Keyed(n),
           wanted' = wanted, NEW r, r.op = "write", NEW data,
           onNode.sections'[n] = <<WrittenSection(n, data, r)>>
    PROVE  SectionSettled(n)'
<1>w. PICK w : w = wanted.sections[n]
  OBVIOUS
<1>e. PICK e : e = WrittenSection(n, data, r)
  OBVIOUS
<1>t. PICK to : to = Managed(n, w)
  OBVIOUS
<1>s. PICK seen : seen = Managed(n, e)
  OBVIOUS
<1>1. ASSUME NEW k \in DOMAIN to, to[k] \notin SelfResolved(n, k)
      PROVE  k \in DOMAIN seen /\ to[k] = seen[k]
  <2>1. CASE Strategy(n) = "toggle"
    <3>0. to = [enabled |-> Truth(w)] /\ seen = [enabled |-> Truth(e)]
      BY <2>1, <1>t, <1>s, ToggleManaged
    <3>e. e = to
      BY <2>1, <1>w, <1>e, <1>t DEF WrittenSection
    <3>1. e = to /\ to = [enabled |-> Truth(w)] /\ seen = [enabled |-> Truth(e)]
      BY <3>0, <3>e
    <3>2. Truth(w) \in {"on", "off"}
      BY DEF Truth
    <3>3. "enabled" \in DOMAIN e /\ e["enabled"] = Truth(w)
      BY <3>1
    <3>4. Truth(e) = Truth(w)
      BY <3>2, <3>3 DEF Truth
    <3> QED BY <3>1, <3>4
  <2>2. CASE Strategy(n) = "document"
    <3>d. PICK doc : doc = Overlaid(to, pushing.base[1])
      OBVIOUS
    <3>1. e = [x \in DOMAIN doc |-> Resolved(x, doc[x])]
      BY <2>2, <1>w, <1>e, <1>t, <3>d DEF WrittenSection
    <3>2. k \in DOMAIN doc /\ doc[k] = to[k]
      BY <3>d DEF Overlaid
    <3>3. k \in DOMAIN e /\ e[k] = Resolved(k, to[k])
      BY <3>1, <3>2
    <3>4. k \in DOMAIN w /\ k \in Keys(n, w) /\ to[k] = w[k]
      BY <1>t, <2>2, DocumentManaged
    <3>5. k \in Keys(n, e)
      BY <3>3, <3>4 DEF Keys
    <3>6. k \in DOMAIN seen /\ seen[k] = e[k]
      <4>1. seen = [x \in DOMAIN e \intersect Keys(n, e) |-> e[x]]
        BY <1>s, <2>2 DEF Managed, Selected, Restrict
      <4> QED BY <4>1, <3>3, <3>5
    <3>7. w[k] \in {"Local", ""} => n = "blocked_services" /\ k = "time_zone"
      BY <3>4, <1>w DEF SectionShape
    <3>8. to[k] \notin {"Local", ""}
      BY <1>1, <3>4, <3>7 DEF SelfResolved
    <3>9. Resolved(k, to[k]) = to[k]
      BY <3>8 DEF Resolved
    <3> QED BY <3>3, <3>6, <3>9
  <2> QED BY <2>1, <2>2, SectionIs
<1>2. (onNode.sections[n])' = <<e>> /\ (wanted.sections[n])' = w
  BY <1>e, <1>w
<1>3. Pulled(n, <<e>>) = <<seen>>
  BY <1>s DEF Pulled
<1>4. ~ToWrite(n, w, <<e>>)
  <2>1. <<seen>>[1] = seen
    OBVIOUS
  <2> QED BY <1>1, <1>3, <1>t, <2>1 DEF ToWrite, SectionDiffers
<1> QED BY <1>2, <1>4, Zenon DEF SectionSettled

\* What is left of the items after one request of them.
LEMMA ItemsWritten ==
    ASSUME NEW n \in DOMAIN wanted.sections, n \in SectionNames, SectionShape(n), ~Keyed(n),
           AskedShape(n), NEW r \in pushing.left, NEW d, d = Held(onNode.sections[n])
    PROVE  LET w == wanted.sections[n]
               e == WrittenSection(n, d, r)
               left == pushing.left \ {r}
           IN  /\ ItemList(n, e)
               /\ ListedRequests(n, w, left)
               /\ Strategy(n) = "rewrites" =>
                     \A q \in left : q.op = "add" => q.item \notin Range(e)
               /\ CoveredBy(n) =>
                     /\ Range(w) \ Range(e) \subseteq Missing(left, n)
                     /\ Tags(n, e) \ Tags(n, w) \subseteq Spare(left)
<1> DEFINE w == wanted.sections[n]
           e == WrittenSection(n, d, r)
           left == pushing.left \ {r}
<1>a. ItemList(n, w) /\ ItemList(n, d)
  BY DEF SectionShape
<1>b. ListedRequests(n, w, pushing.left)
  BY DEF AskedShape
<1>c. ListedRequests(n, w, left)
  BY <1>b DEF ListedRequests
<1>d. \A q \in left : q.op = r.op => q.item # r.item
  BY <1>b DEF ListedRequests
<1>e. \A x \in Range(w) : x \in Items(n) /\ Tag(n, x) \in Tags(n, w)
  BY <1>a, SeqBasics DEF ItemList, Range, Tags
<1>f. \A x, y \in Range(w) : Tag(n, x) = Tag(n, y) => x = y
  BY <1>a DEF ItemList, Once, Range
<1>g. CoveredBy(n) => /\ Range(w) \ Range(d) \subseteq Missing(pushing.left, n)
                      /\ Tags(n, d) \ Tags(n, w) \subseteq Spare(pushing.left)
  BY DEF CoveredBy
<1>h. /\ \A x \in Missing(pushing.left, n) : x \in Missing(left, n) \/ (r.op = WriteOp(n) /\ x = r.item)
      /\ \A x \in Spare(pushing.left) : x \in Spare(left) \/ (r.op = "delete" /\ x = r.item)
  BY DEF Missing, Spare
<1>1. CASE r.op = "delete"
  <2>1. /\ ItemList(n, e) /\ Range(e) \subseteq Range(d)
        /\ Tags(n, e) = Tags(n, d) \ {r.item}
        /\ \A x \in Range(d) : Tag(n, x) # r.item => x \in Range(e)
    BY <1>1, <1>a, SectionIs, DeleteKeeps
  <2>2. r.item \notin Tags(n, w)
    BY <1>1, <1>b DEF ListedRequests, WriteOp
  <2>3. \A x \in Range(w) \cap Range(d) : x \in Range(e)
    BY <2>1, <2>2, <1>e
  <2>4. r.op # WriteOp(n)
    BY <1>1 DEF WriteOp
  <2>5. Strategy(n) = "rewrites" => \A q \in left : q.op = "add" => q.item \notin Range(e)
    BY <2>1 DEF AskedShape
  <2> HIDE DEF e, w, left
  <2>6. CoveredBy(n) => Range(w) \ Range(e) \subseteq Missing(left, n)
    BY <2>3, <2>4, <1>g, <1>h
  <2>7. CoveredBy(n) => Tags(n, e) \ Tags(n, w) \subseteq Spare(left)
    BY <2>1, <1>g, <1>h
  <2> QED BY <1>c, <2>1, <2>5, <2>6, <2>7 DEF e, w, left
<1>2. CASE r.op # "delete"
  <2>0. r.op = WriteOp(n) /\ r.item \in Range(w)
    BY <1>2, <1>b DEF ListedRequests
  <2>1. /\ ItemList(n, e) /\ r.item \in Range(e)
        /\ Tags(n, e) \subseteq Tags(n, d) \union {Tag(n, r.item)}
        /\ \A x \in Range(d) : Tag(n, x) # Tag(n, r.item) => x \in Range(e)
        /\ Strategy(n) = "rewrites" => Range(e) = Range(d) \union {r.item}
    <3>1. CASE Strategy(n) = "clients"
      <4>1. /\ ItemList(n, e) /\ r.item \in Range(e)
            /\ Tags(n, e) = Tags(n, d) \union {r.item.name}
            /\ \A x \in Range(d) : x.name # r.item.name => x \in Range(e)
        BY <3>1, <2>0, <1>a, <1>e, PutKeeps DEF WriteOp
      <4> QED BY <4>1, <3>1 DEF Tag
    <3>2. CASE Strategy(n) = "rewrites"
      <4>1. ItemList(n, e) /\ Range(e) = Range(d) \union {r.item}
        <5>1. r.op = "add" /\ r.item \notin Range(d) /\ r.item \in Items(n)
          BY <3>2, <2>0, <1>e DEF WriteOp, AskedShape
        <5> QED BY <5>1, <3>2, <1>a, AddKeeps
      <4>2. \A s : Tags(n, s) = Range(s)
        BY <3>2 DEF Tags, Tag, Range
      <4> HIDE DEF e
      <4> QED BY <4>1, <4>2, <3>2 DEF Tag
    <3> QED BY <3>1, <3>2, SectionIs
  <2>3. \A x \in Range(w) \cap Range(d) : x \in Range(e)
    BY <2>0, <2>1, <1>f
  <2>4. Tag(n, r.item) \in Tags(n, w)
    BY <2>0, <1>e
  <2>5. Strategy(n) = "rewrites" => \A q \in left : q.op = "add" => q.item \notin Range(e)
    BY <2>1, <2>0, <1>d DEF AskedShape, WriteOp
  <2> HIDE DEF e, w, left
  <2>6. CoveredBy(n) => Range(w) \ Range(e) \subseteq Missing(left, n)
    BY <2>3, <2>1, <1>g, <1>h
  <2>7. CoveredBy(n) => Tags(n, e) \ Tags(n, w) \subseteq Spare(left)
    BY <2>1, <2>4, <1>2, <1>g, <1>h
  <2> QED BY <1>c, <2>1, <2>5, <2>6, <2>7 DEF e, w, left
<1> QED BY <1>1, <1>2

\* Nothing changes what the push has done so far but the requests and the hand.
LEMMA SectionsSame ==
    ASSUME wanted' = wanted, onNode' = onNode
    PROVE  /\ SectionsTyped' <=> SectionsTyped
           /\ \A n : SectionSettled(n)' <=> SectionSettled(n)
           /\ \A failed : NamedBy(failed)' <=> NamedBy(failed)
<1>1. SectionsTyped' <=> SectionsTyped
  BY DEF SectionsTyped, SectionShape
<1>2. \A n : SectionSettled(n)' <=> SectionSettled(n)
  BY DEF SectionSettled, Implements
<1>3. \A failed : NamedBy(failed)' <=> NamedBy(failed)
  BY DEF NamedBy, Settled, SectionSettled, Implements, Differences
<1> QED BY <1>1, <1>2, <1>3

\* A push that goes on says nothing new of how the last one ended.
LEMMA StillNamed ==
    ASSUME FailuresNamed, \/ pushing'.pc # "rest"
                          \/ wanted' = wanted /\ onNode' = onNode /\ outcome' = outcome /\ pushing.pc = "rest"
    PROVE  FailuresNamed'
<1>1. CASE pushing'.pc # "rest"
  BY <1>1 DEF FailuresNamed, Pushing
<1>2. CASE wanted' = wanted /\ onNode' = onNode /\ outcome' = outcome /\ pushing.pc = "rest"
  <2>1. (Settled' <=> Settled) /\ Differences(onNode)' = Differences(onNode)
    BY <1>2 DEF Settled, SectionSettled, Implements, Differences
  <2> QED BY <2>1, <1>2 DEF FailuresNamed, Pushing
<1> QED BY <1>1, <1>2

\* A push that ends is named by what it says failed.
LEMMA EndNames ==
    ASSUME PushShape, AtEnd, EndPayload
    PROVE  FailuresNamed' /\ PushShape' /\ pushing' = NoPushing
<1>1. /\ pushing.pc = "end" /\ wanted' = wanted /\ onNode' = onNode /\ pushing' = NoPushing
      /\ outcome' = [ended |-> TRUE, failed |-> pushing.failed, touched |-> pushing.touched]
  BY DEF EndPayload, Pushing
<1>2. ~pushing.touched => NamedBy(outcome.failed)'
  <2>1. \A failed : NamedBy(failed)' <=> NamedBy(failed)
    BY <1>1, SectionsSame
  <2>2. outcome'.failed = pushing.failed
    BY <1>1
  <2>3. ~pushing.touched => NamedBy(pushing.failed)
    BY <1>1 DEF AtEnd
  <2> QED BY <2>1, <2>2, <2>3
<1>3. FailuresNamed'
  BY <1>1, <1>2 DEF FailuresNamed, NamedBy
<1>4. PushShape'
  BY <1>1 DEF PushShape, NoPushing, Parts
<1> QED BY <1>1, <1>3, <1>4

\* When the push begins all sections are still to come.
LEMMA SectionsStart ==
    ASSUME wanted.kind = "settings", SectionsInv, StartPayload
    PROVE  SectionsInv'
<1> DEFINE p == [NoPushing EXCEPT !.later = DOMAIN wanted.sections]
<1>1. /\ wanted' = wanted /\ onNode' = onNode /\ outcome' = outcome /\ pushing' = NextSection(p)
  BY DEF StartPayload
<1>2. /\ Parts(p) /\ p.later = DOMAIN wanted.sections /\ p.then = <<>> /\ p.touched = FALSE
  <2>1. Parts(NoPushing) /\ NoPushing.then = <<>> /\ NoPushing.touched = FALSE
    BY DEF NoPushing, Parts
  <2> QED BY <2>1 DEF Parts
<1>3. SectionsTyped /\ PushShape /\ FailuresNamed
  BY DEF SectionsInv
<1> HIDE DEF p
<1>4. /\ Parts(pushing') /\ pushing'.pc \in {"read", "end"} /\ pushing'.touched \in BOOLEAN
      /\ SectionShapes' /\ SectionsMid' /\ AtEnd'
  BY <1>1, <1>2, <1>3, GoesOn
<1>5. PushShape'
  BY <1>1, <1>3, <1>4 DEF PushShape
<1>6. FailuresNamed'
  BY <1>3, <1>4, StillNamed
<1> QED BY <1>1, <1>3, <1>4, <1>5, <1>6, SectionsSame DEF SectionsInv

\* A section that was read is asked for what it lacks, or is settled.
LEMMA SectionsRead ==
    ASSUME wanted.kind = "settings", SectionsInv, ReadNode
    PROVE  SectionsInv'
<1> DEFINE n == pushing.section
           left == SectionRequests(n, wanted.sections[n], onNode.sections[n])
           p == [pushing EXCEPT !.left = left]
<1>1. /\ pushing.pc = "read" /\ wanted' = wanted /\ onNode' = onNode /\ outcome' = outcome
      /\ pushing' = IF left # {}
                    THEN [p EXCEPT !.pc = IF Strategy(n) = "document" THEN "again" ELSE "send"]
                    ELSE NextSection(p)
  BY DEF ReadNode, Pushing
<1>2. SectionsTyped /\ PushShape /\ SectionShapes /\ SectionsMid /\ FailuresNamed
  BY DEF SectionsInv
<1>3. /\ n \in DOMAIN wanted.sections /\ n \in SectionNames /\ SectionShape(n)
      /\ pushing.later \subseteq DOMAIN wanted.sections /\ pushing.then = <<>>
  BY <1>1, <1>2 DEF SectionShapes, SectionsTyped, Working
<1>4. /\ Parts(p) /\ p.later = pushing.later /\ p.then = <<>> /\ p.touched = pushing.touched
      /\ p.section = n /\ p.left = left
  BY <1>2, <1>3 DEF PushShape, Parts
<1>a. left = SectionRequests(n, wanted.sections[n], onNode.sections[n])
  OBVIOUS
<1> HIDE DEF left, p
<1>5. /\ left = {} => SectionSettled(n)
      /\ Keyed(n) /\ left # {} => left = {Request("write", n)}
      /\ ~Keyed(n) =>
           /\ ListedRequests(n, wanted.sections[n], left)
           /\ Range(wanted.sections[n]) \ Range(Held(onNode.sections[n])) \subseteq Missing(left, n)
           /\ Tags(n, Held(onNode.sections[n])) \ Tags(n, wanted.sections[n]) \subseteq Spare(left)
      /\ Strategy(n) = "rewrites" =>
           \A r \in left : r.op = "add" => r.item \notin Range(Held(onNode.sections[n]))
  <2>1. n \in DOMAIN wanted.sections /\ n \in SectionNames /\ SectionShape(n)
    BY <1>3
  <2> HIDE DEF n
  <2> QED BY ONLY <2>1, <1>a, ReadSection, Zenon
<1>6. ~pushing.touched => \A m \in DOMAIN wanted.sections \ (pushing.later \union {n}) : SectionSettled(m)
  BY <1>1, <1>2 DEF SectionsMid, Working
<1>7. SectionsTyped'
  BY <1>1, <1>2, SectionsSame
<1>8. pushing.touched \in BOOLEAN
  BY <1>2 DEF PushShape
<1>9. CASE left = {}
  <2>1. ~p.touched => \A m \in DOMAIN wanted.sections \ p.later : SectionSettled(m)'
    BY <1>9, <1>4, <1>5, <1>6, <1>1, SectionsSame
  <2>2. pushing' = NextSection(p)
    BY <1>9, <1>1
  <2>3. /\ Parts(pushing') /\ pushing'.pc \in {"read", "end"} /\ pushing'.touched \in BOOLEAN
        /\ SectionShapes' /\ SectionsMid' /\ AtEnd'
    BY <2>1, <2>2, <1>1, <1>2, <1>3, <1>4, <1>8, GoesOn
  <2>4. PushShape'
    BY <2>3, <1>1, <1>2 DEF PushShape
  <2>5. FailuresNamed'
    BY <2>3, <1>2, StillNamed
  <2> QED BY <2>3, <2>4, <2>5, <1>7 DEF SectionsInv
<1>10. CASE left # {}
  <2>1. pushing' = [p EXCEPT !.pc = IF Strategy(n) = "document" THEN "again" ELSE "send"]
    BY <1>10, <1>1
  <2>2. /\ Parts(pushing') /\ pushing'.pc \in {"again", "send"}
        /\ pushing'.touched = pushing.touched /\ pushing'.section = n
        /\ pushing'.left = left /\ pushing'.later = pushing.later /\ pushing'.then = <<>>
    BY <2>1, <1>4 DEF Parts
  <2>3. PushShape'
    BY <2>2, <1>1, <1>2 DEF PushShape
  <2>4. AskedShape(n)'
    BY <2>2, <1>1, <1>5, <1>10 DEF AskedShape
  <2>5. SectionShapes'
    BY <2>2, <2>4, <1>1, <1>3 DEF SectionShapes, Working, Sending, AskedShape
  <2>6. ~Keyed(n) => CoveredBy(n)'
    BY <2>2, <1>1, <1>5 DEF CoveredBy
  <2>7. SectionsMid'
    BY <2>2, <2>6, <1>1, <1>6, SectionsSame DEF SectionsMid, Sending, CoveredBy
  <2>8. AtEnd' /\ FailuresNamed'
    BY <2>2, <1>2, StillNamed DEF AtEnd
  <2> QED BY <2>3, <2>5, <2>7, <2>8, <1>7 DEF SectionsInv
<1> QED BY <1>9, <1>10

LEMMA SectionsReadAgain ==
    ASSUME wanted.kind = "settings", SectionsInv, ReadAgain
    PROVE  SectionsInv'
<1> DEFINE n == pushing.section
<1>1. /\ pushing.pc = "again" /\ wanted' = wanted /\ onNode' = onNode /\ outcome' = outcome
      /\ pushing' = [pushing EXCEPT !.pc = "send", !.base = onNode.sections[n]]
  BY DEF ReadAgain, Pushing
<1>2. SectionsTyped /\ PushShape /\ SectionShapes /\ SectionsMid /\ FailuresNamed
  BY DEF SectionsInv
<1>3. /\ Parts(pushing') /\ pushing'.pc = "send"
      /\ pushing'.touched = pushing.touched /\ pushing'.section = n
      /\ pushing'.left = pushing.left /\ pushing'.later = pushing.later
      /\ pushing'.then = pushing.then
  BY <1>1, <1>2 DEF PushShape, Parts
<1>4. PushShape'
  BY <1>3, <1>1, <1>2 DEF PushShape
<1>5. SectionShapes'
  BY <1>3, <1>1, <1>2 DEF SectionShapes, Working, Sending, AskedShape
<1>6. SectionsMid'
  BY <1>3, <1>1, <1>2, SectionsSame DEF SectionsMid, Sending, Working, CoveredBy
<1>7. AtEnd' /\ FailuresNamed'
  BY <1>3, <1>2, StillNamed DEF AtEnd
<1> QED BY <1>1, <1>2, <1>4, <1>5, <1>6, <1>7, SectionsSame DEF SectionsInv

LEMMA SectionsEnd ==
    ASSUME wanted.kind = "settings", SectionsInv, EndPayload
    PROVE  SectionsInv'
<1>1. FailuresNamed' /\ PushShape' /\ pushing' = NoPushing
  BY EndNames DEF SectionsInv
<1>2. wanted' = wanted /\ onNode' = onNode
  BY DEF EndPayload
<1>3. SectionShapes' /\ SectionsMid' /\ AtEnd'
  BY <1>1, <1>2 DEF NoPushing, SectionShapes, SectionsMid, AtEnd, Working, Sending
<1> QED BY <1>1, <1>2, <1>3, SectionsSame DEF SectionsInv

\* What a request that is carried out leaves of a section.
LEMMA SectionWritten ==
    ASSUME wanted.kind = "settings", SectionsTyped, SectionShapes, pushing.pc = "send",
           wanted' = wanted, NEW r \in pushing.left, ~Refusable(r), Applied(r)
    PROVE  LET n == pushing.section
               e == WrittenSection(n, Held(onNode.sections[n]), r)
           IN  /\ SectionsTyped'
               /\ onNode.sections'[n] = <<e>> /\ Held(onNode.sections'[n]) = e
               /\ \A m \in DOMAIN wanted.sections : m # n => onNode.sections'[m] = onNode.sections[m]
<1> DEFINE n == pushing.section
           d == Held(onNode.sections[n])
           e == WrittenSection(n, d, r)
<1>1. n \in DOMAIN wanted.sections /\ n \in SectionNames /\ SectionShape(n) /\ AskedShape(n)
  BY DEF SectionShapes, SectionsTyped, Working, Sending
<1>2. onNode.sections[n] # <<>>
  BY DEF Refusable
<1>3. d = onNode.sections[n][1]
  BY <1>2 DEF Held
<1>4. PutAt(onNode', onNode, n, <<e>>)
  BY <1>3 DEF Applied, PutAt
<1>5. ~Keyed(n) => ItemList(n, e)
  BY <1>1, ItemsWritten
<1> HIDE DEF n, d, e
<1>6. /\ SectionsTyped'
      /\ onNode.sections'[n] = <<e>> /\ Held(onNode.sections'[n]) = e
      /\ \A m \in DOMAIN wanted.sections : m # n => onNode.sections'[m] = onNode.sections[m]
  BY <1>1, <1>4, <1>5, SectionChanged
<1> QED BY <1>6 DEF n, d, e

\* A request that is carried out is not needed again; with the last, the section is settled.
LEMMA SectionsDone ==
    ASSUME wanted.kind = "settings", SectionsInv,
           NEW r \in pushing.left \union Range(pushing.then), RequestDone(r)
    PROVE  SectionsInv'
<1>n. PICK n : n = pushing.section
  OBVIOUS
<1>d. PICK d : d = Held(onNode.sections[n])
  OBVIOUS
<1>e. PICK e : e = WrittenSection(n, d, r)
  OBVIOUS
<1>l. PICK left : left = pushing.left \ {r}
  OBVIOUS
<1>p. PICK p : p = [pushing EXCEPT !.left = left, !.then = <<>>]
  OBVIOUS
<1>1. SectionsTyped /\ PushShape /\ SectionShapes /\ SectionsMid /\ FailuresNamed
  BY DEF SectionsInv
<1>2. pushing.then = <<>>
  BY <1>1 DEF SectionShapes
<1>3. /\ pushing.pc = "send" /\ r \in pushing.left /\ ~Refusable(r) /\ Applied(r)
      /\ wanted' = wanted /\ outcome' = outcome
  BY <1>2 DEF RequestDone, NextRequest, Pushing
<1>4. pushing' = Continue(p)
  BY <1>l, <1>p, <1>3 DEF RequestDone, Succeeded
<1>5. n \in DOMAIN wanted.sections /\ n \in SectionNames /\ SectionShape(n) /\ AskedShape(n)
  BY <1>n, <1>1, <1>3 DEF SectionShapes, SectionsTyped, Working, Sending
<1>6. /\ SectionsTyped'
      /\ onNode.sections'[n] = <<e>> /\ Held(onNode.sections'[n]) = e
      /\ \A m \in DOMAIN wanted.sections : m # n => onNode.sections'[m] = onNode.sections[m]
  BY <1>n, <1>d, <1>e, <1>1, <1>3, SectionWritten
<1>7. /\ Parts(p) /\ p.pc = "send" /\ p.left = left /\ p.then = <<>> /\ p.section = n
      /\ p.later = pushing.later /\ p.touched = pushing.touched
  BY <1>n, <1>p, <1>1, <1>3 DEF PushShape, Parts
<1>8. ~pushing.touched =>
         \A m \in DOMAIN wanted.sections \ (pushing.later \union {n}) : SectionSettled(m)'
  <2>1. ~pushing.touched =>
           \A m \in DOMAIN wanted.sections \ (pushing.later \union {n}) : SectionSettled(m)
    BY <1>n, <1>1, <1>3 DEF SectionsMid, Working
  <2>2. \A m \in DOMAIN wanted.sections \ {n} : SectionSettled(m)' <=> SectionSettled(m)
    BY <1>3, <1>6, SectionElsewhere
  <2> QED BY <2>1, <2>2
<1>9. pushing.touched \in BOOLEAN /\ pushing.later \subseteq DOMAIN wanted.sections
  BY <1>1 DEF PushShape, SectionShapes
<1>10. ~Keyed(n) =>
         /\ ListedRequests(n, wanted.sections[n], left)
         /\ Strategy(n) = "rewrites" => \A q \in left : q.op = "add" => q.item \notin Range(e)
         /\ CoveredBy(n) =>
              /\ Range(wanted.sections[n]) \ Range(e) \subseteq Missing(left, n)
              /\ Tags(n, e) \ Tags(n, wanted.sections[n]) \subseteq Spare(left)
  BY <1>d, <1>e, <1>l, <1>3, <1>5, ItemsWritten
<1>11. ~pushing.touched /\ ~Keyed(n) => CoveredBy(n)
  BY <1>n, <1>1, <1>3 DEF SectionsMid, Working, Sending
<1>12. Keyed(n) => left = {} /\ r.op = "write"
  BY <1>l, <1>3, <1>5 DEF AskedShape, Request
<1>13. Keyed(n) => SectionSettled(n)'
  BY <1>e, <1>3, <1>5, <1>6, <1>12, KeysWritten
<1>14. SectionShape(n)'
  BY <1>3, <1>5, <1>6 DEF SectionsTyped
<1>15. CASE left = {}
  <2>1. pushing' = NextSection(p)
    BY <1>4, <1>7, <1>15 DEF Continue
  <2>2. ~pushing.touched => SectionSettled(n)'
    <3>1. CASE Keyed(n)
      BY <3>1, <1>13
    <3>2. CASE ~Keyed(n) /\ ~pushing.touched
      <4>1. /\ Range(wanted.sections[n]) \subseteq Range(e)
            /\ Tags(n, e) \subseteq Tags(n, wanted.sections[n])
        BY <3>2, <1>10, <1>11, <1>15 DEF Missing, Spare
      <4>2. Range(wanted.sections[n]) = Range(e)
        <5>1. Once(n, e)
          BY <1>14, <1>6, <3>2 DEF SectionShape, ItemList
        <5> QED BY <4>1, <5>1, NothingLeft
      <4>3. onNode'.sections[n] = <<e>> /\ wanted' = wanted
        BY <1>6, <1>3
      <4> QED BY <3>2, <4>2, <4>3 DEF SectionSettled
    <3> QED BY <3>1, <3>2
  <2>3. ~p.touched => \A m \in DOMAIN wanted.sections \ p.later : SectionSettled(m)'
    BY <2>2, <1>7, <1>8
  <2>4. /\ Parts(pushing') /\ pushing'.pc \in {"read", "end"} /\ pushing'.touched \in BOOLEAN
        /\ SectionShapes' /\ SectionsMid' /\ AtEnd'
    BY <2>1, <2>3, <1>1, <1>3, <1>7, <1>9, GoesOn
  <2>5. PushShape'
    BY <2>4, <1>3, <1>1 DEF PushShape
  <2>6. FailuresNamed'
    BY <2>4, <1>1, StillNamed
  <2> QED BY <2>4, <2>5, <2>6, <1>6 DEF SectionsInv
<1>16. CASE left # {}
  <2>1. pushing' = p
    BY <1>4, <1>7, <1>16 DEF Continue
  <2>2. PushShape'
    BY <2>1, <1>1, <1>3, <1>7 DEF PushShape
  <2>3. ~Keyed(n)
    BY <1>12, <1>16
  <2>4. AskedShape(n)'
    BY <2>1, <2>3, <1>3, <1>6, <1>7, <1>10 DEF AskedShape
  <2>5. SectionShapes'
    BY <2>1, <2>4, <1>3, <1>5, <1>7, <1>9 DEF SectionShapes, Working, Sending, AskedShape
  <2>6. ~pushing.touched => CoveredBy(n)'
    BY <2>1, <2>3, <1>3, <1>6, <1>7, <1>10, <1>11 DEF CoveredBy
  <2>7. SectionsMid'
    BY <2>1, <2>6, <1>3, <1>7, <1>8 DEF SectionsMid, Sending, CoveredBy
  <2>8. AtEnd' /\ FailuresNamed'
    BY <2>1, <1>1, <1>7, StillNamed DEF AtEnd
  <2> QED BY <2>2, <2>5, <2>7, <2>8, <1>6 DEF SectionsInv
<1> QED BY <1>15, <1>16

\* A section that fails ends the push, and is named.
LEMMA SectionsFailed ==
    ASSUME wanted.kind = "settings", SectionsInv,
           NEW r \in pushing.left \union Range(pushing.then), RequestRefused(r) \/ RequestLost(r)
    PROVE  SectionsInv'
<1> DEFINE p == [pushing EXCEPT !.pc = "end", !.left = {}, !.later = {},
                                !.failed = {pushing.section}]
<1>1. SectionsTyped /\ PushShape /\ SectionShapes /\ FailuresNamed
  BY DEF SectionsInv
<1>2. pushing.then = <<>>
  BY <1>1 DEF SectionShapes
<1>3. /\ pushing.pc = "send" /\ r \in pushing.left
      /\ onNode' = onNode \/ (~Refusable(r) /\ Applied(r))
      /\ wanted' = wanted /\ outcome' = outcome /\ pushing' = p
  BY <1>2 DEF RequestRefused, RequestLost, NextRequest, Pushing, Failed
<1>4. SectionsTyped'
  BY <1>1, <1>3, SectionWritten, SectionsSame
<1>5. /\ Parts(pushing') /\ pushing'.pc = "end" /\ pushing'.touched = pushing.touched
      /\ pushing'.failed # {} /\ pushing'.later = {} /\ pushing'.then = <<>>
  BY <1>1, <1>2, <1>3 DEF PushShape, Parts
<1>6. PushShape'
  BY <1>5, <1>1, <1>3 DEF PushShape
<1>7. SectionShapes' /\ SectionsMid'
  BY <1>5 DEF SectionShapes, SectionsMid, Working, Sending
<1>8. AtEnd'
  BY <1>5, <1>3 DEF AtEnd, NamedBy
<1>9. FailuresNamed'
  BY <1>5, <1>1, StillNamed
<1> QED BY <1>4, <1>6, <1>7, <1>8, <1>9 DEF SectionsInv

\* What was touched says nothing any more.
LEMMA TouchedSilent ==
    ASSUME PushShape, Touch
    PROVE  /\ PushShape' /\ pushing'.pc = pushing.pc
           /\ pushing.pc # "rest" => pushing'.touched
           /\ pushing'.section = pushing.section /\ pushing'.later = pushing.later
           /\ pushing'.left = pushing.left /\ pushing'.then = pushing.then
           /\ AtEnd' /\ FailuresNamed' /\ wanted' = wanted
<1>1. /\ pushing' = [pushing EXCEPT !.touched = pushing.touched \/ pushing.pc # "rest"]
      /\ outcome' = [outcome EXCEPT !.touched = TRUE] /\ wanted' = wanted
  BY DEF Touch, Pushing
<1>2. outcome'.touched = TRUE
  BY <1>1 DEF PushShape
<1>3. outcome' = [ended |-> outcome'.ended, failed |-> outcome'.failed, touched |-> outcome'.touched]
  BY <1>1 DEF PushShape
<1>4. /\ Parts(pushing') /\ pushing'.pc = pushing.pc
      /\ pushing'.touched = (pushing.touched \/ pushing.pc # "rest")
      /\ pushing'.section = pushing.section /\ pushing'.later = pushing.later
      /\ pushing'.left = pushing.left /\ pushing'.then = pushing.then
  BY <1>1 DEF PushShape, Parts
<1>5. PushShape'
  BY <1>3, <1>4 DEF PushShape
<1>6. AtEnd'
  BY <1>4 DEF AtEnd
<1>7. FailuresNamed'
  BY <1>2 DEF FailuresNamed
<1> QED BY <1>1, <1>4, <1>5, <1>6, <1>7

LEMMA SectionsTouched ==
    ASSUME wanted.kind = "settings", SectionsInv, Touch
    PROVE  SectionsInv'
<1>1. SectionsTyped /\ PushShape /\ SectionShapes
  BY DEF SectionsInv
<1>2. /\ PushShape' /\ pushing'.pc = pushing.pc
      /\ pushing.pc # "rest" => pushing'.touched
      /\ pushing'.section = pushing.section /\ pushing'.later = pushing.later
      /\ pushing'.left = pushing.left /\ pushing'.then = pushing.then
      /\ AtEnd' /\ FailuresNamed' /\ wanted' = wanted
  BY <1>1, TouchedSilent
<1>3. PICK n \in DOMAIN onNode.sections :
         /\ onNode.sections[n] # <<>>
         /\ \E data \in TouchedSection(n, onNode.sections[n][1]) :
               onNode' = [onNode EXCEPT !.sections[n] = <<data>>]
  BY DEF Touch
<1>4. PICK data \in TouchedSection(n, onNode.sections[n][1]) : PutAt(onNode', onNode, n, <<data>>)
  BY <1>3 DEF PutAt
<1>5. n \in DOMAIN wanted.sections /\ SectionShape(n)
  BY <1>1 DEF SectionsTyped, SectionsOver
<1>6. ~Keyed(n) => ItemList(n, data) /\ Range(data) \subseteq Range(Held(onNode.sections[n]))
  <2> SUFFICES ASSUME ~Keyed(n)
               PROVE  ItemList(n, data) /\ Range(data) \subseteq Range(Held(onNode.sections[n]))
    OBVIOUS
  <2>1. Held(onNode.sections[n]) = onNode.sections[n][1]
    BY <1>3 DEF Held
  <2>2. data = <<>> \/ data = Reverse(Held(onNode.sections[n]))
    BY <2>1, <1>4 DEF TouchedSection
  <2>3. ItemList(n, Held(onNode.sections[n]))
    BY <1>5 DEF SectionShape
  <2> QED BY <2>2, <2>3, ReverseKeeps, EmptyItems
<1>7. /\ SectionsTyped'
      /\ onNode.sections'[n] = <<data>> /\ Held(onNode.sections'[n]) = data
      /\ \A m \in DOMAIN wanted.sections : m # n => onNode.sections'[m] = onNode.sections[m]
  BY <1>1, <1>2, <1>4, <1>5, <1>6, SectionChanged
<1>8. ASSUME NEW m \in DOMAIN wanted.sections, AskedShape(m) PROVE AskedShape(m)'
  <2>1. Strategy(m) = "rewrites" =>
           Range(Held(onNode.sections'[m])) \subseteq Range(Held(onNode.sections[m]))
    <3>1. CASE m # n
      BY <3>1, <1>7
    <3>2. CASE m = n
      <4>1. Strategy(m) = "rewrites" => ~Keyed(m)
        BY DEF Keyed
      <4> QED BY <4>1, <3>2, <1>6, <1>7
    <3> QED BY <3>1, <3>2
  <2> QED BY <2>1, <1>8, <1>2 DEF AskedShape
<1>9. SectionShapes'
  BY <1>8, <1>1, <1>2 DEF SectionShapes, Working, Sending
<1>10. SectionsMid'
  BY <1>2 DEF SectionsMid, Working
<1> QED BY <1>2, <1>7, <1>9, <1>10 DEF SectionsInv

-----------------------------------------------------------------------------
(***************************************************************************)
(* Rules: they are written at once, or not.                                *)
(***************************************************************************)

RulesInv ==
    wanted.kind = "rules" =>
       /\ NodeParts(onNode) /\ PushShape
       /\ pushing.later = {} /\ pushing.then = <<>> /\ pushing.pc # "again"
       /\ pushing.pc = "send" => pushing.left = {Request("write", "rules")}
       /\ AtEnd /\ FailuresNamed

\* Without sections the push ends when nothing is left of it.
LEMMA PushOver ==
    ASSUME NEW p, Parts(p), p.later = {}
    PROVE  LET q == NextSection(p) IN
           /\ Parts(q) /\ q.pc = "end" /\ q.later = {} /\ q.then = p.then /\ q.left = p.left
           /\ q.failed = p.failed /\ q.touched = p.touched
BY DEF NextSection, Parts

\* Nothing differs of equal rules.
LEMMA RulesEqual ==
    ASSUME wanted.kind = "rules"
    PROVE  /\ SameRules(wanted.rules, onNode.rules) => \A failed : NamedBy(failed)
           /\ wanted.rules = onNode.rules => SameRules(wanted.rules, onNode.rules)
<1>1. SameRules(wanted.rules, onNode.rules) => Differences(onNode) = {}
  BY DEF SameRules, Differences
<1>2. wanted.rules = onNode.rules => SameRules(wanted.rules, onNode.rules)
  BY DEF SameRules
<1> QED BY <1>1, <1>2 DEF NamedBy, Settled

LEMMA RulesStep ==
    ASSUME wanted.kind = "rules", RulesInv, PayloadNext
    PROVE  RulesInv'
<1>1. /\ NodeParts(onNode) /\ PushShape /\ Parts(pushing)
      /\ pushing.later = {} /\ pushing.then = <<>> /\ pushing.pc # "again"
      /\ pushing.pc = "send" => pushing.left = {Request("write", "rules")}
      /\ AtEnd /\ FailuresNamed
  BY DEF RulesInv, PushShape
<1>2. CASE StartPayload
  <2>1. /\ wanted' = wanted /\ onNode' = onNode /\ outcome' = outcome
        /\ pushing' = [NoPushing EXCEPT !.pc = "read"]
    BY <1>2 DEF StartPayload
  <2>2. Parts(NoPushing) /\ NoPushing.then = <<>> /\ NoPushing.later = {} /\ NoPushing.touched = FALSE
    BY DEF NoPushing, Parts
  <2>3. /\ Parts(pushing') /\ pushing'.pc = "read" /\ pushing'.then = <<>> /\ pushing'.later = {}
        /\ pushing'.touched = FALSE
    BY <2>1, <2>2 DEF Parts
  <2>4. PushShape' /\ AtEnd' /\ FailuresNamed'
    BY <2>1, <2>3, <1>1, StillNamed DEF PushShape, AtEnd
  <2> QED BY <2>1, <2>3, <2>4, <1>1 DEF RulesInv
<1>3. CASE ReadNode
  <2>n. PICK left : left = IF SameRules(wanted.rules, onNode.rules) THEN {} ELSE {Request("write", "rules")}
    OBVIOUS
  <2>p. PICK p : p = [pushing EXCEPT !.left = left]
    OBVIOUS
  <2>1. /\ wanted' = wanted /\ onNode' = onNode /\ outcome' = outcome
        /\ pushing' = IF left # {} THEN [p EXCEPT !.pc = "send"] ELSE NextSection(p)
    BY <1>3, <2>n, <2>p DEF ReadNode
  <2>2. /\ Parts(p) /\ p.left = left /\ p.then = <<>> /\ p.later = {} /\ p.touched = pushing.touched
    BY <1>1, <2>p DEF Parts
  <2>3. CASE left # {}
    <3>1. /\ Parts(pushing') /\ pushing'.pc = "send" /\ pushing'.then = <<>> /\ pushing'.later = {}
          /\ pushing'.touched = pushing.touched /\ pushing'.left = {Request("write", "rules")}
      BY <2>1, <2>2, <2>3, <2>n DEF Parts
    <3>2. PushShape' /\ AtEnd' /\ FailuresNamed'
      BY <2>1, <3>1, <1>1, StillNamed DEF PushShape, AtEnd
    <3> QED BY <2>1, <3>1, <3>2, <1>1 DEF RulesInv
  <2>4. CASE left = {}
    <3>1. /\ Parts(pushing') /\ pushing'.pc = "end" /\ pushing'.then = <<>> /\ pushing'.later = {}
          /\ pushing'.touched = pushing.touched
      BY <2>1, <2>2, <2>4, PushOver
    <3>2. SameRules(wanted.rules, onNode.rules)
      BY <2>n, <2>4
    <3>3. \A failed : NamedBy(failed)'
      BY <3>2, <2>1, RulesEqual, SectionsSame
    <3>4. PushShape' /\ AtEnd' /\ FailuresNamed'
      BY <2>1, <3>1, <3>3, <1>1, StillNamed DEF PushShape, AtEnd
    <3> QED BY <2>1, <3>1, <3>4, <1>1 DEF RulesInv
  <2> QED BY <2>3, <2>4
<1>4. ~ReadAgain
  BY <1>1 DEF ReadAgain, Pushing
<1>5. CASE EndPayload
  <2>1. FailuresNamed' /\ PushShape' /\ pushing' = NoPushing
    BY <1>1, <1>5, EndNames
  <2>2. wanted' = wanted /\ onNode' = onNode
    BY <1>5 DEF EndPayload
  <2>3. NoPushing.then = <<>> /\ NoPushing.later = {} /\ NoPushing.pc = "rest"
    BY DEF NoPushing
  <2> QED BY <2>1, <2>2, <2>3, <1>1 DEF RulesInv, AtEnd
<1>6. ASSUME NEW r \in pushing.left \union Range(pushing.then),
             RequestDone(r) \/ RequestRefused(r) \/ RequestLost(r)
      PROVE  RulesInv'
  <2>1. pushing.pc = "send" /\ r \in pushing.left /\ wanted' = wanted /\ outcome' = outcome
    BY <1>1, <1>6 DEF RequestDone, RequestRefused, RequestLost, NextRequest, Pushing
  <2>2. pushing.left \ {r} = {}
    BY <2>1, <1>1
  <2>3. onNode' = onNode \/ onNode' = [onNode EXCEPT !.rules = wanted.rules]
    BY <1>6 DEF RequestDone, RequestRefused, RequestLost, Applied
  <2>4. NodeParts(onNode')
    <3>1. CASE onNode' = onNode
      BY <3>1, <1>1
    <3>2. CASE onNode' = [onNode EXCEPT !.rules = wanted.rules]
      BY <3>2, <1>1 DEF NodeParts, Chosen
    <3> QED BY <3>1, <3>2, <2>3
  <2>5. CASE RequestDone(r)
    <3>p. PICK p : p = [pushing EXCEPT !.left = {}, !.then = <<>>]
      OBVIOUS
    <3>1. Parts(p) /\ p.left = {} /\ p.then = <<>> /\ p.later = {} /\ p.touched = pushing.touched
      BY <3>p, <1>1 DEF Parts
    <3>2. pushing' = NextSection(p)
      BY <2>5, <2>2, <3>p, <3>1 DEF RequestDone, Succeeded, Continue
    <3>3. /\ Parts(pushing') /\ pushing'.pc = "end" /\ pushing'.then = <<>> /\ pushing'.later = {}
          /\ pushing'.touched = pushing.touched
      BY <3>1, <3>2, PushOver
    <3>4. onNode'.rules = wanted.rules
      BY <2>5, <1>1 DEF RequestDone, Applied, NodeParts, Chosen
    <3>5. \A failed : NamedBy(failed)'
      <4>1. (wanted.kind = "rules" /\ wanted.rules = onNode.rules)'
        BY <2>1, <3>4
      <4>2. Differences(onNode)' = {}
        BY <4>1 DEF Differences
      <4> QED BY <4>1, <4>2 DEF NamedBy, Settled
    <3>6. PushShape' /\ AtEnd' /\ FailuresNamed'
      BY <2>1, <3>3, <3>5, <1>1, StillNamed DEF PushShape, AtEnd
    <3> QED BY <2>1, <2>4, <3>3, <3>6 DEF RulesInv
  <2>6. CASE RequestRefused(r) \/ RequestLost(r)
    <3>1. pushing' = [pushing EXCEPT !.pc = "end", !.left = {}, !.later = {},
                                     !.failed = {pushing.section}]
      BY <2>6 DEF RequestRefused, RequestLost, Failed
    <3>2. /\ Parts(pushing') /\ pushing'.pc = "end" /\ pushing'.then = <<>> /\ pushing'.later = {}
          /\ pushing'.touched = pushing.touched /\ pushing'.failed # {}
      BY <3>1, <1>1 DEF Parts
    <3>3. PushShape' /\ FailuresNamed'
      BY <2>1, <3>2, <1>1, StillNamed DEF PushShape
    <3>4. AtEnd'
      BY <3>2, <2>1 DEF AtEnd, NamedBy
    <3> QED BY <2>1, <2>4, <3>2, <3>3, <3>4 DEF RulesInv
  <2> QED BY <1>6, <2>5, <2>6
<1>7. CASE Touch
  <2>1. /\ PushShape' /\ pushing'.pc = pushing.pc
        /\ pushing'.later = pushing.later
        /\ pushing'.left = pushing.left /\ pushing'.then = pushing.then
        /\ AtEnd' /\ FailuresNamed' /\ wanted' = wanted
    BY <1>1, <1>7, TouchedSilent
  <2>2. PICK rules : onNode' = [onNode EXCEPT !.rules = rules]
    BY <1>7 DEF Touch
  <2>3. NodeParts(onNode')
    BY <2>2, <1>1 DEF NodeParts, Chosen
  <2> QED BY <2>1, <2>3, <1>1 DEF RulesInv
<1> QED BY <1>2, <1>3, <1>4, <1>5, <1>6, <1>7 DEF PayloadNext

-----------------------------------------------------------------------------
(***************************************************************************)
(* Subscriptions, one request after another: while nobody touches the      *)
(* node, each that differs is still asked for or is noted as failed.       *)
(***************************************************************************)

SetNow(l) == <<Request("set", l)>>

ListsAsked ==
    \A r \in pushing.left :
       \/ r.op \in {"add", "set"} /\ r.item \in DOMAIN wanted.lists
       \/ r.op = "remove" /\ r.item \notin DOMAIN wanted.lists

ListsInv ==
    wanted.kind = "filters" =>
       /\ NodeParts(onNode) /\ PushShape
       /\ \A l \in DOMAIN wanted.lists : wanted.lists[l] \in BOOLEAN
       /\ pushing.later = {} /\ pushing.pc # "again"
       /\ pushing.then = <<>> \/ \E l \in DOMAIN wanted.lists : pushing.then = SetNow(l)
       /\ pushing.pc # "send" => pushing.then = <<>>
       /\ pushing.pc = "send" => ListsAsked
       /\ pushing.pc = "send" /\ ~pushing.touched =>
             Differences(onNode) \subseteq
                {r.item : r \in pushing.left \union Range(pushing.then)} \union pushing.failed
       /\ AtEnd /\ FailuresNamed

\* A subscription differs that one side lacks or has switched otherwise.
ListDiffers(l) ==
    l \in DOMAIN wanted.lists \union DOMAIN onNode.lists /\
    (l \in DOMAIN wanted.lists \intersect DOMAIN onNode.lists
        => wanted.lists[l] # onNode.lists[l])

\* A push of subscriptions that names those that differ has named enough.
LEMMA ListsDiffering ==
    ASSUME wanted.kind = "filters"
    PROVE  /\ \A l : l \in Differences(onNode) <=> ListDiffers(l)
           /\ \A failed : NamedBy(failed) <=> Differences(onNode) \subseteq failed
<1>1. \A l : l \in Differences(onNode) <=> ListDiffers(l)
  BY DEF Differences, ListDiffers
<1>2. Settled <=> Differences(onNode) \subseteq Unfetchable
  BY DEF Settled
<1> QED BY <1>1, <1>2 DEF NamedBy

\* What is asked of a node covers what differs.
LEMMA ListsRead ==
    ASSUME wanted.kind = "filters", NEW left, left = ListRequests(onNode.lists)
    PROVE  /\ \A r \in left : \/ r.op \in {"add", "set"} /\ r.item \in DOMAIN wanted.lists
                              \/ r.op = "remove" /\ r.item \notin DOMAIN wanted.lists
           /\ Differences(onNode) \subseteq {r.item : r \in left}
<1> DEFINE W == DOMAIN wanted.lists
           N == DOMAIN onNode.lists
<1>1. \A op, item : Request(op, item).item = item /\ Request(op, item).op = op
  BY DEF Request
<1>2. \A r \in left : \/ \E l \in W : r = Request("add", l) \/ r = Request("set", l)
                      \/ \E l \in N \ W : r = Request("remove", l)
  BY DEF ListRequests
<1>3. \A l : ListDiffers(l) => \/ Request("add", l) \in left
                               \/ Request("set", l) \in left
                               \/ Request("remove", l) \in left
  BY DEF ListDiffers, ListRequests
<1>4. \A l \in Differences(onNode) : \E r \in left : r.item = l
  BY <1>1, <1>3, ListsDiffering
<1>5. \A r \in left : \/ r.op \in {"add", "set"} /\ r.item \in W
                      \/ r.op = "remove" /\ r.item \notin W
  BY <1>1, <1>2
<1> QED BY <1>4, <1>5

\* A request that is carried out changes its own subscription alone, and that one as wanted.
LEMMA ListWritten ==
    ASSUME wanted.kind = "filters", wanted' = wanted, NodeParts(onNode),
           \A l \in DOMAIN wanted.lists : wanted.lists[l] \in BOOLEAN,
           NEW r, Applied(r), ~Refusable(r),
           \/ r.op \in {"add", "set"} /\ r.item \in DOMAIN wanted.lists
           \/ r.op = "remove" /\ r.item \notin DOMAIN wanted.lists
    PROVE  /\ NodeParts(onNode')
           /\ \A l : l # r.item => (l \in Differences(onNode)' <=> l \in Differences(onNode))
           /\ ~(r.op = "add" /\ ~wanted.lists[r.item]) => r.item \notin Differences(onNode)'
<1>n. PICK new : new = WrittenList(onNode.lists, r)
  OBVIOUS
<1>1. onNode' = [onNode EXCEPT !.lists = new]
  BY <1>n DEF Applied
<1>2. NodeParts(onNode') /\ onNode'.lists = new
  BY <1>1 DEF NodeParts, Chosen
<1>3. /\ \A l : l # r.item => (l \in DOMAIN new <=> l \in DOMAIN onNode.lists)
      /\ \A l \in DOMAIN new : l # r.item => new[l] = onNode.lists[l]
      /\ r.op = "add" => r.item \in DOMAIN new /\ new[r.item] = TRUE
      /\ r.op = "set" => r.item \in DOMAIN new /\ new[r.item] = wanted.lists[r.item]
      /\ r.op = "remove" => r.item \notin DOMAIN new
  <2>1. CASE r.op = "add"
    <3>1. new = [l \in DOMAIN onNode.lists \union {r.item} |->
                    IF l = r.item THEN TRUE ELSE onNode.lists[l]]
      BY <2>1, <1>n DEF WrittenList
    <3> QED BY <3>1, <2>1
  <2>2. CASE r.op = "set"
    <3>1. new = [onNode.lists EXCEPT ![r.item] = wanted.lists[r.item]]
      BY <2>2, <1>n DEF WrittenList
    <3>2. r.item \in DOMAIN onNode.lists
      BY <2>2 DEF Refusable
    <3> QED BY <3>1, <3>2, <2>2
  <2>3. CASE r.op = "remove"
    <3>1. new = [l \in DOMAIN onNode.lists \ {r.item} |-> onNode.lists[l]]
      BY <2>3, <1>n DEF WrittenList, Restrict
    <3> QED BY <3>1, <2>3
  <2> QED BY <2>1, <2>2, <2>3
<1>4. \A l : l \in Differences(onNode)' <=>
             /\ l \in DOMAIN wanted.lists \union DOMAIN new
             /\ l \in DOMAIN wanted.lists \intersect DOMAIN new => wanted.lists[l] # new[l]
  BY <1>2 DEF Differences
<1>5. \A l : l # r.item => (l \in Differences(onNode)' <=> l \in Differences(onNode))
  BY <1>3, <1>4, ListsDiffering DEF ListDiffers
<1>6. ~(r.op = "add" /\ ~wanted.lists[r.item]) => r.item \notin Differences(onNode)'
  BY <1>3, <1>4
<1> QED BY <1>2, <1>5, <1>6

\* The push goes on with what is left, or ends with what has failed.
LEMMA ListsGoOn ==
    ASSUME wanted.kind = "filters", wanted' = wanted,
           NEW p, Parts(p), p.pc = "send", p.later = {}, pushing' = Continue(p)
    PROVE  /\ Parts(pushing') /\ pushing'.later = {} /\ pushing'.touched = p.touched
           /\ pushing'.left = p.left /\ pushing'.then = p.then /\ pushing'.failed = p.failed
           /\ pushing'.pc \in {"send", "end"}
           /\ pushing'.pc = "end" => p.left = {} /\ p.then = <<>>
<1>1. CASE p.left = {} /\ p.then = <<>>
  BY <1>1, PushOver DEF Continue
<1>2. CASE ~(p.left = {} /\ p.then = <<>>)
  BY <1>2 DEF Continue
<1> QED BY <1>1, <1>2

\* A request that is carried out, refused or lost leaves none unaccounted for.
LEMMA ListsRequest ==
    ASSUME wanted.kind = "filters", ListsInv,
           NEW r \in pushing.left \union Range(pushing.then),
           RequestDone(r) \/ RequestRefused(r) \/ RequestLost(r)
    PROVE  ListsInv'
<1>1. /\ NodeParts(onNode) /\ PushShape /\ Parts(pushing)
      /\ \A l \in DOMAIN wanted.lists : wanted.lists[l] \in BOOLEAN
      /\ pushing.later = {}
      /\ pushing.then = <<>> \/ \E l \in DOMAIN wanted.lists : pushing.then = SetNow(l)
      /\ FailuresNamed
  BY DEF ListsInv, PushShape
<1>2. /\ pushing.pc = "send" /\ wanted' = wanted /\ outcome' = outcome
      /\ NextRequest(r)
  BY DEF RequestDone, RequestRefused, RequestLost, Pushing
<1>3. /\ ListsAsked
      /\ ~pushing.touched =>
            Differences(onNode) \subseteq
               {q.item : q \in pushing.left \union Range(pushing.then)} \union pushing.failed
  BY <1>2 DEF ListsInv
<1>4. Range(pushing.then) \subseteq {r}
  <2>1. CASE pushing.then = <<>>
    BY <2>1 DEF Range
  <2>2. CASE pushing.then # <<>>
    <3>1. PICK l : pushing.then = SetNow(l)
      BY <1>1, <2>2
    <3>2. r = pushing.then[1]
      BY <2>2, <1>2 DEF NextRequest
    <3>3. \A q \in Range(pushing.then) : q = pushing.then[1]
      BY <3>1 DEF SetNow, Range
    <3> QED BY <3>2, <3>3
  <2> QED BY <2>1, <2>2
<1>5. \/ r.op \in {"add", "set"} /\ r.item \in DOMAIN wanted.lists
      \/ r.op = "remove" /\ r.item \notin DOMAIN wanted.lists
  <2>1. CASE pushing.then = <<>>
    <3>1. r \in pushing.left
      BY <2>1, <1>2 DEF NextRequest
    <3> QED BY <3>1, <1>3 DEF ListsAsked
  <2>2. CASE pushing.then # <<>>
    <3>1. PICK l \in DOMAIN wanted.lists : pushing.then = SetNow(l)
      BY <1>1, <2>2
    <3>2. r = pushing.then[1]
      BY <2>2, <1>2 DEF NextRequest
    <3>3. r = Request("set", l)
      BY <3>1, <3>2 DEF SetNow
    <3> QED BY <3>3 DEF Request
  <2> QED BY <2>1, <2>2
<1>6. ~pushing.touched =>
         \A l \in Differences(onNode) :
            \/ l = r.item \/ l \in pushing.failed
            \/ \E q \in pushing.left \ {r} : q.item = l
  BY <1>3, <1>4
<1>7. /\ NodeParts(onNode')
      /\ \A l : l # r.item => (l \in Differences(onNode)' <=> l \in Differences(onNode))
  <2>1. CASE onNode' = onNode
    <3>1. Differences(onNode)' = Differences(onNode)
      BY <2>1, <1>2 DEF Differences
    <3> QED BY <2>1, <3>1, <1>1
  <2>2. CASE Applied(r) /\ ~Refusable(r)
    BY <2>2, <1>1, <1>2, <1>5, ListWritten
  <2> QED BY <2>1, <2>2 DEF RequestDone, RequestRefused, RequestLost
<1>8. pushing.touched \in BOOLEAN
  BY <1>1 DEF PushShape
<1>9. ASSUME NEW p, Parts(p), p.pc = "send", p.later = {}, p.touched = pushing.touched,
             p.left = pushing.left \ {r},
             p.then = <<>> \/ \E l \in DOMAIN wanted.lists : p.then = SetNow(l),
             pushing' = Continue(p),
             ~pushing.touched =>
                 Differences(onNode)' \subseteq
                    {q.item : q \in p.left \union Range(p.then)} \union p.failed
      PROVE  ListsInv'
  <2>1. /\ Parts(pushing') /\ pushing'.later = {} /\ pushing'.touched = p.touched
        /\ pushing'.left = p.left /\ pushing'.then = p.then /\ pushing'.failed = p.failed
        /\ pushing'.pc \in {"send", "end"}
        /\ pushing'.pc = "end" => p.left = {} /\ p.then = <<>>
    BY <1>9, <1>2, ListsGoOn
  <2>2. PushShape' /\ FailuresNamed'
    BY <2>1, <1>1, <1>2, <1>8, <1>9, StillNamed DEF PushShape
  <2>3. ListsAsked'
    BY <2>1, <1>2, <1>3, <1>9 DEF ListsAsked
  <2>4. pushing'.pc = "end" /\ ~pushing.touched => Differences(onNode)' \subseteq p.failed
    <3>1. p.left = {} /\ p.then = <<>> => {q.item : q \in p.left \union Range(p.then)} = {}
      BY DEF Range
    <3> QED BY <3>1, <2>1, <1>9
  <2>5. AtEnd'
    <3>1. (wanted.kind = "filters")'
      BY <1>2
    <3>2. (\A failed : NamedBy(failed) <=> Differences(onNode) \subseteq failed)'
      BY <3>1 DEF NamedBy, Settled
    <3>3. pushing'.pc = "end" /\ ~pushing'.touched => Differences(onNode)' \subseteq pushing'.failed
      BY <2>4, <2>1, <1>9
    <3> QED BY <3>2, <3>3 DEF AtEnd
  <2>6. pushing'.pc = "send" /\ ~pushing'.touched =>
             Differences(onNode)' \subseteq
                {q.item : q \in pushing'.left \union Range(pushing'.then)} \union pushing'.failed
    BY <2>1, <1>9
  <2>7. /\ pushing'.then = <<>> \/ \E l \in DOMAIN wanted.lists : pushing'.then = SetNow(l)
        /\ pushing'.pc # "send" => pushing'.then = <<>>
    BY <2>1, <1>9
  <2> QED BY <2>1, <2>2, <2>3, <2>5, <2>6, <2>7, <1>1, <1>2, <1>7 DEF ListsInv
<1>10. CASE RequestDone(r)
  <2>t. PICK then : then = IF r.op = "add" /\ ~wanted.lists[r.item] THEN SetNow(r.item) ELSE <<>>
    OBVIOUS
  <2>p. PICK p : p = [pushing EXCEPT !.left = pushing.left \ {r}, !.then = then]
    OBVIOUS
  <2>1. /\ Parts(p) /\ p.pc = "send" /\ p.later = {} /\ p.touched = pushing.touched
        /\ p.left = pushing.left \ {r} /\ p.then = then /\ p.failed = pushing.failed
    BY <2>p, <1>1, <1>2 DEF Parts
  <2>2. pushing' = Continue(p)
    BY <1>10, <2>t, <2>p DEF RequestDone, Succeeded, SetNow
  <2>3. p.then = <<>> \/ \E l \in DOMAIN wanted.lists : p.then = SetNow(l)
    BY <2>1, <2>t, <1>5
  <2>4. ~(r.op = "add" /\ ~wanted.lists[r.item]) => r.item \notin Differences(onNode)'
    BY <1>10, <1>1, <1>2, <1>5, ListWritten DEF RequestDone
  <2>5. r.op = "add" /\ ~wanted.lists[r.item] => \E q \in Range(p.then) : q.item = r.item
    <3>1. Request("set", r.item) \in Range(SetNow(r.item)) /\ Request("set", r.item).item = r.item
      BY DEF Request, Range, SetNow
    <3> QED BY <3>1, <2>1, <2>t
  <2>6. ~pushing.touched =>
                 Differences(onNode)' \subseteq
                    {q.item : q \in p.left \union Range(p.then)} \union p.failed
    <3> SUFFICES ASSUME ~pushing.touched, NEW l \in Differences(onNode)'
                 PROVE  \/ l \in p.failed
                        \/ \E q \in p.left \union Range(p.then) : q.item = l
      OBVIOUS
    <3>1. CASE l = r.item
      BY <3>1, <2>4, <2>5
    <3>2. CASE l # r.item
      BY <3>2, <1>6, <1>7, <2>1
    <3> QED BY <3>1, <3>2
  <2> QED BY <2>1, <2>2, <2>3, <2>6, <1>9
<1>11. CASE RequestRefused(r) \/ RequestLost(r)
  <2>p. PICK p : p = [pushing EXCEPT !.left = pushing.left \ {r}, !.then = <<>>,
                                     !.failed = pushing.failed \union {r.item}]
    OBVIOUS
  <2>1. /\ Parts(p) /\ p.pc = "send" /\ p.later = {} /\ p.touched = pushing.touched
        /\ p.left = pushing.left \ {r} /\ p.then = <<>> /\ p.failed = pushing.failed \union {r.item}
    BY <2>p, <1>1, <1>2 DEF Parts
  <2>2. pushing' = Continue(p)
    BY <1>11, <2>p DEF RequestRefused, RequestLost, Failed
  <2>3. ~pushing.touched =>
                 Differences(onNode)' \subseteq
                    {q.item : q \in p.left \union Range(p.then)} \union p.failed
    <3> SUFFICES ASSUME ~pushing.touched, NEW l \in Differences(onNode)'
                 PROVE  \/ l \in p.failed
                        \/ \E q \in p.left \union Range(p.then) : q.item = l
      OBVIOUS
    <3>1. CASE l = r.item
      BY <3>1, <2>1
    <3>2. CASE l # r.item
      BY <3>2, <1>6, <1>7, <2>1
    <3> QED BY <3>1, <3>2
  <2> QED BY <2>1, <2>2, <2>3, <1>9
<1> QED BY <1>10, <1>11

LEMMA ListsStep ==
    ASSUME wanted.kind = "filters", ListsInv, PayloadNext
    PROVE  ListsInv'
<1>1. /\ NodeParts(onNode) /\ PushShape /\ Parts(pushing)
      /\ \A l \in DOMAIN wanted.lists : wanted.lists[l] \in BOOLEAN
      /\ pushing.later = {} /\ pushing.pc # "again"
      /\ pushing.then = <<>> \/ \E l \in DOMAIN wanted.lists : pushing.then = SetNow(l)
      /\ pushing.pc # "send" => pushing.then = <<>>
      /\ AtEnd /\ FailuresNamed
  BY DEF ListsInv, PushShape
<1>2. CASE StartPayload
  <2>1. /\ wanted' = wanted /\ onNode' = onNode /\ outcome' = outcome
        /\ pushing' = [NoPushing EXCEPT !.pc = "read"]
    BY <1>2 DEF StartPayload
  <2>2. Parts(NoPushing) /\ NoPushing.then = <<>> /\ NoPushing.later = {} /\ NoPushing.touched = FALSE
    BY DEF NoPushing, Parts
  <2>3. /\ Parts(pushing') /\ pushing'.pc = "read" /\ pushing'.then = <<>> /\ pushing'.later = {}
        /\ pushing'.touched = FALSE
    BY <2>1, <2>2 DEF Parts
  <2>4. PushShape' /\ AtEnd' /\ FailuresNamed'
    BY <2>1, <2>3, <1>1, StillNamed DEF PushShape, AtEnd
  <2> QED BY <2>1, <2>3, <2>4, <1>1 DEF ListsInv
<1>3. CASE ReadNode
  <2>n. PICK left : left = ListRequests(onNode.lists)
    OBVIOUS
  <2>p. PICK p : p = [pushing EXCEPT !.left = left]
    OBVIOUS
  <2>1. /\ pushing.pc = "read" /\ wanted' = wanted /\ onNode' = onNode /\ outcome' = outcome
        /\ pushing' = IF left # {} THEN [p EXCEPT !.pc = "send"] ELSE NextSection(p)
    BY <1>3, <2>n, <2>p DEF ReadNode, Pushing
  <2>2. /\ Parts(p) /\ p.left = left /\ p.then = <<>> /\ p.later = {} /\ p.touched = pushing.touched
    BY <1>1, <2>1, <2>p DEF Parts
  <2>3. /\ \A r \in left : \/ r.op \in {"add", "set"} /\ r.item \in DOMAIN wanted.lists
                           \/ r.op = "remove" /\ r.item \notin DOMAIN wanted.lists
        /\ Differences(onNode) \subseteq {r.item : r \in left}
    BY <2>n, ListsRead
  <2>4. Differences(onNode)' = Differences(onNode)
    BY <2>1 DEF Differences
  <2>5. CASE left # {}
    <3>1. /\ Parts(pushing') /\ pushing'.pc = "send" /\ pushing'.then = <<>> /\ pushing'.later = {}
          /\ pushing'.touched = pushing.touched /\ pushing'.left = left
      BY <2>1, <2>2, <2>5 DEF Parts
    <3>2. PushShape' /\ AtEnd' /\ FailuresNamed'
      BY <2>1, <3>1, <1>1, StillNamed DEF PushShape, AtEnd
    <3>3. ListsAsked'
      BY <2>1, <2>3, <3>1 DEF ListsAsked
    <3>4. Differences(onNode)' \subseteq
                {r.item : r \in pushing'.left \union Range(pushing'.then)} \union pushing'.failed
      BY <2>3, <2>4, <3>1
    <3> QED BY <2>1, <3>1, <3>2, <3>3, <3>4, <1>1 DEF ListsInv
  <2>6. CASE left = {}
    <3>1. /\ Parts(pushing') /\ pushing'.pc = "end" /\ pushing'.then = <<>> /\ pushing'.later = {}
          /\ pushing'.touched = pushing.touched
      BY <2>1, <2>2, <2>6, PushOver
    <3>2. \A failed : NamedBy(failed)
      BY <2>3, <2>6, ListsDiffering
    <3>3. \A failed : NamedBy(failed)'
      BY <3>2, <2>1, SectionsSame
    <3>4. PushShape' /\ AtEnd' /\ FailuresNamed'
      BY <2>1, <3>1, <3>3, <1>1, StillNamed DEF PushShape, AtEnd
    <3> QED BY <2>1, <3>1, <3>4, <1>1 DEF ListsInv
  <2> QED BY <2>5, <2>6
<1>4. ~ReadAgain
  BY <1>1 DEF ReadAgain, Pushing
<1>5. CASE EndPayload
  <2>1. FailuresNamed' /\ PushShape' /\ pushing' = NoPushing
    BY <1>1, <1>5, EndNames
  <2>2. wanted' = wanted /\ onNode' = onNode
    BY <1>5 DEF EndPayload
  <2>3. NoPushing.then = <<>> /\ NoPushing.later = {} /\ NoPushing.pc = "rest"
    BY DEF NoPushing
  <2> QED BY <2>1, <2>2, <2>3, <1>1 DEF ListsInv, AtEnd
<1>6. CASE \E r \in pushing.left \union Range(pushing.then) :
             RequestDone(r) \/ RequestRefused(r) \/ RequestLost(r)
  BY <1>6, ListsRequest
<1>7. CASE Touch
  <2>1. /\ PushShape' /\ pushing'.pc = pushing.pc
        /\ pushing.pc # "rest" => pushing'.touched
        /\ pushing'.later = pushing.later
        /\ pushing'.left = pushing.left /\ pushing'.then = pushing.then
        /\ AtEnd' /\ FailuresNamed' /\ wanted' = wanted
    BY <1>1, <1>7, TouchedSilent
  <2>2. PICK lists : onNode' = [onNode EXCEPT !.lists = lists]
    BY <1>7 DEF Touch
  <2>3. NodeParts(onNode')
    BY <2>2, <1>1 DEF NodeParts, Chosen
  <2>4. pushing.pc = "send" => ListsAsked'
    BY <2>1 DEF ListsInv, ListsAsked
  <2>5. pushing'.pc = "send" => pushing'.touched
    BY <2>1
  <2> QED BY <2>1, <2>3, <2>4, <2>5, <1>1 DEF ListsInv
<1> QED BY <1>2, <1>3, <1>4, <1>5, <1>6, <1>7 DEF PayloadNext

LEMMA SectionsStep ==
    ASSUME wanted.kind = "settings", SectionsInv, PayloadNext
    PROVE  SectionsInv'
BY SectionsStart, SectionsRead, SectionsReadAgain, SectionsEnd, SectionsDone, SectionsFailed,
   SectionsTouched DEF PayloadNext

-----------------------------------------------------------------------------
(***************************************************************************)
(* Every push begins like that.                                            *)
(***************************************************************************)

\* The data a section may start with.
LEMMA ItemsGiven ==
    ASSUME NEW n \in SectionNames, ~Keyed(n), NEW d \in WantedSection(n)
    PROVE  ItemList(n, d)
<1>1. n # "blocked_services"
  BY EachStrategy DEF Keyed
<1>2. CASE Strategy(n) = "clients"
  <2>1. d \in {<<>>, <<[name |-> "a", use |-> "on"]>>,
               <<[name |-> "a", use |-> "off"], [name |-> "b", use |-> "on"]>>}
    BY <1>1, <1>2 DEF WantedSection
  <2>2. d \in Seq(ClientItems)
    <3>1. <<>> \in Seq(ClientItems)
      OBVIOUS
    <3>2. \A x, y \in ClientItems : <<x>> \in Seq(ClientItems) /\ <<x, y>> \in Seq(ClientItems)
      OBVIOUS
    <3>3. \A m \in {"a", "b"}, u \in {"on", "off"} : [name |-> m, use |-> u] \in ClientItems
      BY DEF ClientItems
    <3> QED BY <2>1, <3>1, <3>2, <3>3
  <2>3. \A i, j \in DOMAIN d : d[i].name = d[j].name => i = j
    BY <2>1
  <2> QED BY <2>2, <2>3, <1>2 DEF ItemList, Items, Once, Tag
<1>3. CASE Strategy(n) = "rewrites"
  <2>1. d \in {<<>>, <<"x">>, <<"x", "y">>}
    BY <1>1, <1>3 DEF WantedSection
  <2>2. d \in Seq({"x", "y"})
    <3>1. <<>> \in Seq({"x", "y"})
      OBVIOUS
    <3>2. <<"x">> \in Seq({"x", "y"}) /\ <<"x", "y">> \in Seq({"x", "y"})
      OBVIOUS
    <3> QED BY <2>1, <3>1, <3>2
  <2>3. \A i, j \in DOMAIN d : d[i] = d[j] => i = j
    BY <2>1
  <2> QED BY <2>2, <2>3, <1>3 DEF ItemList, Items, Once, Tag
<1> QED BY <1>2, <1>3, SectionIs

LEMMA KeysGiven ==
    ASSUME NEW n \in SectionNames, Keyed(n), NEW d \in WantedSection(n)
    PROVE  /\ \A k \in DOMAIN d : d[k] \in {"Local", ""} => n = "blocked_services" /\ k = "time_zone"
           /\ DOMAIN d # {}
<1> DEFINE Plain(x) == (\A k \in DOMAIN x : x[k] \notin {"Local", ""}) /\ DOMAIN x # {}
<1>1. CASE n = "blocked_services" /\ d \in [ids : {"on"}, time_zone : {"Local", "", "UTC"}]
  BY <1>1
<1>2. \A x \in [ids : {"on", "off"}] : Plain(x)
  OBVIOUS
<1>3. \A x \in [ids : {"on"}, other : {"on"}] : Plain(x)
  OBVIOUS
<1>4. \A x \in [other : {"on"}] : Plain(x)
  OBVIOUS
<1>5. \A x \in [enabled : {"on", "off", "yes"}] : Plain(x)
  OBVIOUS
<1>6. CASE ~(n = "blocked_services" /\ d \in [ids : {"on"}, time_zone : {"Local", "", "UTC"}])
  <2>2. \/ d \in [ids : {"on", "off"}] \/ d \in [ids : {"on"}, other : {"on"}]
        \/ d \in [other : {"on"}] \/ d \in [enabled : {"on", "off", "yes"}]
    <3> HIDE DEF Plain
    <3>1. CASE Strategy(n) = "document"
      <4>1. d \in WantedDocument(n)
        BY <3>1 DEF WantedSection
      <4> QED BY <4>1, <1>6, Zenon DEF WantedDocument
    <3>2. CASE Strategy(n) = "toggle"
      <4>1. WantedSection(n) = [enabled : {"on", "off", "yes"}] \union [other : {"on"}]
        BY <3>2 DEF WantedSection
      <4> QED BY <4>1
    <3> QED BY <3>1, <3>2, SectionIs
  <2>3. Plain(d)
    BY <2>2, <1>2, <1>3, <1>4, <1>5
  <2> QED BY <2>3
<1> QED BY <1>1, <1>6

LEMMA ShapeGiven ==
    ASSUME NEW n \in SectionNames, NEW w \in WantedSection(n),
           NEW a \in {<<>>} \union {<<d>> : d \in HeldSection(n)}
    PROVE  /\ Keyed(n) => \A k \in DOMAIN w :
                 w[k] \in {"Local", ""} => n = "blocked_services" /\ k = "time_zone"
           /\ Strategy(n) = "toggle" => DOMAIN w # {}
           /\ ~Keyed(n) => ItemList(n, w) /\ ItemList(n, Held(a))
           /\ a = <<>> \/ a = <<a[1]>>
<1>1. ~Keyed(n) => HeldSection(n) = WantedSection(n)
  BY DEF HeldSection, Keyed
<1>2. ~Keyed(n) => ItemList(n, Held(a))
  <2>1. CASE a = <<>>
    BY <2>1, EmptyItems DEF Held
  <2>2. CASE a # <<>>
    <3>1. PICK d \in HeldSection(n) : a = <<d>>
      BY <2>2
    <3>2. Held(a) = d
      BY <3>1 DEF Held
    <3> QED BY <3>2, <1>1, ItemsGiven
  <2> QED BY <2>1, <2>2
<1>3. Keyed(n) => /\ \A k \in DOMAIN w :
                        w[k] \in {"Local", ""} => n = "blocked_services" /\ k = "time_zone"
                  /\ DOMAIN w # {}
  BY KeysGiven
<1>4. Strategy(n) = "toggle" => DOMAIN w # {}
  BY <1>3 DEF Keyed
<1>5. a = <<>> \/ a = <<a[1]>>
  OBVIOUS
<1> QED BY <1>2, <1>3, <1>4, <1>5, ItemsGiven

PushesInv == RulesInv /\ ListsInv /\ SectionsInv /\ wanted.kind \in PayloadKinds

LEMMA PushesInitHolds == PayloadInit => PushesInv
<1> SUFFICES ASSUME PayloadInit PROVE PushesInv
  OBVIOUS
<1>1. pushing = NoPushing /\ outcome = NoOutcome
  BY DEF PayloadInit
<1>2. /\ PushShape /\ pushing.pc = "rest" /\ pushing.then = <<>> /\ pushing.later = {}
  BY <1>1 DEF NoPushing, NoOutcome, PushShape, Parts
<1>3. FailuresNamed /\ AtEnd
  BY <1>1, <1>2 DEF FailuresNamed, NoOutcome, AtEnd
<1>4. CASE \E w \in RuleSets, n \in SeqOf(RuleTexts, 3) :
             /\ wanted = Chosen("rules", w, <<>>, <<>>)
             /\ onNode = Chosen("rules", n, <<>>, <<>>)
  <2>1. wanted.kind = "rules" /\ NodeParts(onNode)
    BY <1>4, ChosenParts
  <2> QED BY <2>1, <1>2, <1>3 DEF PushesInv, RulesInv, ListsInv, SectionsInv, PayloadKinds
<1>5. CASE \E w, n \in ListSets :
             /\ wanted = Chosen("filters", <<>>, w, <<>>)
             /\ onNode = Chosen("filters", <<>>, n, <<>>)
  <2>1. PICK w \in ListSets : wanted = Chosen("filters", <<>>, w, <<>>)
    BY <1>5
  <2>2. wanted.kind = "filters" /\ wanted.lists = w
    BY <2>1, ChosenParts
  <2>3. NodeParts(onNode)
    BY <1>5, ChosenParts
  <2>4. \A l \in DOMAIN w : w[l] \in BOOLEAN
    BY DEF ListSets
  <2> QED BY <2>2, <2>3, <2>4, <1>2, <1>3 DEF PushesInv, RulesInv, ListsInv, SectionsInv, PayloadKinds
<1>6. CASE \E a, b \in Sections :
             \E wa \in WantedSection(a), wb \in WantedSection(b) :
                \E na \in {<<>>} \union {<<d>> : d \in HeldSection(a)},
                   nb \in {<<>>} \union {<<d>> : d \in HeldSection(b)} :
                   /\ wanted = Chosen("settings", <<>>, <<>>, [n \in {a, b} |-> IF n = a THEN wa ELSE wb])
                   /\ onNode = Chosen("settings", <<>>, <<>>, [n \in {a, b} |-> IF n = a THEN na ELSE nb])
  <2>1. PICK a \in Sections, b \in Sections :
             \E wa \in WantedSection(a), wb \in WantedSection(b) :
                \E na \in {<<>>} \union {<<d>> : d \in HeldSection(a)},
                   nb \in {<<>>} \union {<<d>> : d \in HeldSection(b)} :
                   /\ wanted = Chosen("settings", <<>>, <<>>, [n \in {a, b} |-> IF n = a THEN wa ELSE wb])
                   /\ onNode = Chosen("settings", <<>>, <<>>, [n \in {a, b} |-> IF n = a THEN na ELSE nb])
    BY <1>6
  <2>2. PICK wa \in WantedSection(a), wb \in WantedSection(b),
             na \in {<<>>} \union {<<d>> : d \in HeldSection(a)},
             nb \in {<<>>} \union {<<d>> : d \in HeldSection(b)} :
                   /\ wanted = Chosen("settings", <<>>, <<>>, [n \in {a, b} |-> IF n = a THEN wa ELSE wb])
                   /\ onNode = Chosen("settings", <<>>, <<>>, [n \in {a, b} |-> IF n = a THEN na ELSE nb])
    BY <2>1
  <2>3. PICK ws : ws = [n \in {a, b} |-> IF n = a THEN wa ELSE wb]
    OBVIOUS
  <2>4. PICK ns : ns = [n \in {a, b} |-> IF n = a THEN na ELSE nb]
    OBVIOUS
  <2>5. wanted.kind = "settings" /\ wanted.sections = ws /\ NodeParts(onNode) /\ onNode.sections = ns
    BY <2>2, <2>3, <2>4, ChosenParts
  <2>6. {a, b} \subseteq SectionNames
    BY PayloadAssumption
  <2>7. SectionsOver(onNode, DOMAIN wanted.sections)
    <3>1. ns = [n \in {a, b} |-> ns[n]] /\ DOMAIN ws = {a, b}
      BY <2>3, <2>4
    <3> QED BY <3>1, <2>5 DEF SectionsOver
  <2>8. ASSUME NEW n \in {a, b} PROVE SectionShape(n)
    <3>1. /\ ws[n] \in WantedSection(n)
          /\ ns[n] \in {<<>>} \union {<<d>> : d \in HeldSection(n)}
      BY <2>3, <2>4
    <3> QED BY <3>1, <2>5, <2>6, ShapeGiven DEF SectionShape
  <2>9. SectionsTyped
    BY <2>3, <2>5, <2>6, <2>7, <2>8 DEF SectionsTyped
  <2>10. SectionShapes /\ SectionsMid
    BY <1>2 DEF SectionShapes, SectionsMid, Working, Sending
  <2> QED BY <2>5, <2>9, <2>10, <1>2, <1>3 DEF PushesInv, RulesInv, ListsInv, SectionsInv, PayloadKinds
<1> QED BY <1>4, <1>5, <1>6 DEF PayloadInit

LEMMA PushesStep == PushesInv /\ [PayloadNext]_payloadVars => PushesInv'
<1> SUFFICES ASSUME PushesInv, [PayloadNext]_payloadVars PROVE PushesInv'
  OBVIOUS
<1>1. CASE UNCHANGED payloadVars
  <2>1. /\ wanted' = wanted /\ onNode' = onNode /\ pushing' = pushing /\ outcome' = outcome
    BY <1>1 DEF payloadVars
  <2>2. /\ SectionsTyped' <=> SectionsTyped
        /\ \A n : SectionSettled(n)' <=> SectionSettled(n)
        /\ \A failed : NamedBy(failed)' <=> NamedBy(failed)
    BY <2>1, SectionsSame
  <2>3. (PushShape' <=> PushShape) /\ (SectionShapes' <=> SectionShapes)
    BY <2>1 DEF PushShape, SectionShapes, Working, Sending, AskedShape
  <2>4. SectionsMid' <=> SectionsMid
    BY <2>1, <2>2 DEF SectionsMid, Working, Sending, CoveredBy
  <2>5. AtEnd' <=> AtEnd
    BY <2>1, <2>2 DEF AtEnd
  <2>6. FailuresNamed' <=> FailuresNamed
    BY <2>1 DEF FailuresNamed, Settled, SectionSettled, Differences, Implements, Pushing
  <2>7. Differences(onNode)' = Differences(onNode)
    BY <2>1 DEF Differences
  <2>8. RulesInv => RulesInv'
    BY <2>1, <2>3, <2>5, <2>6 DEF RulesInv
  <2>9. ListsInv => ListsInv'
    BY <2>1, <2>3, <2>5, <2>6, <2>7 DEF ListsInv, ListsAsked
  <2>10. SectionsInv => SectionsInv'
    BY <2>1, <2>2, <2>3, <2>4, <2>5, <2>6 DEF SectionsInv
  <2> QED BY <2>1, <2>8, <2>9, <2>10 DEF PushesInv
<1>2. CASE PayloadNext
  <2>1. wanted' = wanted
    BY <1>2 DEF PayloadNext, StartPayload, ReadNode, ReadAgain, EndPayload, RequestDone,
                RequestRefused, RequestLost, Touch
  <2> QED BY <1>2, <2>1, RulesStep, ListsStep, SectionsStep
          DEF PushesInv, RulesInv, ListsInv, SectionsInv, PayloadKinds
<1> QED BY <1>1, <1>2

LEMMA AllAgree == PushesInv => PushAndLogAgree
<1> SUFFICES ASSUME PushesInv PROVE PushAndLogAgree
  OBVIOUS
<1>0. wanted.kind \in PayloadKinds
  BY DEF PushesInv
<1>1. CASE wanted.kind = "rules"
  BY <1>1 DEF PushAndLogAgree, Differences, RequestsOf, SameRules
<1>2. CASE wanted.kind = "filters"
  BY <1>2, ListsAgree DEF PushAndLogAgree
<1>3. CASE wanted.kind = "settings"
  <2>1. SectionsTyped
    BY <1>3 DEF PushesInv, SectionsInv
  <2>2. ASSUME NEW n \in DOMAIN wanted.sections
        PROVE  /\ Strategy(n) \in {"document", "toggle", "clients", "rewrites"}
               /\ n = "blocked_services" => Strategy(n) = "document"
               /\ Strategy(n) = "toggle" => DOMAIN wanted.sections[n] # {}
    <3>1. n \in SectionNames /\ SectionShape(n)
      BY <2>1 DEF SectionsTyped
    <3>2. Strategy(n) = "toggle" => DOMAIN wanted.sections[n] # {}
      BY <3>1 DEF SectionShape
    <3>3. /\ Strategy(n) \in {"document", "toggle", "clients", "rewrites"}
          /\ n = "blocked_services" => Strategy(n) = "document"
      BY <3>1, EachStrategy DEF SpecKinds
    <3> QED BY <3>2, <3>3
  <2>3. \A n \in DOMAIN wanted.sections :
            Implements(n) =>
                /\ n \in RequestsOf(onNode) => n \in Differences(onNode)
                /\ Keyed(n) /\ Managed(n, wanted.sections[n]) = wanted.sections[n] =>
                      (n \in Differences(onNode) => n \in RequestsOf(onNode))
    BY <1>3, <2>2, SectionAgrees
  <2> QED BY <1>3, <2>3 DEF PushAndLogAgree
<1> QED BY <1>0, <1>1, <1>2, <1>3 DEF PayloadKinds

\* For any rules and subscriptions, for the data PayloadInit gives to any sections, keys that
\* do not travel among them, and whatever the node answers, fails or has changed by hand: a
\* push writes nothing the drift log would not report (push_section with _select against
\* diff_settings), and all it would report of rules, of subscriptions and of a section with
\* keys all of whose data travel.
THEOREM OneNotionOfDifferent == PayloadSpec => []PushAndLogAgree
BY PushesInitHolds, PushesStep, AllAgree, PTL DEF PayloadSpec

\* For any rules and subscriptions, and for the data PayloadInit gives to any two sections: a
\* push that names no failure, and during which nobody touched the node, has left nothing to
\* do; and what is missing of the subscriptions is among those it names (push_rules,
\* push_filter_lists, push_section and its strategies).
THEOREM FailuresAreNamed == PayloadSpec => []FailuresNamed
<1>1. PushesInv => FailuresNamed
  BY DEF PushesInv, RulesInv, ListsInv, SectionsInv, PayloadKinds
<1> QED BY PushesInitHolds, PushesStep, <1>1, PTL DEF PayloadSpec
=============================================================================

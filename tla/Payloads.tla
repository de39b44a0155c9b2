------------------------------ MODULE Payloads ------------------------------
(***************************************************************************)
(* What a push asks of a node, request by request, and what the drift log  *)
(* calls a difference: AdGuardAdapter.push_rules, push_filter_lists and    *)
(* push_section with the table of sections, against services/reconcile.py  *)
(* and adapters/compare.py.  One node, one payload; HubSync has the rest.  *)
(*                                                                         *)
(* A section is <<>> where the node does not implement it, <<data>> where  *)
(* it does.  The data of a document or toggle is a function of its keys,   *)
(* those the table of sections names and others; of clients and rewrites   *)
(* it is the sequence under their one key.                                 *)
(***************************************************************************)
EXTENDS Integers, Sequences, SequencesExt, FiniteSets, FiniteSetsExt, Functions

CONSTANTS
    RuleTexts,      \* rules
    ListKeys,       \* subscriptions, by kind and URL
    Sections,       \* sections the hub may manage
    Unfetchable,    \* the lists no node can download
    MaxTouches,     \* bound: changes made on the node by hand
    MaxFaults       \* bound: requests that fail by accident

VARIABLES
    wanted,     \* the payload as the hub has it: its kind and, by kind, the data
    onNode,     \* what the node has of it
    pushing,    \* the push under way
    outcome,    \* the last push: what failed, and whether the node was touched meanwhile
    touches, faults

payloadVars == <<wanted, onNode, pushing, outcome, touches, faults>>

-----------------------------------------------------------------------------
(* The sections, in the declared order.                                     *)

Section(name, strategy) == [name |-> name, strategy |-> strategy]

Specs ==
    << Section("dns", "document"),
       Section("clients", "clients"),
       Section("access", "document"),
       Section("tls", "document"),
       Section("rewrites", "rewrites"),
       Section("blocked_services", "document"),
       Section("filtering_config", "document"),
       Section("safebrowsing", "toggle"),
       Section("parental", "toggle"),
       Section("safesearch", "document"),
       Section("querylog_config", "document"),
       Section("stats_config", "document") >>

SectionNames == {s.name : s \in Range(Specs)}

ASSUME PayloadAssumption == Sections \subseteq SectionNames

SpecOf(name) == CHOOSE s \in Range(Specs) : s.name = name

Strategy(name) == SpecOf(name).strategy

Place(name) == CHOOSE i \in DOMAIN Specs : Specs[i].name = name

\* The first of them in the declared order.
FirstOf(names) == CHOOSE n \in names : \A m \in names : Place(n) <= Place(m)

Keyed(name) == Strategy(name) \in {"document", "toggle"}

-----------------------------------------------------------------------------
(* What differs.                                                            *)

\* Mutant: the node's answer to a placeholder is taken at its word.
NothingSelfResolved(name, key) == {}

\* SELF_RESOLVED
SelfResolved(name, key) ==
    IF name = "blocked_services" /\ key = "time_zone" THEN {"Local", ""} ELSE {}

\* section_differences: of each key of the one, what stands under it in the other satisfies
\* it.  A node without the section has none.
SectionDiffers(name, expected, actual) ==
    actual # <<>> /\
    IF Keyed(name)
    THEN \E key \in DOMAIN expected :
            /\ expected[key] \notin SelfResolved(name, key)
            /\ key \in DOMAIN actual[1] => expected[key] # actual[1][key]
    ELSE expected # actual[1]

-----------------------------------------------------------------------------
(* What of a section travels.                                               *)

\* SectionSpec.keys, two for a document's.  Safe search has no table, all of it travels.
Keys(name, data) == IF name = "safesearch" THEN DOMAIN data ELSE {"ids", "time_zone"}

\* _select
Selected(name, data) == Restrict(data, DOMAIN data \intersect Keys(name, data))

\* bool(data.get("enabled"))
Truth(data) ==
    IF "enabled" \in DOMAIN data /\ data["enabled"] \in {"on", "yes"} THEN "on" ELSE "off"

\* What a push asks of a section with keys, and what it sees of one.
Managed(name, data) ==
    IF Strategy(name) = "toggle" THEN [enabled |-> Truth(data)] ELSE Selected(name, data)

\* pull_section
Pulled(name, held) ==
    IF Keyed(name) /\ held # <<>> THEN <<Managed(name, held[1])>> ELSE held

-----------------------------------------------------------------------------
(* What the drift log reports.                                              *)

Multiset(texts) == [t \in Range(texts) |-> Cardinality({i \in DOMAIN texts : texts[i] = t})]

\* diff_rules, diff_filter_lists and diff_settings with is_correctable: what differs.  A
\* section is compared as the hub keeps it, with every key that was ever stored.
Differences(node) ==
    CASE wanted.kind = "rules" ->
            IF Multiset(wanted.rules) = Multiset(node.rules) THEN {} ELSE {"rules"}
      [] wanted.kind = "filters" ->
            {l \in DOMAIN wanted.lists \union DOMAIN node.lists :
                l \notin DOMAIN wanted.lists \intersect DOMAIN node.lists
                \/ wanted.lists[l] # node.lists[l]}
      [] wanted.kind = "settings" ->
            {n \in DOMAIN wanted.sections :
                SectionDiffers(n, wanted.sections[n], Pulled(n, node.sections[n]))}

-----------------------------------------------------------------------------
(* What a push sends, from what it has read.                                *)

Request(op, item) == [op |-> op, item |-> item]

SameRules(expected, actual) == Multiset(expected) = Multiset(actual)

\* push_filter_lists: add what is missing, set what is switched differently, drop the rest.
ListRequests(node) ==
    {Request("add", l) : l \in DOMAIN wanted.lists \ DOMAIN node}
    \union {Request("set", l) : l \in {k \in DOMAIN wanted.lists \intersect DOMAIN node :
                                          wanted.lists[k] # node[k]}}
    \union {Request("remove", l) : l \in DOMAIN node \ DOMAIN wanted.lists}

ClientNames(items) == {c.name : c \in Range(items)}

\* The last of a name counts, as in a dict.
ClientCalled(items, name) == items[Max({i \in DOMAIN items : items[i].name = name})]

\* Mutant: every section is written that the node implements, as it once was.
ToWriteAlways(name, expected, actual) == actual # <<>>

\* A push has something to write to a section with keys.
ToWrite(name, expected, actual) ==
    SectionDiffers(name, Managed(name, expected), Pulled(name, actual))

\* push_section, _push_clients and _push_rewrites.  Only a document is passed over on a
\* node that does not implement it, or if the table has none of its keys.
SectionRequests(name, expected, actual) ==
    CASE Keyed(name) ->
            IF \/ ToWrite(name, expected, actual)
               \/ actual = <<>> /\ Strategy(name) = "toggle"
            THEN {Request("write", name)} ELSE {}
      [] Strategy(name) = "clients" ->
            LET held == IF actual = <<>> THEN <<>> ELSE actual[1] IN
            {Request("put", ClientCalled(expected, n)) :
                n \in {m \in ClientNames(expected) :
                          m \notin ClientNames(held)
                          \/ ClientCalled(held, m) # ClientCalled(expected, m)}}
            \union {Request("delete", n) : n \in ClientNames(held) \ ClientNames(expected)}
      [] Strategy(name) = "rewrites" ->
            LET held == IF actual = <<>> THEN <<>> ELSE actual[1] IN
            {Request("add", r) : r \in Range(expected) \ Range(held)}
            \union {Request("delete", r) : r \in Range(held) \ Range(expected)}

\* What a push would send, had it nothing but this to read.
RequestsOf(node) ==
    CASE wanted.kind = "rules" ->
            IF SameRules(wanted.rules, node.rules) THEN {} ELSE {"rules"}
      [] wanted.kind = "filters" -> {r.item : r \in ListRequests(node.lists)}
      [] wanted.kind = "settings" ->
            {n \in DOMAIN wanted.sections :
                SectionRequests(n, wanted.sections[n], node.sections[n]) # {}}

-----------------------------------------------------------------------------
(* A push, one request after another.                                       *)

NoPushing == [pc |-> "rest", section |-> "none", later |-> {}, left |-> {},
              then |-> <<>>, base |-> <<>>, failed |-> {}, touched |-> FALSE]

NoOutcome == [ended |-> FALSE, failed |-> {}, touched |-> FALSE]

Pushing(pc) == pushing.pc = pc

NextSection(p) ==
    IF p.later = {} THEN [p EXCEPT !.pc = "end"]
    ELSE [p EXCEPT !.pc = "read", !.section = FirstOf(p.later),
                   !.later = @ \ {FirstOf(p.later)}]

StartPayload ==
    /\ Pushing("rest")
    /\ pushing' = CASE wanted.kind = "settings" ->
                          NextSection([NoPushing EXCEPT !.later = DOMAIN wanted.sections])
                    [] OTHER -> [NoPushing EXCEPT !.pc = "read"]
    /\ UNCHANGED <<wanted, onNode, outcome, touches, faults>>

\* pull_rules, pull_filter_lists, pull_section.
ReadNode ==
    /\ Pushing("read")
    /\ LET left == CASE wanted.kind = "rules" ->
                           IF SameRules(wanted.rules, onNode.rules) THEN {}
                           ELSE {Request("write", "rules")}
                     [] wanted.kind = "filters" -> ListRequests(onNode.lists)
                     [] wanted.kind = "settings" ->
                           SectionRequests(pushing.section, wanted.sections[pushing.section],
                                           onNode.sections[pushing.section])
           next == [pushing EXCEPT !.left = left]
       IN pushing' = IF left # {}
                     THEN [next EXCEPT !.pc = IF wanted.kind = "settings" /\
                              Strategy(pushing.section) = "document" THEN "again" ELSE "send"]
                     ELSE NextSection(next)
    /\ UNCHANGED <<wanted, onNode, outcome, touches, faults>>

\* merge_on_push: the document is read once more, and the managed keys laid over it.
ReadAgain ==
    /\ Pushing("again")
    /\ pushing' = [pushing EXCEPT !.pc = "send", !.base = onNode.sections[pushing.section]]
    /\ UNCHANGED <<wanted, onNode, outcome, touches, faults>>

\* Subscriptions are added and set before any is removed, a switched-off one set right
\* after it was added.
NextRequest(r) ==
    IF pushing.then # <<>> THEN r = pushing.then[1]
    ELSE r \in pushing.left /\
         (r.op \in {"remove", "delete"} =>
             \A q \in pushing.left : q.op \in {"remove", "delete"})

\* What the node makes of a placeholder.
Resolved(key, value) == IF value \in {"Local", ""} THEN "UTC" ELSE value

\* {**current, **payload}
Overlaid(data, base) ==
    [k \in DOMAIN data \union DOMAIN base |-> IF k \in DOMAIN data THEN data[k] ELSE base[k]]

WrittenList(lists, r) ==
    CASE r.op = "add" ->
            [l \in DOMAIN lists \union {r.item} |-> IF l = r.item THEN TRUE ELSE lists[l]]
      [] r.op = "set" -> [lists EXCEPT ![r.item] = wanted.lists[r.item]]
      [] r.op = "remove" -> Restrict(lists, DOMAIN lists \ {r.item})

\* What stands under a name or is a rewrite is there once.
Dropped(name, data, item) ==
    LET meant == {i \in DOMAIN data :
                    item = IF Strategy(name) = "clients" THEN data[i].name ELSE data[i]}
    IN  IF meant = {} THEN data ELSE RemoveAt(data, Max(meant))

WrittenSection(name, data, r) ==
    CASE Strategy(name) = "document" ->
            LET document == Overlaid(Managed(name, wanted.sections[name]), pushing.base[1])
            IN  [k \in DOMAIN document |-> Resolved(k, document[k])]
      [] Strategy(name) = "toggle" -> Managed(name, wanted.sections[name])
      [] r.op = "put" ->
            IF r.item.name \in ClientNames(data)
            THEN [i \in DOMAIN data |-> IF data[i].name = r.item.name THEN r.item ELSE data[i]]
            ELSE Append(data, r.item)
      [] r.op = "add" -> Append(data, r.item)
      [] r.op = "delete" -> Dropped(name, data, r.item)

\* The node's own refusals: what it cannot fetch, has already, lacks, or does not implement.
Refusable(r) ==
    CASE wanted.kind = "rules" -> FALSE
      [] wanted.kind = "filters" ->
            \/ r.op = "add" /\ (r.item \in Unfetchable \/ r.item \in DOMAIN onNode.lists)
            \/ r.op \in {"set", "remove"} /\ r.item \notin DOMAIN onNode.lists
      [] wanted.kind = "settings" -> onNode.sections[pushing.section] = <<>>

Applied(r) ==
    onNode' = CASE wanted.kind = "rules" -> [onNode EXCEPT !.rules = wanted.rules]
                [] wanted.kind = "filters" -> [onNode EXCEPT !.lists = WrittenList(@, r)]
                [] wanted.kind = "settings" ->
                     [onNode EXCEPT !.sections[pushing.section] =
                         <<WrittenSection(pushing.section, @[1], r)>>]

Continue(p) == IF p.left = {} /\ p.then = <<>> THEN NextSection(p) ELSE p

\* A new subscription is on; one that is to be off is set at once.
Succeeded(r) ==
    pushing' = Continue([pushing EXCEPT
        !.left = @ \ {r},
        !.then = IF wanted.kind = "filters" /\ r.op = "add" /\ ~wanted.lists[r.item]
                 THEN <<Request("set", r.item)>> ELSE <<>>])

\* Mutant: the first list that fails ends the push.
StopAtFirst(r) ==
    pushing' = [pushing EXCEPT !.pc = "end", !.left = {}, !.then = <<>>,
                               !.failed = {r.item}]

\* A list that fails is noted and the next one tried; a section that fails ends the push.
\* The message names the first MAX_LIST_ERRORS_SHOWN of them and counts the others.
Failed(r) ==
    pushing' = IF wanted.kind = "filters"
               THEN Continue([pushing EXCEPT !.left = @ \ {r}, !.then = <<>>,
                                             !.failed = @ \union {r.item}])
               ELSE [pushing EXCEPT !.pc = "end", !.left = {}, !.later = {},
                                    !.failed = {pushing.section}]

RequestDone(r) ==
    /\ Pushing("send") /\ NextRequest(r) /\ ~Refusable(r)
    /\ Applied(r) /\ Succeeded(r)
    /\ UNCHANGED <<wanted, outcome, touches, faults>>

RequestRefused(r) ==
    /\ Pushing("send") /\ NextRequest(r) /\ Refusable(r)
    /\ Failed(r)
    /\ UNCHANGED <<wanted, onNode, outcome, touches, faults>>

\* No answer in time, before or after the node did what it was asked.
RequestLost(r) ==
    /\ Pushing("send") /\ NextRequest(r) /\ faults < MaxFaults
    /\ faults' = faults + 1
    /\ \/ UNCHANGED onNode
       \/ ~Refusable(r) /\ Applied(r)
    /\ Failed(r)
    /\ UNCHANGED <<wanted, outcome, touches>>

EndPayload ==
    /\ Pushing("end")
    /\ outcome' = [ended |-> TRUE, failed |-> pushing.failed, touched |-> pushing.touched]
    /\ pushing' = NoPushing
    /\ UNCHANGED <<wanted, onNode, touches, faults>>

-----------------------------------------------------------------------------
(* The node's own interface.                                                *)

TouchedRules == {<<>>} \union {<<t>> : t \in RuleTexts}

TouchedSection(name, data) ==
    IF Keyed(name)
    THEN {[data EXCEPT ![k] = v] : k \in DOMAIN data, v \in {"on", "off"}}
    ELSE {<<>>, Reverse(data)}

Touch ==
    /\ touches < MaxTouches
    /\ touches' = touches + 1
    /\ \/ /\ wanted.kind = "rules"
          /\ \E rules \in TouchedRules : onNode' = [onNode EXCEPT !.rules = rules]
       \/ /\ wanted.kind = "filters"
          /\ \E l \in DOMAIN onNode.lists :
                onNode' = [onNode EXCEPT !.lists = Restrict(@, DOMAIN @ \ {l})]
       \/ /\ wanted.kind = "settings"
          /\ \E n \in DOMAIN onNode.sections :
                /\ onNode.sections[n] # <<>>
                /\ \E data \in TouchedSection(n, onNode.sections[n][1]) :
                      onNode' = [onNode EXCEPT !.sections[n] = <<data>>]
    /\ pushing' = [pushing EXCEPT !.touched = @ \/ ~Pushing("rest")]
    /\ outcome' = [outcome EXCEPT !.touched = TRUE]
    /\ UNCHANGED <<wanted, faults>>

-----------------------------------------------------------------------------
(* What the hub and the node start with: imported from one node, then       *)
(* edited on either side.                                                   *)

RuleSets == {s \in SeqOf(RuleTexts, 2) : IsInjective(s)}

ListSets == UNION {[some -> BOOLEAN] : some \in SUBSET ListKeys}

\* PATCH /config/sections and the /control interface store what they are sent: keys the
\* table does not have ("other"), and for a switch what is only as good as on ("yes").
WantedDocument(name) ==
    [ids : {"on", "off"}]
    \union (IF name # "blocked_services" THEN {}
            ELSE [ids : {"on"}, time_zone : {"Local", "", "UTC"}])
    \union (IF name = "safesearch" THEN {}
            ELSE [ids : {"on"}, other : {"on"}] \union [other : {"on"}])

WantedSection(name) ==
    CASE Strategy(name) = "document" -> WantedDocument(name)
      [] Strategy(name) = "toggle" ->
            [enabled : {"on", "off", "yes"}] \union [other : {"on"}]
      [] Strategy(name) = "clients" ->
            {<<>>, <<[name |-> "a", use |-> "on"]>>,
             <<[name |-> "a", use |-> "off"], [name |-> "b", use |-> "on"]>>}
      [] Strategy(name) = "rewrites" -> {<<>>, <<"x">>, <<"x", "y">>}

HeldSection(name) ==
    CASE Strategy(name) = "document" ->
            [ids : {"on", "off"}, time_zone : {"UTC", "off"}, own : {"on"}]
      [] Strategy(name) = "toggle" -> [enabled : {"on", "off"}]
      [] OTHER -> WantedSection(name)

Chosen(kind, rules, lists, sections) ==
    [kind |-> kind, rules |-> rules, lists |-> lists, sections |-> sections]

PayloadInit ==
    /\ \/ \E w \in RuleSets, n \in SeqOf(RuleTexts, 3) :
             /\ wanted = Chosen("rules", w, <<>>, <<>>)
             /\ onNode = Chosen("rules", n, <<>>, <<>>)
       \/ \E w, n \in ListSets :
             /\ wanted = Chosen("filters", <<>>, w, <<>>)
             /\ onNode = Chosen("filters", <<>>, n, <<>>)
       \/ \E a, b \in Sections :
             \E wa \in WantedSection(a), wb \in WantedSection(b) :
                \E na \in {<<>>} \union {<<d>> : d \in HeldSection(a)},
                   nb \in {<<>>} \union {<<d>> : d \in HeldSection(b)} :
                   /\ wanted = Chosen("settings", <<>>, <<>>, [n \in {a, b} |-> IF n = a THEN wa ELSE wb])
                   /\ onNode = Chosen("settings", <<>>, <<>>, [n \in {a, b} |-> IF n = a THEN na ELSE nb])
    /\ pushing = NoPushing
    /\ outcome = NoOutcome
    /\ touches = 0 /\ faults = 0

PayloadNext ==
    \/ StartPayload \/ ReadNode \/ ReadAgain \/ EndPayload
    \/ \E r \in pushing.left \union Range(pushing.then) :
          RequestDone(r) \/ RequestRefused(r) \/ RequestLost(r)
    \/ Touch

PayloadSpec == PayloadInit /\ [][PayloadNext]_payloadVars

\* Passes come by the timer, and a request is answered or times out.
PayloadFairness ==
    WF_payloadVars(StartPayload \/ ReadNode \/ ReadAgain \/ EndPayload
                   \/ \E r \in pushing.left \union Range(pushing.then) :
                         RequestDone(r) \/ RequestRefused(r))

-----------------------------------------------------------------------------
(* Properties.                                                              *)

Implements(name) == onNode.sections[name] # <<>>

\* What is left to do, as the push sees it: order is nothing to it.
SectionSettled(n) ==
    Implements(n) =>
        IF Keyed(n) THEN ~ToWrite(n, wanted.sections[n], onNode.sections[n])
        ELSE Range(wanted.sections[n]) = Range(onNode.sections[n][1])

Settled ==
    CASE wanted.kind = "settings" ->
            \A n \in DOMAIN wanted.sections : SectionSettled(n)
      [] OTHER -> Differences(onNode) \subseteq Unfetchable

\* adguard.py:518: "the push and the drift log now agree about what "different" means" -
\* whatever a node holds, a push writes nothing that reconciliation would not report; and it
\* writes all it would report of rules and subscriptions, and of a section with keys if all
\* that is stored of it travels, as it does after an import: a correction is never in vain.
PushAndLogAgree ==
    IF wanted.kind = "settings"
    THEN \A n \in DOMAIN wanted.sections :
            Implements(n) =>
                /\ n \in RequestsOf(onNode) => n \in Differences(onNode)
                /\ Keyed(n) /\ Managed(n, wanted.sections[n]) = wanted.sections[n] =>
                      (n \in Differences(onNode) => n \in RequestsOf(onNode))
    ELSE Differences(onNode) = RequestsOf(onNode)

\* A push that names no failure has left nothing to do, and one of the subscriptions that
\* fail is all that is missing: each of the others was tried.
FailuresNamed ==
    outcome.ended /\ ~outcome.touched /\ Pushing("rest") =>
        /\ outcome.failed = {} => Settled
        /\ wanted.kind = "filters" => Differences(onNode) \subseteq outcome.failed

\* A node that does what it is asked ends up with what it is to have, up to the lists it
\* cannot fetch: no push writes for ever for what a node will not show.  Only a node that
\* lacks a switch, the clients or the rewrites fails the settings for good.
PayloadsSettle ==
    (wanted.kind = "settings" =>
        \A n \in DOMAIN wanted.sections : Implements(n) \/ Strategy(n) = "document")
    => <>[](Settled /\ (wanted.kind # "filters" => pushing.left = {}))

\* The same of every section: violated, for the log compares rewrites and clients in their
\* order and the push does not.
SectionsAgree ==
    wanted.kind = "settings" =>
        \A n \in DOMAIN wanted.sections :
            Implements(n) => (n \in Differences(onNode) <=> n \in RequestsOf(onNode))

\* And of a section with keys, whatever is stored of it, a push that names no failure leaves
\* nothing the log reports: violated, for the log compares the keys the table does not have
\* and the push leaves them out.
KeyedSectionsCorrected ==
    wanted.kind = "settings" /\ outcome.ended /\ outcome.failed = {} /\ ~outcome.touched
    /\ Pushing("rest") =>
        \A n \in DOMAIN wanted.sections :
            Keyed(n) /\ Implements(n) => n \notin Differences(onNode)
=============================================================================

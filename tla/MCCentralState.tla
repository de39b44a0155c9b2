-------------------------- MODULE MCCentralState --------------------------
(* Instances of CentralState: two texts, one subscription, two sections of  *)
(* which tls is the risky one, a fresh hub and one that has a history.      *)
EXTENDS CentralState, TLC

CONSTANTS t1, t2, u1, k1, h1, h2

MCSectionNames == <<"dns", "tls">>

Fresh == [rules |-> <<>>, lists |-> <<>>, sections |-> <<>>]

\* A hub whose second rule is switched off and whose tls section was never touched.
Grown ==
    [rules |-> <<[text |-> t1, on |-> TRUE], [text |-> t2, on |-> FALSE]>>,
     lists |-> (u1 :> TRUE),
     sections |-> ("dns" :> [managed |-> TRUE, doc |-> {k1}])]

Hubs == {Fresh, Grown}

FreshHub == {Fresh}

MCBackup ==
    [rules |-> <<[text |-> t2, on |-> TRUE]>>, lists |-> <<>>,
     sections |-> ("tls" :> [managed |-> TRUE, doc |-> {k1}])]

MCMaster ==
    [rules |-> <<[text |-> t2, on |-> TRUE], [text |-> t1, on |-> TRUE]>>,
     lists |-> (u1 :> FALSE),
     sections |-> [n \in {"dns", "tls"} |-> [managed |-> TRUE, doc |-> {k1}]]]

\* The AdGuard-compatible routes for subscriptions commit as the ones of the pages do.
Operations ==
    {"create_rule", "allow_domain", "bulk_import", "set_rules", "delete_rule", "update_rule",
     "create_filter_list", "update_filter_list", "remove_url", "list_sections",
     "update_section", "write_section", "export", "restore_version", "restore"}

Symmetry == Permutations({h1, h2})

ExpiryOperations == {"allow_domain", "restore_version", "import_instance"}
===========================================================================

----------------------------- MODULE ReplicaSet -----------------------------
(***************************************************************************)
(* What the hub promises about its AdGuard nodes, with the machinery taken *)
(* away: no tasks, locks, queue or passes.  The hub holds one revision of  *)
(* each payload kind.  A node holds, per kind, either a revision the hub   *)
(* once had or Foreign, a state somebody else gave it.  The hub only ever  *)
(* moves a node to a revision at least as new as the one it holds, so two  *)
(* full-state pushes racing to one node never leave the older one behind.  *)
(***************************************************************************)
EXTENDS Integers

CONSTANTS Instances, Kinds

VARIABLES desired,  \* desired[k]: the hub's revision of payload kind k
          node      \* node[i][k]: what instance i holds of kind k

vars == <<desired, node>>

\* Older than every revision of the hub, so adopting a node counts as progress.
Foreign == -1

Init ==
    /\ desired = [k \in Kinds |-> 0]
    /\ node = [i \in Instances |-> [k \in Kinds |-> Foreign]]

\* An edit gives every kind it touches a new revision.
Edit(ks) ==
    /\ desired' = [k \in Kinds |-> IF k \in ks THEN desired[k] + 1 ELSE desired[k]]
    /\ UNCHANGED node

\* A full-state push: the node moves to a revision no older than its own.
Apply(i, k) ==
    /\ \E r \in 0..desired[k] :
          /\ r >= node[i][k]
          /\ node' = [node EXCEPT ![i][k] = r]
    /\ UNCHANGED desired

\* Somebody edits the node directly, or the node does not keep what it took.
Drift(i, k) ==
    /\ node' = [node EXCEPT ![i][k] = Foreign]
    /\ UNCHANGED desired

Next ==
    \/ \E ks \in SUBSET Kinds : Edit(ks)
    \/ \E i \in Instances, k \in Kinds : Apply(i, k) \/ Drift(i, k)

Spec == Init /\ [][Next]_vars
=============================================================================

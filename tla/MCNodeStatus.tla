--------------------------- MODULE MCNodeStatus ---------------------------
(* Model checking of NodeStatus: the configurations give the constants.    *)
EXTENDS NodeStatus
=============================================================================

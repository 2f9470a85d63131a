---------------------------- MODULE MCLifecycle ----------------------------
(***************************************************************************)
(* Two workers for Lifecycle, as in docker-compose.yml: a node with GIS    *)
(* data, and one without and without a SIP notifier, each with a lock file *)
(* that can and that cannot be opened.                                     *)
(***************************************************************************)
EXTENDS Lifecycle

CONSTANTS w1, w2

MCWorkers == {w1, w2}

MCConfigs ==
  {[role |-> "standalone", gpkg |-> TRUE, sip |-> TRUE, shedding |-> TRUE,
    lockOpens |-> opens] : opens \in BOOLEAN}
  \cup
  {[role |-> "forest_guide", gpkg |-> FALSE, sip |-> FALSE, shedding |-> FALSE,
    lockOpens |-> TRUE]}
=============================================================================

------------------------------- MODULE MCCap -------------------------------
(* Two tables of two slots over a pool of two endpoints, called from ring 0 *)
(* without a scheduler, as the self-tests of kernel/main.c call the engine. *)
EXTENDS Cap, TLC

MCCallers == {0}
MCRights == {"SEND", "RECV"}
\* The last return value decides nothing later.
MCView == <<slots, ep_pool, ep_pool_used, mem>>
MCSymmetry == Permutations(Tables)
=============================================================================

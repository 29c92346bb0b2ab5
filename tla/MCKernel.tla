------------------------------ MODULE MCKernel ------------------------------
(* The kernel core with one user task, as booted, and with two. *)
EXTENDS Kernel

MCRights == {"SEND", "RECV"}

\* The last return value and what buffers hold decide nothing later.
MCView == <<slots, ep_pool, ep_pool_used, schedVars>>
=============================================================================

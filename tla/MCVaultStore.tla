---------------------------- MODULE MCVaultStore ----------------------------
(***************************************************************************)
(* Two processes, two Handles, two storable values and one too short one.  *)
(***************************************************************************)
EXTENDS VaultStore, TLC

CONSTANTS p1, p2, a, b, long, other, short, k1, k2

\* Every write command, run against each other.  (add is capture without its
\* child.)
MCOffered ==
    {[op |-> "create"],
     [op |-> "capture", h |-> a, v |-> long, exposed |-> FALSE],
     [op |-> "mv", h |-> a, to |-> b],
     [op |-> "rewrap", newKey |-> k2],
     [op |-> "import", env |-> (a :> other @@ b :> short)],
     [op |-> "intercept", found |-> {long, short}, bypass |-> TRUE],
     [op |-> "intercept", found |-> {long}, bypass |-> FALSE],
     [op |-> "rm", hs |-> {a, b}],
     [op |-> "mark", h |-> b],
     [op |-> "clear", h |-> b]}
=============================================================================

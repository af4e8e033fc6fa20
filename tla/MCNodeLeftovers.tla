-------------------------- MODULE MCNodeLeftovers --------------------------
(* The instance of NodeLeftovers for TLC. *)
EXTENDS MCNodeService, NodeLeftovers

=============================================================================

------------------------------- MODULE MCLinkArq -------------------------------
(***************************************************************************)
(* The times of the source but for ACK_TIMEOUT_MS, which only has to leave *)
(* room for all retransmissions of a hop.                                  *)
(***************************************************************************)
EXTENDS LinkArq, TLC


Symmetric == Permutations(Targets)

=============================================================================

---------------------------- MODULE MCRelayRetry ----------------------------
(***************************************************************************)
(* Constants for model checking RelayRetry.                                *)
(***************************************************************************)
EXTENDS RelayRetry, TLC

MCWorkers == Admins \cup Attempts \cup {Tester}
Symmetric == Permutations(Channels)
=============================================================================

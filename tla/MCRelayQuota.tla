--------------------------- MODULE MCRelayQuota ----------------------------
(* Calls that share one account and one key.                               *)
EXTENDS RelayQuota, TLC

CONSTANTS c1, c2, k1, u1

MCOneKey == c1 :> k1 @@ c2 :> k1
MCSymmetry == Permutations({c1, c2})
MCOwner1 == k1 :> u1
MCInitial == u1 :> 101
=============================================================================

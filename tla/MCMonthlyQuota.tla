--------------------------- MODULE MCMonthlyQuota --------------------------
(* One or two accounts and masters, one handler, up to two months.          *)
EXTENDS MonthlyQuota, TLC

CONSTANTS u1, u2, n1, n2

MCSymmetry == Permutations({n1, n2})
=============================================================================

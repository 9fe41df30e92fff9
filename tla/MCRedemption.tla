---------------------------- MODULE MCRedemption ---------------------------
(* One code, up to three requests that race for it, two users and one      *)
(* administrator.  The runs name their members as model values.            *)
EXTENDS Redemption

CONSTANTS c1, u1, u2, r1, r2, r3, e1
=============================================================================

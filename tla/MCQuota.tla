------------------------------ MODULE MCQuota ------------------------------
(* Small instances of Quota for TLC. *)
EXTENDS QuotaHistory, TLC

CONSTANTS u1, u2, k1, k2, r1, r2

MCAllToOne == [k \in Keys |-> u1]
MCManuals == {-1}
MCHalves == -3..6

===========================================================================
